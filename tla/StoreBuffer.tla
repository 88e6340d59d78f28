---------------------------- MODULE StoreBuffer ----------------------------
(***************************************************************************)
(* core/store_buffer.sv: the speculative queue and the commit queue of the *)
(* store unit, two ring buffers of registers that move on every clock      *)
(* edge.  A step of this module is one edge.  Registers keep the names of  *)
(* the source without the _q suffix.  A store is a dynamic instruction     *)
(* number; its data and byte enables are left out.                         *)
(***************************************************************************)
EXTENDS Integers, Sequences

CONSTANTS DEPTH_SPEC,       \* entries of the speculative queue
          DEPTH_COMMIT,     \* entries of the commit queue
          MaxStore          \* bound: dynamic stores offered to the buffer

ASSUME DepthAssumption == DEPTH_SPEC \in Nat \ {0, 1} /\ DEPTH_COMMIT \in Nat \ {0, 1}

(* ariane_pkg.sv:34 and :42 ask for powers of two: only then do registers  *)
(* of $clog2(depth) bits wrap where the arrays end.                        *)
ASSUME PowersAssumption ==
  \A depth \in {DEPTH_SPEC, DEPTH_COMMIT} : \E k \in 1 .. depth : depth = 2^k

ASSUME MaxStoreAssumption == MaxStore \in Nat

VARIABLES
  speculative_queue, speculative_read_pointer, speculative_write_pointer,
  speculative_status_cnt,
  commit_queue, commit_read_pointer, commit_write_pointer, commit_status_cnt,
  issued,                   \* history: stores offered so far
  written                   \* history: the stores the data cache granted

specVars == <<speculative_queue, speculative_read_pointer,
              speculative_write_pointer, speculative_status_cnt>>
commitVars == <<commit_queue, commit_read_pointer, commit_write_pointer,
                commit_status_cnt>>
vars == <<specVars, commitVars, issued, written>>

SpecSlots == 0 .. DEPTH_SPEC - 1
CommitSlots == 0 .. DEPTH_COMMIT - 1
Entry == [store : Nat, valid : BOOLEAN]
ResetEntry == [store |-> 0, valid |-> FALSE]

----------------------------------------------------------------------------
(* Pointers are $clog2(depth) bits wide, counters one bit wider; as depth  *)
(* is a power of two, they are modulo depth and modulo 2 * depth.          *)

(* Mutant of Inc: the pointer does not wrap.                              *)
Inc_NoWrap(p, depth) == p + 1

Inc(p, depth) == IF p + 1 = depth THEN 0 ELSE p + 1
Slot(p, k, depth) == IF p + k < depth THEN p + k ELSE p + k - depth
Wrap(n, depth) == IF n < 0 THEN n + 2 * depth
                  ELSE IF n >= 2 * depth THEN n - 2 * depth ELSE n
Bit(b) == IF b THEN 1 ELSE 0
Invalidate(e) == [store |-> e.store, valid |-> FALSE]

Reset ==
  /\ speculative_queue = [i \in SpecSlots |-> ResetEntry]
  /\ speculative_read_pointer = 0
  /\ speculative_write_pointer = 0
  /\ speculative_status_cnt = 0
  /\ commit_queue = [i \in CommitSlots |-> ResetEntry]
  /\ commit_read_pointer = 0
  /\ commit_write_pointer = 0
  /\ commit_status_cnt = 0
  /\ written = <<>>

(* always_comb core_if.  A flush rewinds the write pointer to the          *)
(* registered read pointer, also when commit_i moves that one.             *)
SpeculativeCount(valid_i, commit_i, flush_i) ==
  IF flush_i THEN 0
  ELSE Wrap(speculative_status_cnt + Bit(valid_i) - Bit(commit_i), DEPTH_SPEC)

(* Mutant of EntryAfter: a flush resets the counter but not the flags.     *)
EntryAfter_FlushKeepsValid(i, valid_i, s, commit_i, flush_i) ==
  LET put == IF valid_i /\ i = speculative_write_pointer
             THEN [store |-> s, valid |-> TRUE] ELSE speculative_queue[i]
  IN  IF commit_i /\ i = speculative_read_pointer THEN Invalidate(put) ELSE put

EntryAfter(i, valid_i, s, commit_i, flush_i) ==
  LET put == IF valid_i /\ i = speculative_write_pointer
             THEN [store |-> s, valid |-> TRUE] ELSE speculative_queue[i]
  IN  IF flush_i \/ (commit_i /\ i = speculative_read_pointer)
      THEN Invalidate(put) ELSE put

CoreInterface(valid_i, s, commit_i, flush_i) ==
  /\ speculative_queue' =
       [i \in SpecSlots |-> EntryAfter(i, valid_i, s, commit_i, flush_i)]
  /\ speculative_read_pointer' =
       IF commit_i THEN Inc(speculative_read_pointer, DEPTH_SPEC)
                   ELSE speculative_read_pointer
  /\ speculative_write_pointer' =
       IF flush_i THEN speculative_read_pointer
       ELSE IF valid_i THEN Inc(speculative_write_pointer, DEPTH_SPEC)
       ELSE speculative_write_pointer
  /\ speculative_status_cnt' = SpeculativeCount(valid_i, commit_i, flush_i)

ready_o(valid_i, commit_i, flush_i) ==
  SpeculativeCount(valid_i, commit_i, flush_i) < DEPTH_SPEC \/ commit_i

(* always_comb store_if.                                                   *)
commit_ready_o == commit_status_cnt < DEPTH_COMMIT
no_st_pending_o == commit_status_cnt = 0
store_buffer_empty_o == speculative_status_cnt = 0 /\ no_st_pending_o

(* Mutant of data_req: the last store stays in the queue.                  *)
data_req_KeepsLast(stall_st_pending_i) ==
  commit_queue[commit_read_pointer].valid /\ ~stall_st_pending_i /\ commit_status_cnt > 1

data_req(stall_st_pending_i) ==
  commit_queue[commit_read_pointer].valid /\ ~stall_st_pending_i

(* Mutant of CommitEntry: the newest speculative store instead of the      *)
(* oldest.                                                                 *)
CommitEntry_Newest ==
  speculative_queue[IF speculative_write_pointer = 0 THEN DEPTH_SPEC - 1
                    ELSE speculative_write_pointer - 1]
CommitEntry == speculative_queue[speculative_read_pointer]

CommitCount(commit_i, drain) ==
  Wrap(commit_status_cnt + Bit(commit_i) - Bit(drain), DEPTH_COMMIT)

MemoryInterface(commit_i, drain) ==
  /\ commit_queue' = [i \in CommitSlots |->
       IF commit_i /\ i = commit_write_pointer THEN CommitEntry
       ELSE IF drain /\ i = commit_read_pointer THEN Invalidate(commit_queue[i])
       ELSE commit_queue[i]]
  /\ commit_read_pointer' =
       IF drain THEN Inc(commit_read_pointer, DEPTH_COMMIT) ELSE commit_read_pointer
  /\ commit_write_pointer' =
       IF commit_i THEN Inc(commit_write_pointer, DEPTH_COMMIT) ELSE commit_write_pointer
  /\ commit_status_cnt' = CommitCount(commit_i, drain)
  /\ written' = IF drain THEN Append(written, commit_queue[commit_read_pointer].store)
                         ELSE written

Clock(valid_i, s, commit_i, flush_i, stall_st_pending_i, data_gnt) ==
  /\ CoreInterface(valid_i, s, commit_i, flush_i)
  /\ MemoryInterface(commit_i, data_req(stall_st_pending_i) /\ data_gnt)

----------------------------------------------------------------------------
(* The buffer on its own, driven as its four assertions ask: no push into  *)
(* a full queue, no commit from an empty one or into a full one, and no    *)
(* commit together with a flush; the store unit pushes nothing in a flush. *)
(* Lsu.tla checks which of these the rest of the core keeps.               *)

Legal(valid_i, commit_i, flush_i) ==
  /\ valid_i => speculative_status_cnt # DEPTH_SPEC /\ ~flush_i
  /\ commit_i => speculative_status_cnt # 0 /\ commit_status_cnt # DEPTH_COMMIT
  /\ flush_i => ~commit_i

Init == Reset /\ issued = 0

Edge(valid_i, commit_i, flush_i, stall_st_pending_i, data_gnt) ==
  /\ Legal(valid_i, commit_i, flush_i)
  /\ valid_i => issued < MaxStore
  /\ issued' = issued + Bit(valid_i)
  /\ Clock(valid_i, issued + 1, commit_i, flush_i, stall_st_pending_i, data_gnt)

Next == \E valid_i, commit_i, flush_i, stall_st_pending_i, data_gnt \in BOOLEAN :
          Edge(valid_i, commit_i, flush_i, stall_st_pending_i, data_gnt)

(* The data cache grants a request it keeps seeing.                        *)
Grant == \E valid_i, commit_i, flush_i \in BOOLEAN :
           data_req(FALSE) /\ Edge(valid_i, commit_i, flush_i, FALSE, TRUE)

Spec == Init /\ [][Next]_vars
FairSpec == Spec /\ WF_vars(Grant)

----------------------------------------------------------------------------
(* Types, as the widths of the registers bound them.                       *)
TypeOK ==
  /\ speculative_queue \in [SpecSlots -> Entry]
  /\ speculative_read_pointer \in SpecSlots
  /\ speculative_write_pointer \in SpecSlots
  /\ speculative_status_cnt \in 0 .. 2 * DEPTH_SPEC - 1
  /\ commit_queue \in [CommitSlots -> Entry]
  /\ commit_read_pointer \in CommitSlots
  /\ commit_write_pointer \in CommitSlots
  /\ commit_status_cnt \in 0 .. 2 * DEPTH_COMMIT - 1
  /\ issued \in Nat
  /\ written \in Seq(Nat)

(* A queue is coherent when its counter, pointers and valid flags tell the *)
(* same story: the valid entries are the cnt slots from the read pointer,  *)
(* and the write pointer is the slot after them.                           *)
Coherent(queue, rd, wr, cnt, depth) ==
  /\ cnt <= depth
  /\ wr = Slot(rd, cnt, depth)
  /\ \A k \in 0 .. depth - 1 : queue[Slot(rd, k, depth)].valid <=> k < cnt

SpeculativeCoherent ==
  Coherent(speculative_queue, speculative_read_pointer,
           speculative_write_pointer, speculative_status_cnt, DEPTH_SPEC)

CommitCoherent ==
  Coherent(commit_queue, commit_read_pointer,
           commit_write_pointer, commit_status_cnt, DEPTH_COMMIT)

(* Pushes, commits, grants and flushes that meet in one cycle never leave  *)
(* a store counted but not valid (it would block the queue for ever) nor   *)
(* valid but not counted (it would match loads for ever).                  *)
QueuesCoherent == SpeculativeCoherent /\ CommitCoherent

(* The buffer implements the promise of StoreOrder: its queues, read from  *)
(* their read pointers, are the pending and the retired stores.            *)
Contents(queue, rd, cnt, depth) ==
  [k \in 1 .. cnt |-> queue[Slot(rd, k - 1, depth)].store]

Pending == Contents(speculative_queue, speculative_read_pointer,
                    speculative_status_cnt, DEPTH_SPEC)
Retired == Contents(commit_queue, commit_read_pointer,
                    commit_status_cnt, DEPTH_COMMIT)

(* While the cache grants, no retired store stays in the buffer for ever.  *)
RetiredStoresAreWritten ==
  \A s \in 1 .. MaxStore :
    (\E k \in DOMAIN Retired : Retired[k] = s) ~> (\E k \in DOMAIN written : written[k] = s)

Order == INSTANCE StoreOrder WITH
           Stores <- 1 .. MaxStore, pending <- Pending, retired <- Retired, written <- written

ImplementsStoreOrder == Order!Spec
=============================================================================
