---------------------------- MODULE LsuOrderProofs ----------------------------
(***************************************************************************)
(* The order of stores, loads, atomics and fences in the load-store unit   *)
(* (Lsu.tla), for the parameters LsuProofs.tla allows and any depth of the *)
(* two store queues: what the core promises the store buffer, and what the *)
(* store buffer and the address checker promise the loads.                 *)
(***************************************************************************)
EXTENDS LsuProofs, SequenceTheorems

(* The theorems about the store buffer alone, for the core that drives it. *)
SBP == INSTANCE StoreBufferProofs WITH MaxStore <- LongestRun, issued <- Len(instr)

LEMMA Depths == SBP!DepthAssumption /\ SBP!PowersAssumption /\ SBP!MaxStoreAssumption
<1>1. SBP!DepthAssumption /\ SBP!MaxStoreAssumption
  BY QueuesAssumption, BoundAssumption DEF SBP!DepthAssumption, SBP!MaxStoreAssumption
<1>2. SBP!PowersAssumption
  BY PowersAssumption DEF SBP!PowersAssumption
<1> QED
  BY <1>1, <1>2

(* A debugger that single steps makes a store commit in the cycle of a     *)
(* flush (LsuSingleStep.cfg), which the store buffer is not built for.     *)
Unstepped == ~SingleStep

-----------------------------------------------------------------------------
(* The stores of the window that are done are the pending ones, in program *)
(* order; every memory instruction that is still in the FIFO is younger.   *)
Increasing(s) == \A j, k \in DOMAIN s : j < k => s[j] < s[k]
Among(n, s) == \E k \in DOMAIN s : s[k] = n

Pending == SBP!Pending
Retired == SBP!Retired
Done(n) == instr[n].result # NotDone

StoresPending ==
  /\ Increasing(Pending)
  /\ \A n : Among(n, Pending) <=> n \in Window /\ instr[n].kind = "STORE" /\ Done(n)
  /\ Front.valid => \A k \in DOMAIN Pending : Pending[k] < Front.n
  /\ store_state = "VALID_STORE" => \A k \in DOMAIN Pending : Pending[k] < store_req.n

(* A request in the store unit has room in the buffer it goes to.          *)
RoomForRequest ==
  store_state = "VALID_STORE" => IF is_amo(store_req) THEN amo_buffer = 0
                                 ELSE speculative_status_cnt < DEPTH_SPEC

StoresCommitted ==
  /\ written \o Retired = committed
  /\ \A k \in DOMAIN committed : committed[k] \in 1 .. head - 1

(* The atomic that waits in the AMO buffer is the one of the window.       *)
AtomicBuffered ==
  /\ \A n \in Window : instr[n].kind = "AMO" /\ Done(n) => amo_buffer = n
  /\ amo_buffer \in 0 .. Last

(* Every older store to the granule has been written: what a load needs    *)
(* before it reads.                                                        *)
Clear(n, a) == \A m \in OlderStores(n) : instr[m].addr = a => m \in Written
Cleared == {"WAIT_GNT", "WAIT_WB_EMPTY", "WAIT_TRANSLATION", "ABORT_TRANSACTION_NI"}

LoadsClear ==
  /\ \A i \in LoadIds : Live(i) => Clear(ldbuf[i].n, ldbuf[i].addr)
  /\ load_state \in Cleared => Clear(Front.n, Front.addr)

(* A load of a device that was really sent is at the commit port, with no  *)
(* store that has committed still on its way.                              *)
DeviceLoads ==
  \A i \in LoadIds : ldbuf[i].valid /\ ldbuf[i].addr \in NonIdempotent /\ ~Killed(i) =>
    ~ldbuf[i].flushed /\ ldbuf[i].n = head /\ commit_status_cnt = 0

OrderInv ==
  /\ SBP!IInv
  /\ Last <= MaxInstr
  /\ \A i \in LoadIds : ldbuf[i].n <= Last
  /\ StoresPending /\ RoomForRequest /\ StoresCommitted /\ AtomicBuffered
  /\ LoadsClear /\ DeviceLoads

Orderly == Aligned /\ Unstepped

-----------------------------------------------------------------------------
(* Sequences.  The pending and the retired stores after an edge, as        *)
(* SBP!QueueMoves builds them.                                             *)
Popping(s, pop) == IF pop THEN Tail(s) ELSE s
Pushing(s, push, x) == IF push THEN Append(s, x) ELSE s

LEMMA PopFacts ==
  ASSUME NEW s \in Seq(Nat), NEW pop, NEW p, p = Popping(s, pop), pop => s # <<>>
  PROVE  /\ p \in Seq(Nat)
         /\ \A k \in DOMAIN p : IF pop THEN k + 1 \in DOMAIN s /\ p[k] = s[k + 1]
                               ELSE k \in DOMAIN s /\ p[k] = s[k]
         /\ \A j \in DOMAIN s : IF pop THEN j = 1 \/ (j - 1 \in DOMAIN p /\ p[j - 1] = s[j])
                               ELSE j \in DOMAIN p /\ p[j] = s[j]
<1>1. CASE pop
  <2>1. p = Tail(s) /\ s # <<>>
    BY <1>1 DEF Popping
  <2>2. /\ p \in Seq(Nat) /\ Len(p) = Len(s) - 1 /\ Len(s) \in Nat
        /\ DOMAIN s = 1 .. Len(s) /\ DOMAIN p = 1 .. Len(p)
        /\ \A k \in 1 .. Len(p) : p[k] = s[k + 1]
    BY <2>1
  <2>3. ASSUME NEW j \in DOMAIN s, j # 1 PROVE j - 1 \in DOMAIN p /\ p[j - 1] = s[j]
    <3>1. j - 1 \in 1 .. Len(p) /\ (j - 1) + 1 = j
      BY <2>2, <2>3
    <3>2. p[j - 1] = s[(j - 1) + 1]
      BY ONLY <2>2, <3>1
    <3> QED
      BY ONLY <2>2, <3>1, <3>2
  <2>4. ASSUME NEW k \in DOMAIN p PROVE k + 1 \in DOMAIN s /\ p[k] = s[k + 1]
    BY <2>2
  <2> QED
    BY <1>1, <2>2, <2>3, <2>4
<1>2. CASE ~pop
  <2>1. p = s
    BY <1>2 DEF Popping
  <2> QED
    BY <1>2, <2>1
<1> QED
  BY <1>1, <1>2

LEMMA PushFacts ==
  ASSUME NEW p \in Seq(Nat), NEW push, NEW x \in Nat, NEW t, t = Pushing(p, push, x)
  PROVE  /\ t \in Seq(Nat)
         /\ \A k \in DOMAIN t : (k \in DOMAIN p /\ t[k] = p[k]) \/ (push /\ k = Len(t) /\ t[k] = x)
         /\ \A k \in DOMAIN p : k \in DOMAIN t /\ t[k] = p[k] /\ (push => k < Len(t))
         /\ push => Len(t) \in DOMAIN t /\ t[Len(t)] = x
<1>1. CASE push
  <2>1. t = Append(p, x)
    BY <1>1 DEF Pushing
  <2>2. /\ t \in Seq(Nat) /\ Len(t) = Len(p) + 1 /\ t[Len(t)] = x
        /\ \A k \in 1 .. Len(p) : t[k] = p[k]
        /\ Len(p) \in Nat /\ DOMAIN p = 1 .. Len(p) /\ DOMAIN t = 1 .. Len(t)
    BY <2>1
  <2>3. ASSUME NEW k \in DOMAIN t
        PROVE  (k \in DOMAIN p /\ t[k] = p[k]) \/ (push /\ k = Len(t) /\ t[k] = x)
    <3>1. k \in 1 .. Len(p) \/ k = Len(t)
      BY <2>2
    <3> QED
      BY <1>1, <2>2, <3>1
  <2>4. \A k \in DOMAIN p : k \in DOMAIN t /\ t[k] = p[k] /\ k < Len(t)
    BY <2>2
  <2>5. Len(t) \in DOMAIN t
    BY <2>2
  <2> QED
    BY <1>1, <2>2, <2>3, <2>4, <2>5
<1>2. CASE ~push
  <2>1. t = p
    BY <1>2 DEF Pushing
  <2> QED
    BY <1>2, <2>1
<1> QED
  BY <1>1, <1>2

(* A queue of increasing numbers stays one when it is popped and a larger  *)
(* number is pushed.                                                       *)

AllBelow(s, x) == \A k \in DOMAIN s : s[k] < x

LEMMA QueueElements ==
  ASSUME NEW s \in Seq(Nat), NEW pop, NEW push, NEW x \in Nat, NEW t,
         t = Pushing(Popping(s, pop), push, x), pop => s # <<>>, Increasing(s),
         push => AllBelow(s, x)
  PROVE  /\ t \in Seq(Nat) /\ Increasing(t)
         /\ \A n : Among(n, t) <=> \/ Among(n, s) /\ ~(pop /\ n = Head(s))
                                   \/ push /\ n = x
<1>1. PICK p : p = Popping(s, pop)
  OBVIOUS
<1>2. t = Pushing(p, push, x)
  BY <1>1
<1>3. /\ p \in Seq(Nat)
      /\ \A k \in DOMAIN p : IF pop THEN k + 1 \in DOMAIN s /\ p[k] = s[k + 1]
                            ELSE k \in DOMAIN s /\ p[k] = s[k]
      /\ \A j \in DOMAIN s : IF pop THEN j = 1 \/ (j - 1 \in DOMAIN p /\ p[j - 1] = s[j])
                            ELSE j \in DOMAIN p /\ p[j] = s[j]
  BY ONLY <1>1, pop => s # <<>>, s \in Seq(Nat), PopFacts
<1>4. /\ t \in Seq(Nat)
      /\ \A k \in DOMAIN t : (k \in DOMAIN p /\ t[k] = p[k]) \/ (push /\ k = Len(t) /\ t[k] = x)
      /\ \A k \in DOMAIN p : k \in DOMAIN t /\ t[k] = p[k] /\ (push => k < Len(t))
      /\ push => Len(t) \in DOMAIN t /\ t[Len(t)] = x
  BY ONLY <1>2, <1>3, PushFacts, x \in Nat
<1>5. /\ \A k \in DOMAIN s : k \in Nat \ {0} /\ s[k] \in Nat /\ k <= Len(s)
      /\ \A k \in DOMAIN p : k \in Nat \ {0} /\ p[k] \in Nat
      /\ \A k \in DOMAIN t : k \in Nat \ {0} /\ t[k] \in Nat /\ k <= Len(t)
      /\ Len(t) \in Nat
  <2>1. ASSUME NEW q \in Seq(Nat)
        PROVE  Len(q) \in Nat /\ \A k \in DOMAIN q : k \in Nat \ {0} /\ q[k] \in Nat /\ k <= Len(q)
    OBVIOUS
  <2> QED
    BY <1>3, <1>4, <2>1
<1>6. pop => 1 \in DOMAIN s /\ Head(s) = s[1]
  OBVIOUS
<1>7. Increasing(p)
  <2> SUFFICES ASSUME NEW j \in DOMAIN p, NEW k \in DOMAIN p, j < k PROVE p[j] < p[k]
    BY DEF Increasing
  <2>1. CASE pop
    <3>1. j + 1 < k + 1 /\ j + 1 \in DOMAIN s /\ k + 1 \in DOMAIN s
      BY <1>3, <1>5, <2>1
    <3>2. s[j + 1] < s[k + 1]
      BY <3>1 DEF Increasing
    <3> QED
      BY <1>3, <2>1, <3>2
  <2>2. CASE ~pop
    BY <1>3, <2>2 DEF Increasing
  <2> QED
    BY <2>1, <2>2
<1>8. \A n : Among(n, p) <=> Among(n, s) /\ ~(pop /\ n = Head(s))
  <2>1. CASE pop
    <3>1. ASSUME NEW k \in DOMAIN p PROVE Among(p[k], s) /\ p[k] # Head(s)
      <4>1. k + 1 \in DOMAIN s /\ p[k] = s[k + 1] /\ 1 < k + 1
        BY <1>3, <1>5, <2>1
      <4>2. s[1] < s[k + 1]
        BY <1>6, <2>1, <4>1 DEF Increasing
      <4> QED
        BY <1>5, <1>6, <2>1, <4>1, <4>2 DEF Among
    <3>2. ASSUME NEW j \in DOMAIN s, s[j] # Head(s) PROVE Among(s[j], p)
      <4>1. j # 1
        BY <1>6, <2>1, <3>2
      <4> QED
        BY <1>3, <2>1, <4>1 DEF Among
    <3> QED
      BY <2>1, <3>1, <3>2 DEF Among
  <2>2. CASE ~pop
    BY <1>3, <2>2 DEF Among
  <2> QED
    BY <2>1, <2>2
<1>9. push => \A k \in DOMAIN p : p[k] < x
  <2> SUFFICES ASSUME push, NEW k \in DOMAIN p PROVE p[k] < x
    OBVIOUS
  <2>1. Among(p[k], s)
    BY <1>8 DEF Among
  <2> QED
    BY <2>1 DEF Among, AllBelow
<1>10. Increasing(t)
  <2> SUFFICES ASSUME NEW j \in DOMAIN t, NEW k \in DOMAIN t, j < k PROVE t[j] < t[k]
    BY DEF Increasing
  <2>1. ~(push /\ j = Len(t))
    BY <1>5
  <2>2. j \in DOMAIN p /\ t[j] = p[j]
    BY <1>4, <2>1
  <2>3. CASE k \in DOMAIN p /\ t[k] = p[k]
    BY <1>7, <2>2, <2>3 DEF Increasing
  <2>4. CASE push /\ k = Len(t) /\ t[k] = x
    BY <1>9, <2>2, <2>4
  <2> QED
    BY <1>4, <2>3, <2>4
<1>11. \A n : Among(n, t) <=> Among(n, p) \/ (push /\ n = x)
  <2>1. ASSUME NEW n, Among(n, t) PROVE Among(n, p) \/ (push /\ n = x)
    BY <1>4, <2>1 DEF Among
  <2>2. ASSUME NEW n, Among(n, p) PROVE Among(n, t)
    BY <1>4, <2>2 DEF Among
  <2>3. push => Among(x, t)
    BY <1>4 DEF Among
  <2> QED
    BY <2>1, <2>2, <2>3
<1> QED
  BY <1>4, <1>8, <1>10, <1>11

(* A drained store moves from the front of the retired ones to the end of  *)
(* the written ones.                                                       *)
LEMMA Moved ==
  ASSUME NEW w \in Seq(Nat), NEW r \in Seq(Nat), NEW drain \in BOOLEAN, NEW commit \in BOOLEAN,
         NEW x \in Nat, drain => r # <<>>
  PROVE  Pushing(w, drain, Head(r)) \o Pushing(Popping(r, drain), commit, x)
           = Pushing(w \o r, commit, x)
<1> DEFINE w2 == Pushing(w, drain, Head(r))
           p == Popping(r, drain)
           r2 == Pushing(p, commit, x)
           both == Pushing(w \o r, commit, x)
<1>1. w2 \o p = w \o r
  <2>1. CASE drain
    <3>1. Head(r) \in Nat /\ Tail(r) \in Seq(Nat) /\ r = <<Head(r)>> \o Tail(r)
      BY <2>1
    <3>2. w2 = w \o <<Head(r)>>
      BY <2>1, <3>1, AppendIsConcat DEF Pushing
    <3>3. w2 \in Seq(Nat) /\ p = Tail(r)
      BY <2>1, <3>1 DEF Pushing, Popping
    <3>4. (w \o <<Head(r)>>) \o Tail(r) = w \o (<<Head(r)>> \o Tail(r))
      BY <3>1
    <3> QED
      BY <3>1, <3>2, <3>3, <3>4
  <2>2. CASE ~drain
    BY <2>2 DEF Pushing, Popping
  <2> QED
    BY <2>1, <2>2
<1>2. w2 \in Seq(Nat) /\ p \in Seq(Nat)
  BY DEF Pushing, Popping
<1> HIDE DEF w2, p
<1>3. CASE commit
  <2>1. r2 = p \o <<x>>
    BY <1>2, <1>3 DEF Pushing
  <2>2. w2 \o (p \o <<x>>) = (w2 \o p) \o <<x>>
    BY <1>2
  <2>3. both = (w \o r) \o <<x>>
    BY <1>3 DEF Pushing
  <2> QED
    BY <1>1, <2>1, <2>2, <2>3 DEF w2, p
<1>4. CASE ~commit
  BY <1>1, <1>4 DEF Pushing, w2, p
<1> QED
  BY <1>3, <1>4


-----------------------------------------------------------------------------
(* What the commit stage and the store unit do in one edge, where no store *)
(* is misaligned and nothing single steps: a store that commits flushes    *)
(* nothing, and an atomic that is answered flushes.                        *)
CoreMoves(ack, f, c, push, amo_ack) ==
  /\ ack \in BOOLEAN /\ f \in BOOLEAN /\ c \in BOOLEAN /\ push \in BOOLEAN
  /\ c <=> commit_lsu
  /\ c <=> ack /\ instr[head].kind = "STORE"
  /\ c => ~f
  /\ f => ack \/ exception
  /\ ack => head \in Window /\ Done(head)
  /\ exception => head \in Window /\ Done(head)
  /\ push <=> ~f /\ store_state = "VALID_STORE" /\ ~is_amo(store_req)
  /\ f => amo_buffer' = 0
  /\ ~f => amo_buffer' = IF store_state = "VALID_STORE" /\ is_amo(store_req) /\ amo_buffer = 0
                         THEN store_req.n ELSE amo_buffer
  /\ head' = IF f THEN Last + 1 ELSE IF ack THEN head + 1 ELSE head
  /\ committed' = Pushing(committed, c, head)
  /\ store_state = "VALID_STORE" =>
       /\ store_req.n \in Window /\ ~Done(store_req.n)
       /\ instr[store_req.n].kind \in {"STORE", "AMO"}
       /\ store_req.addr = instr[store_req.n].addr
       /\ is_amo(store_req) <=> instr[store_req.n].kind = "AMO"

LEMMA CoreStep ==
  ASSUME NEW kind, NEW a, NEW finish, NEW wbuffer_empty, NEW not_ni, NEW amo_ack, NEW st_gnt,
         NEW ld_gnt, NEW rid, NEW ack, NEW f, NEW valid, NEW st, NEW matches, NEW granted,
         NEW stall, NEW push, NEW st_ready, NEW c, c = commit_lsu,
         Orderly, HeldInv, amo_ack \in AmoAcks,
         Signals(wbuffer_empty, not_ni, amo_ack, ld_gnt, rid, ack, f, valid, st, matches,
                 granted, stall, push, st_ready),
         Wires(kind, a, finish, not_ni, amo_ack, st_gnt, rid, ack, f, valid, st, matches,
               granted, stall, push, st_ready)
  PROVE  CoreMoves(ack, f, c, push, amo_ack)
<1>1. Aligned /\ Unstepped /\ Program /\ StoreMachine /\ Holding
  BY DEF Orderly, HeldInv
<1>2. /\ ack \in BOOLEAN /\ f \in BOOLEAN
      /\ ack = commit_ack(wbuffer_empty, amo_ack)
      /\ f = flush(ack)
      /\ push = store_buffer_valid(ex_q, f)
  BY DEF Signals
<1>3. /\ CommitStage(ack, f)
      /\ StoreUnitClock(st, Front, st_ready, ex_q, f, amo_valid_commit, amo_ack)
  BY DEF Wires
<1>4. head_valid => head \in Window /\ Done(head) /\ instr[head].kind # "STORE_X"
  <2>1. head_valid => head \in Window /\ Done(head)
    BY <1>1 DEF head_valid, Window, Program, Last, Done
  <2> QED
    BY <1>1, <2>1 DEF Program, Aligned
<1>5. c <=> ack /\ instr[head].kind = "STORE"
  BY <1>2, <1>4 DEF commit_lsu, commit_ack, StoreKinds
<1>6. /\ ack => head_valid /\ ~exception
      /\ exception => head_valid
      /\ f => ack \/ exception
      /\ c => ~f
  BY <1>1, <1>2, <1>5 DEF commit_ack, exception, flush, enters_debug, Unstepped
<1>7. push <=> ~f /\ store_state = "VALID_STORE" /\ ~is_amo(store_req)
  BY <1>1, <1>2 DEF store_buffer_valid, st_valid, store_exception, StoreMachine
<1>8. amo_ack \in BOOLEAN /\ (amo_ack => amo_valid_commit)
  BY DEF AmoAcks, amo_req_o
<1>9. /\ amo_ack => f
      /\ f => amo_ack \/ ~amo_valid_commit
  <2>1. amo_valid_commit => instr[head].kind = "AMO" /\ head_valid /\ ~exception /\ "AMO" \notin StoreKinds
    BY DEF amo_valid_commit, exception, StoreKinds
  <2> QED
    BY <1>2, <1>6, <1>8, <2>1 DEF commit_ack, flush, amo_valid_commit
<1>10. /\ f => amo_buffer' = 0
       /\ ~f => amo_buffer' = IF store_state = "VALID_STORE" /\ is_amo(store_req) /\ amo_buffer = 0
                              THEN store_req.n ELSE amo_buffer
  <2>1. amo_buffer' = NextAmoBuffer(ex_q, f, amo_valid_commit, amo_ack)
    BY <1>3 DEF StoreUnitClock
  <2>2. amo_buffer_valid(ex_q, f) <=> ~f /\ store_state = "VALID_STORE" /\ is_amo(store_req)
    BY <1>1, <1>2 DEF amo_buffer_valid, st_valid, store_exception, StoreMachine
  <2> QED
    BY <1>9, <2>1, <2>2 DEF NextAmoBuffer
<1>11. /\ head' = IF f THEN Last + 1 ELSE IF ack THEN head + 1 ELSE head
       /\ committed' = Pushing(committed, c, head)
  BY <1>3 DEF CommitStage, Pushing
<1>12. store_state = "VALID_STORE" =>
       /\ store_req.n \in Window /\ ~Done(store_req.n)
       /\ instr[store_req.n].kind \in {"STORE", "AMO"}
       /\ store_req.addr = instr[store_req.n].addr
       /\ is_amo(store_req) <=> instr[store_req.n].kind = "AMO"
  <2> SUFFICES ASSUME store_state = "VALID_STORE"
               PROVE  /\ store_req.n \in Window /\ ~Done(store_req.n)
                      /\ instr[store_req.n].kind \in {"STORE", "AMO"}
                      /\ store_req.addr = instr[store_req.n].addr
                      /\ is_amo(store_req) <=> instr[store_req.n].kind = "AMO"
    OBVIOUS
  <2>1. Pend(store_req) /\ store_req.fu \in {"STORE", "AMO"}
    BY <1>1 DEF Holding, StoreMachine
  <2>2. instr[store_req.n].kind \in {"STORE", "AMO"}
    BY <1>1, <2>1, AlignedStores
  <2>3. store_req.fu = instr[store_req.n].kind
    BY <2>1, <2>2 DEF Pend, UnitOf, LoadKinds, StoreKinds
  <2>4. instr[store_req.n].kind = "AMO" => RVA
    <3>1. instr[store_req.n].kind \in Kinds /\ Elaborated
      BY <1>1, <2>1 DEF Program, Pend
    <3> QED
      BY <3>1, KindsAssumption DEF Kinds, RVA, Elaborated
  <2> QED
    BY <2>1, <2>2, <2>3, <2>4 DEF Pend, Done, is_amo
<1>13. c \in BOOLEAN /\ push \in BOOLEAN
  BY <1>2 DEF commit_lsu, Signals
<1> QED
  BY <1>2, <1>4, <1>5, <1>6, <1>7, <1>10, <1>11, <1>12, <1>13 DEF CoreMoves

(* A bound of the counters, and the contents of the queues.                *)
LEMMA QueueBounds ==
  ASSUME SBP!IInv
  PROVE  /\ DEPTH_SPEC \in Nat \ {0, 1} /\ DEPTH_COMMIT \in Nat \ {0, 1}
         /\ speculative_status_cnt \in 0 .. DEPTH_SPEC /\ commit_status_cnt \in 0 .. DEPTH_COMMIT
         /\ Pending \in Seq(Nat) /\ Len(Pending) = speculative_status_cnt
         /\ Retired \in Seq(Nat) /\ Len(Retired) = commit_status_cnt
         /\ written \in Seq(Nat)
         /\ \A n : Among(n, Pending) =>
              \E i \in DOMAIN speculative_queue :
                speculative_queue[i].valid /\ speculative_queue[i].store = n
         /\ \A n : Among(n, Retired) =>
              \E i \in DOMAIN commit_queue : commit_queue[i].valid /\ commit_queue[i].store = n
<1>1. DEPTH_SPEC \in Nat \ {0, 1} /\ DEPTH_COMMIT \in Nat \ {0, 1}
  BY QueuesAssumption
<1>2. SBP!TypeOK /\ SBP!SpeculativeCoherent /\ SBP!CommitCoherent
  BY DEF SBP!IInv, SBP!QueuesCoherent
<1>3. /\ speculative_queue \in [0 .. DEPTH_SPEC - 1 -> SBP!Entry]
      /\ speculative_read_pointer \in 0 .. DEPTH_SPEC - 1
      /\ speculative_status_cnt \in 0 .. DEPTH_SPEC
      /\ commit_queue \in [0 .. DEPTH_COMMIT - 1 -> SBP!Entry]
      /\ commit_read_pointer \in 0 .. DEPTH_COMMIT - 1
      /\ commit_status_cnt \in 0 .. DEPTH_COMMIT
      /\ written \in Seq(Nat)
  BY <1>1, <1>2 DEF SBP!TypeOK, SBP!SpecSlots, SBP!CommitSlots, SBP!SpeculativeCoherent,
       SBP!CommitCoherent, SBP!Coherent
<1>4. /\ Pending \in Seq(Nat) /\ Len(Pending) = speculative_status_cnt
      /\ \A k \in 1 .. speculative_status_cnt : Pending[k] =
           speculative_queue[SBP!Slot(speculative_read_pointer, k - 1, DEPTH_SPEC)].store
  BY <1>1, <1>3, SBP!ContentsProperties, Depths DEF Pending, SBP!Pending
<1>5. /\ Retired \in Seq(Nat) /\ Len(Retired) = commit_status_cnt
      /\ \A k \in 1 .. commit_status_cnt : Retired[k] =
           commit_queue[SBP!Slot(commit_read_pointer, k - 1, DEPTH_COMMIT)].store
  BY <1>1, <1>3, SBP!ContentsProperties, Depths DEF Retired, SBP!Retired
<1>6. ASSUME NEW k \in DOMAIN Pending
      PROVE  \E i \in DOMAIN speculative_queue :
               speculative_queue[i].valid /\ speculative_queue[i].store = Pending[k]
  <2>1. k \in 1 .. speculative_status_cnt /\ k - 1 \in 0 .. DEPTH_SPEC - 1 /\ k - 1 < speculative_status_cnt
    BY <1>1, <1>3, <1>4
  <2>2. SBP!Slot(speculative_read_pointer, k - 1, DEPTH_SPEC) \in 0 .. DEPTH_SPEC - 1
    BY <1>1, <1>3, <2>1 DEF SBP!Slot
  <2>3. speculative_queue[SBP!Slot(speculative_read_pointer, k - 1, DEPTH_SPEC)].valid
    BY <1>2, <2>1 DEF SBP!SpeculativeCoherent, SBP!Coherent
  <2> QED
    BY <1>3, <1>4, <2>1, <2>2, <2>3
<1>7. ASSUME NEW k \in DOMAIN Retired
      PROVE  \E i \in DOMAIN commit_queue :
               commit_queue[i].valid /\ commit_queue[i].store = Retired[k]
  <2>1. k \in 1 .. commit_status_cnt /\ k - 1 \in 0 .. DEPTH_COMMIT - 1 /\ k - 1 < commit_status_cnt
    BY <1>1, <1>3, <1>5
  <2>2. SBP!Slot(commit_read_pointer, k - 1, DEPTH_COMMIT) \in 0 .. DEPTH_COMMIT - 1
    BY <1>1, <1>3, <2>1 DEF SBP!Slot
  <2>3. commit_queue[SBP!Slot(commit_read_pointer, k - 1, DEPTH_COMMIT)].valid
    BY <1>2, <2>1 DEF SBP!CommitCoherent, SBP!Coherent
  <2> QED
    BY <1>3, <1>5, <2>1, <2>2, <2>3
<1>8. \A n : Among(n, Pending) =>
        \E i \in DOMAIN speculative_queue :
          speculative_queue[i].valid /\ speculative_queue[i].store = n
  BY <1>6 DEF Among
<1>9. \A n : Among(n, Retired) =>
        \E i \in DOMAIN commit_queue : commit_queue[i].valid /\ commit_queue[i].store = n
  BY <1>7 DEF Among
<1> QED
  BY <1>1, <1>3, <1>4, <1>5, <1>8, <1>9


RetiredCounted == Len(Retired) = commit_status_cnt

LEMMA RetiredCount == (SBP!IInv => RetiredCounted) /\ (SBP!IInv' => RetiredCounted')
<1>1. SBP!IInv => RetiredCounted
  BY QueueBounds DEF RetiredCounted
<1> QED
  BY <1>1, PTL

Drains(drain, st_gnt) ==
  drain \in BOOLEAN /\ st_gnt \in BOOLEAN /\ drain = (SBP!data_req(FALSE) /\ st_gnt)

(* The core drives the store buffer as its four assertions ask.            *)
LEMMA BufferStep ==
  ASSUME NEW push, NEW c, NEW f, NEW st_gnt, NEW ack, NEW amo_ack, NEW drain,
         Drains(drain, st_gnt),
         HeldInv, OrderInv, CoreMoves(ack, f, c, push, amo_ack), Program',
         SB!Clock(push, store_req.n, commit_lsu, f, FALSE, st_gnt)
  PROVE  /\ SBP!IInv' /\ SBP!Legal(push, c, f)
         /\ SBP!QueueMoves(push, store_req.n, c, f, drain)
<1>0. /\ push \in BOOLEAN /\ c \in BOOLEAN /\ f \in BOOLEAN /\ st_gnt \in BOOLEAN
      /\ drain = (SBP!data_req(FALSE) /\ st_gnt)
  BY DEF CoreMoves, Drains
<1>1. SBP!IInv /\ StoresPending /\ RoomForRequest /\ StoreMachine /\ Program
  BY DEF OrderInv, HeldInv
<1>2. store_req.n \in Nat /\ Len(instr') \in Nat
  BY <1>1 DEF StoreMachine, Requests, Program
<1>3. /\ c = commit_lsu
      /\ c => ack /\ instr[head].kind = "STORE" /\ ~f /\ head \in Window /\ Done(head)
      /\ push => ~f /\ store_state = "VALID_STORE" /\ ~is_amo(store_req)
  <2>1. commit_lsu \in BOOLEAN
    BY DEF commit_lsu
  <2> QED
    BY <2>1 DEF CoreMoves
<1>4. c => speculative_status_cnt # 0 /\ commit_status_cnt # DEPTH_COMMIT
  <2>1. c => Among(head, Pending)
    BY <1>1, <1>3 DEF StoresPending
  <2>2. c => Pending # <<>>
    BY <2>1 DEF Among
  <2>3. c => commit_status_cnt < DEPTH_COMMIT
    BY <1>3 DEF commit_lsu, SB!commit_ready_o
  <2> QED
    BY <1>1, <2>2, <2>3, QueueBounds
<1>5. push => speculative_status_cnt # DEPTH_SPEC
  BY <1>1, <1>3, QueueBounds DEF RoomForRequest
<1>6. SBP!Legal(push, c, f)
  BY <1>3, <1>4, <1>5 DEF SBP!Legal
<1>7. SBP!Clock(push, store_req.n, c, f, FALSE, st_gnt)
  <2>1. SBP!Clock(push, store_req.n, commit_lsu, f, FALSE, st_gnt)
    BY DEF SB!Clock, SBP!Clock, SB!CoreInterface, SBP!CoreInterface, SB!MemoryInterface,
         SBP!MemoryInterface, SB!EntryAfter, SBP!EntryAfter, SB!SpeculativeCount,
         SBP!SpeculativeCount, SB!CommitCount, SBP!CommitCount, SB!CommitEntry, SBP!CommitEntry,
         SB!data_req, SBP!data_req, SB!Inc, SBP!Inc, SB!Wrap, SBP!Wrap, SB!Bit, SBP!Bit,
         SB!Invalidate, SBP!Invalidate, SB!SpecSlots, SBP!SpecSlots, SB!CommitSlots,
         SBP!CommitSlots
  <2> QED
    BY <1>3, <2>1
<1>8. SBP!LegalEdge(push, store_req.n, c, f, FALSE, st_gnt, drain)
  BY <1>0, <1>2, <1>6, <1>7 DEF SBP!LegalEdge, Drains
<1>9. SBP!IInv' /\ SBP!QueueMoves(push, store_req.n, c, f, drain)
  BY ONLY <1>1, <1>8, Depths, SBP!LegalEdgeStep
<1> QED
  BY <1>6, <1>9

(* The queues after an edge, as the sets of instructions they hold.        *)
QueuesAfter(c, f, push) ==
  /\ f => Pending' = <<>>
  /\ ~f => /\ Pending' \in Seq(Nat) /\ Increasing(Pending')
           /\ \A n : Among(n, Pending') <=> \/ Among(n, Pending) /\ ~(c /\ n = head)
                                            \/ push /\ n = store_req.n
  /\ written' \o Retired' = Pushing(written \o Retired, c, head)
  /\ written' \in Seq(Nat)
  /\ \A n : Among(n, written) => Among(n, written')
  /\ Retired = <<>> /\ ~c => Retired' = <<>>

LEMMA QueuesStep ==
  ASSUME NEW push, NEW c, NEW f, NEW drain, NEW ack, NEW amo_ack, drain \in BOOLEAN,
         HeldInv, OrderInv, CoreMoves(ack, f, c, push, amo_ack),
         SBP!QueueMoves(push, store_req.n, c, f, drain)
  PROVE  QueuesAfter(c, f, push)
<1>0. push \in BOOLEAN /\ c \in BOOLEAN /\ f \in BOOLEAN
  BY DEF CoreMoves
<1>1. SBP!IInv /\ StoresPending /\ Program
  BY DEF OrderInv, HeldInv
<1>2. /\ Pending \in Seq(Nat) /\ Retired \in Seq(Nat) /\ written \in Seq(Nat)
      /\ head \in Nat /\ Window \subseteq Nat /\ \A n \in Window : head <= n
      /\ Increasing(Pending)
  <2>1. Pending \in Seq(Nat) /\ Retired \in Seq(Nat) /\ written \in Seq(Nat)
    BY <1>1, QueueBounds
  <2>2. head \in Nat /\ Window \subseteq Nat /\ \A n \in Window : head <= n
    BY <1>1 DEF Program, Window, Last
  <2> QED
    BY <1>1, <2>1, <2>2 DEF StoresPending
<1>3. /\ c => head \in Window /\ Done(head) /\ instr[head].kind = "STORE"
      /\ push => store_req.n \in Window /\ store_state = "VALID_STORE"
  BY DEF CoreMoves
<1>4. c => Pending # <<>> /\ Head(Pending) = head
  <2> SUFFICES ASSUME c PROVE Pending # <<>> /\ Head(Pending) = head
    OBVIOUS
  <2>1. Among(head, Pending)
    BY <1>1, <1>3 DEF StoresPending
  <2>2. PICK k \in DOMAIN Pending : Pending[k] = head
    BY <2>1 DEF Among
  <2>3. 1 \in DOMAIN Pending /\ k \in Nat \ {0} /\ Pending # <<>> /\ Head(Pending) = Pending[1]
    BY <1>2, <2>2
  <2>4. Pending[1] \in Window
    BY <1>1, <2>3 DEF StoresPending, Among
  <2>5. 1 < k => Pending[1] < Pending[k]
    BY <1>2, <2>2, <2>3 DEF Increasing
  <2>6. Pending[1] \in Nat /\ head <= Pending[1]
    BY <1>2, <2>4
  <2> QED
    BY <1>2, <2>2, <2>3, <2>5, <2>6
<1>5. f => Pending' = <<>>
  BY DEF SBP!QueueMoves, Pending
<1>6. ASSUME ~f
      PROVE  /\ Pending' \in Seq(Nat) /\ Increasing(Pending')
             /\ \A n : Among(n, Pending') <=> \/ Among(n, Pending) /\ ~(c /\ n = head)
                                              \/ push /\ n = store_req.n
  <2>1. Pending' = Pushing(Popping(Pending, c), push, store_req.n)
    BY <1>6 DEF SBP!QueueMoves, Pending, Pushing, Popping
  <2>2. PICK t : t = Pending'
    OBVIOUS
  <2>3. PICK x \in Nat : push => x = store_req.n
    BY <1>2, <1>3
  <2>4. t = Pushing(Popping(Pending, c), push, x)
    BY <2>1, <2>2, <2>3 DEF Pushing
  <2>5. push => \A k \in DOMAIN Pending : Pending[k] < x
    BY <1>1, <1>3, <2>3 DEF StoresPending
  <2>6. c => Pending # <<>>
    BY <1>4
  <2>7. /\ t \in Seq(Nat) /\ Increasing(t)
        /\ \A n : Among(n, t) <=> \/ Among(n, Pending) /\ ~(c /\ n = Head(Pending))
                                  \/ push /\ n = x
    <3>1. PICK s \in Seq(Nat) : s = Pending
      BY <1>2
    <3>2. /\ t = Pushing(Popping(s, c), push, x) /\ (c => s # <<>>) /\ Increasing(s)
          /\ push => AllBelow(s, x)
      BY <1>2, <2>4, <2>5, <2>6, <3>1 DEF AllBelow
    <3>3. /\ t \in Seq(Nat) /\ Increasing(t)
          /\ \A n : Among(n, t) <=> \/ Among(n, s) /\ ~(c /\ n = Head(s))
                                    \/ push /\ n = x
      BY ONLY s \in Seq(Nat), <3>2, QueueElements, x \in Nat
    <3> QED
      BY <3>1, <3>3
  <2> QED
    BY <1>4, <2>2, <2>3, <2>7
<1>7. drain => Retired # <<>>
  BY DEF SBP!QueueMoves, Retired
<1>8. written' = Pushing(written, drain, Head(Retired))
  BY DEF SBP!QueueMoves, Retired, Pushing
<1>9. Retired' = Pushing(Popping(Retired, drain), c, head)
  <2>1. Retired' = Pushing(Popping(Retired, drain), c, Head(Pending))
    BY DEF SBP!QueueMoves, Retired, Pending, Pushing, Popping
  <2> QED
    BY <1>4, <2>1 DEF Pushing
<1>10. written' \o Retired' = Pushing(written \o Retired, c, head)
  <2>1. Pushing(written, drain, Head(Retired)) \o Pushing(Popping(Retired, drain), c, head)
          = Pushing(written \o Retired, c, head)
    <3>1. PICK w \in Seq(Nat), r \in Seq(Nat), x \in Nat : w = written /\ r = Retired /\ x = head
      BY <1>2
    <3>2. drain => r # <<>>
      BY <1>7, <3>1
    <3>3. Pushing(w, drain, Head(r)) \o Pushing(Popping(r, drain), c, x) = Pushing(w \o r, c, x)
      BY ONLY w \in Seq(Nat), r \in Seq(Nat), x \in Nat, <3>2, Moved, drain \in BOOLEAN, <1>0
    <3> QED
      BY <3>1, <3>3
  <2> QED
    BY ONLY <1>8, <1>9, <2>1
<1>11. written' \in Seq(Nat) /\ \A n : Among(n, written) => Among(n, written')
  <2>1. PICK t : t = written'
    OBVIOUS
  <2>2. PICK x \in Nat : drain => x = Head(Retired)
    BY <1>2, <1>7
  <2>3. t = Pushing(written, drain, x)
    BY <1>8, <2>1, <2>2 DEF Pushing
  <2>4. t \in Seq(Nat) /\ \A k \in DOMAIN written : k \in DOMAIN t /\ t[k] = written[k]
    BY ONLY <1>2, <2>3, PushFacts, x \in Nat
  <2> QED
    BY <2>1, <2>4 DEF Among
<1>12. Retired = <<>> /\ ~c => Retired' = <<>>
  BY <1>7, <1>9 DEF Pushing, Popping
<1> QED
  BY <1>5, <1>6, <1>10, <1>11, <1>12 DEF QueuesAfter


(* A store or an atomic is done when the store unit hands it over.         *)
LEMMA StoreAnswered ==
  ASSUME NEW rid \in Responses, HeldInv, NEW n \in Window, instr[n].kind \in {"STORE", "AMO"}
  PROVE  Answered(n, rid) <=> store_state = "VALID_STORE" /\ store_req.n = n
<1>1. LoadBuffer /\ LoadTypes /\ LoadWaits /\ Holding /\ instr[n].kind \notin LoadKinds
  BY DEF HeldInv, LoadBuffer, LoadKinds
<1>2. rid # NoResponse /\ Live(rid) => ldbuf[rid].n # n
  <2>1. rid # NoResponse => rid \in LoadIds
    BY <1>1, ResponseFacts
  <2> QED
    BY <1>1, <2>1 DEF Holding, PendLoad
<1>3. Faults(rid) => Front.n # n
  <2>1. Faults(rid) => LdValid
    BY <1>1 DEF Faults, LoadWaits, Retrying
  <2>2. LdValid => Pend(Front) /\ Front.fu = "LOAD"
    BY <1>1 DEF Holding, LdValid
  <2>3. LdValid => instr[Front.n].kind \in LoadKinds
    BY <2>2 DEF Pend, UnitOf
  <2> QED
    BY <1>1, <2>1, <2>3
<1> QED
  BY <1>2, <1>3 DEF Answered

LEMMA DoneAfter ==
  ASSUME NEW kind, NEW finish, NEW rid \in Responses, NEW ack, NEW f, NEW st, NEW granted,
         NEW stall, NEW st_ready, NEW n, NEW k \in {"STORE", "AMO"},
         HeldInv, EdgeMoves(kind, finish, rid, ack, f, st, granted, stall, st_ready), ~f
  PROVE  (n \in Window' /\ instr'[n].kind = k /\ instr'[n].result # NotDone) <=>
           /\ n \in Window /\ Stays(n, ack) /\ instr[n].kind = k
           /\ Done(n) \/ (store_state = "VALID_STORE" /\ store_req.n = n)
<1> DEFINE wbs == Writebacks(finish, rid)
<1>1. /\ InstrMoves(ack, f, kind, wbs)
      /\ \A m \in Window : instr[m].kind \in MemKinds => (Completed(m, wbs) <=> Answered(m, rid))
  BY DEF EdgeMoves
<1>2. Window \subseteq Nat
  BY DEF HeldInv, Program, Window, Last
<1> HIDE DEF wbs
<1>3. CASE n \in Window /\ Stays(n, ack)
  <2>1. /\ n \in Window' /\ instr'[n].kind = instr[n].kind
        /\ instr'[n].result = IF Completed(n, wbs) THEN n ELSE instr[n].result
    BY <1>1, <1>3 DEF InstrMoves
  <2>2. instr[n].kind = k => (Completed(n, wbs) <=> store_state = "VALID_STORE" /\ store_req.n = n)
    <3>1. k \in MemKinds
      BY DEF MemKinds, StoreKinds
    <3> QED
      BY <1>1, <1>3, <3>1, StoreAnswered
  <2>3. n # NotDone
    BY <1>2, <1>3 DEF NotDone
  <2> QED
    BY <1>3, <2>1, <2>2, <2>3 DEF Done
<1>4. CASE ~(n \in Window /\ Stays(n, ack))
  <2>1. n \in Window' => instr'[n].result = NotDone
    BY <1>1, <1>4 DEF InstrMoves
  <2> QED
    BY <1>4, <2>1
<1> QED
  BY <1>3, <1>4

(* The front of the FIFO after an edge without a flush.                    *)
LEMMA FrontAfter ==
  ASSUME NEW kind, NEW finish, NEW rid, NEW ack, NEW f, NEW st, NEW granted, NEW stall,
         NEW st_ready, HeldInv, ~f,
         EdgeMoves(kind, finish, rid, ack, f, st, granted, stall, st_ready)
  PROVE  /\ Front'.valid => Front'.n = Last + 1 \/ (Front.valid /\ Front.n <= Front'.n)
         /\ Front.valid => Front.n \in Window
<1>1. Holding /\ Window \subseteq Nat
  BY DEF HeldInv, Program, Window, Last
<1>2. /\ FifoMoves(Popped(granted, stall, st, st_ready, rid))
      /\ fu_data'.valid => fu_data'.n = Last + 1
  BY DEF EdgeMoves, InstrMoves
<1>3. /\ Front.valid => Front.n \in Window /\ Front.n \in Nat
      /\ Behind.valid => Front.valid /\ Behind.n \in Nat /\ Front.n < Behind.n
  BY <1>1 DEF Holding, Pend
<1>4. PICK pop : pop = Popped(granted, stall, st, st_ready, rid)
  OBVIOUS
<1>5. FifoMoves(pop)
  BY <1>2, <1>4
<1>6. Front'.valid => \/ Front' = Front /\ Front.valid
                      \/ Front' = Behind /\ Behind.valid
                      \/ Front' = fu_data'
  BY <1>5 DEF FifoMoves
<1> QED
  BY <1>2, <1>3, <1>6

LEMMA PendingStep ==
  ASSUME NEW kind, NEW finish, NEW rid \in Responses, NEW ack, NEW f, NEW st, NEW granted,
         NEW stall, NEW st_ready, NEW c, NEW push, NEW amo_ack,
         HeldInv, HeldInv', OrderInv, CoreMoves(ack, f, c, push, amo_ack),
         EdgeMoves(kind, finish, rid, ack, f, st, granted, stall, st_ready),
         QueuesAfter(c, f, push)
  PROVE  StoresPending'
<1>1. CASE f
  <2>1. Pending' = <<>> /\ Window' = {} /\ ~Front'.valid /\ store_state' # "VALID_STORE"
    BY <1>1 DEF QueuesAfter, EdgeMoves, InstrMoves
  <2>2. DOMAIN Pending' = {}
    BY <2>1
  <2> QED
    BY <2>1, <2>2 DEF StoresPending, Increasing, Among
<1>2. CASE ~f
  <2>1. /\ Pending' \in Seq(Nat) /\ Increasing(Pending')
        /\ \A n : Among(n, Pending') <=> \/ Among(n, Pending) /\ ~(c /\ n = head)
                                         \/ push /\ n = store_req.n
    BY <1>2 DEF QueuesAfter
  <2>2. StoresPending /\ Holding /\ Window \subseteq Nat
    BY DEF OrderInv, HeldInv, Program, Window, Last
  <2>3. /\ c <=> ack /\ instr[head].kind = "STORE"
        /\ ack => head \in Window /\ Done(head)
        /\ push <=> store_state = "VALID_STORE" /\ ~is_amo(store_req)
        /\ store_state = "VALID_STORE" =>
             /\ store_req.n \in Window /\ ~Done(store_req.n)
             /\ instr[store_req.n].kind \in {"STORE", "AMO"}
             /\ is_amo(store_req) <=> instr[store_req.n].kind = "AMO"
    BY <1>2 DEF CoreMoves
  <2>4. ASSUME NEW n
        PROVE  Among(n, Pending') <=>
                 n \in Window' /\ instr'[n].kind = "STORE" /\ instr'[n].result # NotDone
    <3>1. (n \in Window' /\ instr'[n].kind = "STORE" /\ instr'[n].result # NotDone) <=>
            /\ n \in Window /\ Stays(n, ack) /\ instr[n].kind = "STORE"
            /\ Done(n) \/ (store_state = "VALID_STORE" /\ store_req.n = n)
      BY <1>2, DoneAfter
    <3>2. Among(n, Pending') <=> \/ Among(n, Pending) /\ ~(c /\ n = head)
                                 \/ push /\ n = store_req.n
      BY <2>1
    <3>3. Among(n, Pending) <=> n \in Window /\ instr[n].kind = "STORE" /\ Done(n)
      BY <2>2 DEF StoresPending
    <3> QED
      BY <2>3, <3>1, <3>2, <3>3 DEF Stays
  <2>5. ASSUME NEW k \in DOMAIN Pending'
        PROVE  /\ Pending'[k] \in Window
               /\ Front.valid => Pending'[k] < Front.n
    <3>1. Among(Pending'[k], Pending')
      BY DEF Among
    <3>2. \/ Among(Pending'[k], Pending)
          \/ store_state = "VALID_STORE" /\ Pending'[k] = store_req.n
      BY <2>1, <2>3, <3>1
    <3>3. CASE Among(Pending'[k], Pending)
      BY <2>2, <3>3 DEF StoresPending, Among
    <3>4. CASE store_state = "VALID_STORE" /\ Pending'[k] = store_req.n
      BY <2>2, <2>3, <3>4 DEF Holding
    <3> QED
      BY <3>2, <3>3, <3>4
  <2>6. Front'.valid => \A k \in DOMAIN Pending' : Pending'[k] < Front'.n
    <3> SUFFICES ASSUME Front'.valid, NEW k \in DOMAIN Pending' PROVE Pending'[k] < Front'.n
      OBVIOUS
    <3>1. /\ Front'.n = Last + 1 \/ (Front.valid /\ Front.n <= Front'.n)
          /\ Front.valid => Front.n \in Window
      BY <1>2, FrontAfter
    <3>2. /\ Pending'[k] \in Window /\ (Front.valid => Pending'[k] < Front.n)
          /\ \A n \in Window : n \in Nat /\ n <= Last
          /\ Last \in Nat /\ Front'.n \in Nat
      <4>1. Last \in Nat /\ \A n \in Window : n \in Nat /\ n <= Last
        BY DEF HeldInv, Program, Window, Last
      <4>2. Front' \in Requests'
        BY DEF Fifo, Front, lsu_ctrl_o, HeldInv
      <4> QED
        BY <2>5, <4>1, <4>2 DEF Requests
    <3> QED
      BY <3>1, <3>2
  <2>7. store_state' = "VALID_STORE" => \A k \in DOMAIN Pending' : Pending'[k] < store_req'.n
    <3>1. store_state' = "VALID_STORE" => StValid /\ store_req' = Front
      BY DEF EdgeMoves
    <3> QED
      BY <2>5, <3>1 DEF StValid
  <2> QED
    BY <2>1, <2>4, <2>6, <2>7 DEF StoresPending, Done
<1> QED
  BY <1>1, <1>2


(* A request the store unit takes finds room: the buffers said so in the   *)
(* cycle before, for what they hold after it.                              *)
LEMMA RoomStep ==
  ASSUME NEW kind, NEW a, NEW finish, NEW wbuffer_empty, NEW not_ni, NEW amo_ack, NEW st_gnt,
         NEW ld_gnt, NEW rid, NEW ack, NEW f, NEW valid, NEW st, NEW matches, NEW granted,
         NEW stall, NEW push, NEW st_ready, NEW c,
         HeldInv, OrderInv, CoreMoves(ack, f, c, push, amo_ack), SBP!Legal(push, c, f),
         Signals(wbuffer_empty, not_ni, amo_ack, ld_gnt, rid, ack, f, valid, st, matches,
                 granted, stall, push, st_ready),
         Wires(kind, a, finish, not_ni, amo_ack, st_gnt, rid, ack, f, valid, st, matches,
               granted, stall, push, st_ready),
         EdgeMoves(kind, finish, rid, ack, f, st, granted, stall, st_ready)
  PROVE  RoomForRequest'
<1> SUFFICES ASSUME store_state' = "VALID_STORE"
             PROVE  IF is_amo(store_req)' THEN amo_buffer' = 0
                    ELSE speculative_status_cnt' < DEPTH_SPEC
  BY DEF RoomForRequest
<1>1. /\ ~f /\ pop_st_o(st, Front, st_ready, ex_q) /\ store_req' = Front
  BY DEF EdgeMoves
<1>2. store_accepts(st, Front) /\ st_ready
  BY <1>1 DEF pop_st_o, store_exception, HeldInv, StoreMachine
<1>3. SB!ready_o(push, commit_lsu, f) /\ (amo_buffer_ready \/ ~RVA)
  BY <1>2 DEF Signals
<1>4. Fixed /\ SB!Clock(push, store_req.n, commit_lsu, f, FALSE, st_gnt)
  BY DEF Wires
<1>5. is_amo(store_req)' <=> is_amo(Front)
  BY <1>1, <1>4, Unchanged DEF is_amo
<1>6. CASE is_amo(Front)
  <2>1. store_state # "VALID_STORE" /\ amo_buffer = 0
    BY <1>2, <1>3, <1>6 DEF store_accepts, amo_buffer_ready, is_amo
  <2>2. amo_buffer' = 0
    BY <1>1, <2>1 DEF CoreMoves
  <2> QED
    BY <1>5, <1>6, <2>2
<1>7. CASE ~is_amo(Front)
  <2>1. speculative_status_cnt' = SB!SpeculativeCount(push, commit_lsu, FALSE)
    BY <1>1, <1>4 DEF SB!Clock, SB!CoreInterface, Signals
  <2>2. SB!SpeculativeCount(push, commit_lsu, FALSE) < DEPTH_SPEC \/ commit_lsu
    BY <1>1, <1>3 DEF SB!ready_o, Signals
  <2>3. /\ commit_lsu => speculative_status_cnt # 0
        /\ push => speculative_status_cnt # DEPTH_SPEC
        /\ speculative_status_cnt \in 0 .. DEPTH_SPEC /\ DEPTH_SPEC \in Nat \ {0, 1}
    BY QueueBounds DEF SBP!Legal, CoreMoves, OrderInv
  <2>4. commit_lsu => SB!SpeculativeCount(push, commit_lsu, FALSE) < DEPTH_SPEC
    BY <2>3 DEF SB!SpeculativeCount, SB!Wrap, SB!Bit
  <2> QED
    BY <1>5, <1>7, <2>1, <2>2, <2>4
<1> QED
  BY <1>6, <1>7

LEMMA CommittedStep ==
  ASSUME NEW ack, NEW f, NEW c, NEW push, NEW amo_ack, HeldInv, OrderInv,
         CoreMoves(ack, f, c, push, amo_ack), QueuesAfter(c, f, push)
  PROVE  StoresCommitted'
<1>1. /\ written \o Retired = committed
      /\ \A k \in DOMAIN committed : committed[k] \in 1 .. head - 1
      /\ written \in Seq(Nat) /\ Retired \in Seq(Nat)
  BY QueueBounds DEF OrderInv, StoresCommitted
<1>2. head \in Nat \ {0} /\ head <= Last + 1 /\ Last \in Nat
  BY DEF HeldInv, Program, Last
<1>3. committed \in Seq(Nat)
  <2>1. PICK w \in Seq(Nat), r \in Seq(Nat) : w = written /\ r = Retired
    BY <1>1
  <2>2. w \o r \in Seq(Nat)
    OBVIOUS
  <2> QED
    BY <1>1, <2>1, <2>2
<1>4. /\ committed' = Pushing(committed, c, head)
      /\ written' \o Retired' = Pushing(written \o Retired, c, head)
      /\ head' = IF f THEN Last + 1 ELSE IF ack THEN head + 1 ELSE head
      /\ c => ack /\ ~f
  BY DEF CoreMoves, QueuesAfter
<1>5. head' \in Nat /\ head <= head' /\ (c => head' = head + 1)
  BY <1>2, <1>4
<1>6. PICK t : t = committed'
  OBVIOUS
<1>7. \A k \in DOMAIN t : (k \in DOMAIN committed /\ t[k] = committed[k]) \/ (c /\ t[k] = head)
  <2>1. PICK s \in Seq(Nat), x \in Nat : s = committed /\ x = head
    BY <1>2, <1>3
  <2>2. t = Pushing(s, c, x)
    BY <1>4, <1>6, <2>1
  <2>3. \A k \in DOMAIN t : (k \in DOMAIN s /\ t[k] = s[k]) \/ (c /\ k = Len(t) /\ t[k] = x)
    BY ONLY s \in Seq(Nat), x \in Nat, <2>2, PushFacts
  <2> QED
    BY <2>1, <2>3
<1>8. ASSUME NEW k \in DOMAIN t PROVE t[k] \in 1 .. head' - 1
  <2>1. CASE k \in DOMAIN committed /\ t[k] = committed[k]
    BY <1>1, <1>2, <1>5, <2>1
  <2>2. CASE c /\ t[k] = head
    BY <1>2, <1>5, <2>2
  <2> QED
    BY <1>7, <2>1, <2>2
<1>9. written' \o Retired' = committed'
  BY <1>1, <1>4
<1> QED
  BY <1>6, <1>8, <1>9 DEF StoresCommitted

LEMMA AtomicStep ==
  ASSUME NEW kind, NEW finish, NEW rid \in Responses, NEW ack, NEW f, NEW st, NEW granted,
         NEW stall, NEW st_ready, NEW c, NEW push, NEW amo_ack,
         HeldInv, OrderInv, CoreMoves(ack, f, c, push, amo_ack),
         EdgeMoves(kind, finish, rid, ack, f, st, granted, stall, st_ready)
  PROVE  AtomicBuffered'
<1>1. /\ Last \in Nat /\ Last' \in {Last, Last + 1}
      /\ \A n \in Window : n \in 1 .. Last
  BY DEF HeldInv, Program, Window, Last, EdgeMoves
<1>2. amo_buffer \in 0 .. Last /\ RoomForRequest
  BY DEF OrderInv, AtomicBuffered
<1>3. CASE f
  <2>1. amo_buffer' = 0 /\ Window' = {}
    BY <1>3 DEF CoreMoves, EdgeMoves, InstrMoves
  <2> QED
    BY <1>1, <2>1 DEF AtomicBuffered
<1>4. CASE ~f
  <2>1. /\ amo_buffer' = IF store_state = "VALID_STORE" /\ is_amo(store_req) /\ amo_buffer = 0
                         THEN store_req.n ELSE amo_buffer
        /\ store_state = "VALID_STORE" =>
             store_req.n \in Window /\ (is_amo(store_req) <=> instr[store_req.n].kind = "AMO")
    BY <1>4 DEF CoreMoves
  <2>2. ASSUME NEW n \in Window', instr'[n].kind = "AMO", instr'[n].result # NotDone
        PROVE  amo_buffer' = n
    <3>1. /\ n \in Window /\ instr[n].kind = "AMO"
          /\ Done(n) \/ (store_state = "VALID_STORE" /\ store_req.n = n)
      BY <1>4, <2>2, DoneAfter
    <3>2. CASE Done(n)
      <4>1. amo_buffer = n /\ n # 0
        BY <1>1, <3>1, <3>2 DEF OrderInv, AtomicBuffered
      <4> QED
        BY <2>1, <4>1
    <3>3. CASE store_state = "VALID_STORE" /\ store_req.n = n
      BY <1>2, <2>1, <3>1, <3>3 DEF RoomForRequest
    <3> QED
      BY <3>1, <3>2, <3>3
  <2>3. amo_buffer' \in 0 .. Last'
    BY <1>1, <1>2, <2>1
  <2> QED
    BY <2>2, <2>3 DEF AtomicBuffered, Done
<1> QED
  BY <1>3, <1>4


-----------------------------------------------------------------------------
(* A store that has committed is in the commit queue or written.           *)
LEMMA WrittenOrRetired ==
  ASSUME OrderInv, NEW m, m \in {committed[k] : k \in DOMAIN committed}
  PROVE  m \in Written \/ Among(m, Retired)
<1>1. PICK w \in Seq(Nat), r \in Seq(Nat) : w = written /\ r = Retired /\ w \o r = committed
  BY QueueBounds DEF OrderInv, StoresCommitted
<1>2. PICK k \in DOMAIN (w \o r) : (w \o r)[k] = m
  BY <1>1
<1>3. CASE k <= Len(w)
  <2>1. k \in DOMAIN w /\ w[k] = m
    BY <1>2, <1>3
  <2> QED
    BY <1>1, <2>1 DEF Written
<1>4. CASE ~(k <= Len(w))
  <2>1. k - Len(w) \in DOMAIN r /\ r[k - Len(w)] = m
    BY <1>2, <1>4
  <2> QED
    BY <1>1, <2>1 DEF Among
<1> QED
  BY <1>3, <1>4

(* What the address checker sees of a load at the front is enough: an      *)
(* older store that is not written is in one of the two queues or in the   *)
(* store unit, for the FIFO is in order.                                   *)
LEMMA ClearFront ==
  ASSUME HeldInv, OrderInv, LdValid, ~page_offset_matches(Front.addr)
  PROVE  Clear(Front.n, Front.addr)
<1> SUFFICES ASSUME NEW m \in OlderStores(Front.n), instr[m].addr = Front.addr
             PROVE  m \in Written
  BY DEF Clear
<1>1. /\ \A q \in {commit_queue, speculative_queue} : \A i \in DOMAIN q :
           q[i].valid => instr[q[i].store].addr # Front.addr
      /\ store_state = "VALID_STORE" => store_req.addr # Front.addr
  BY DEF page_offset_matches, st_valid_without_flush
<1>2. SBP!IInv /\ StoresPending /\ Holding /\ Program /\ LoadBuffer
  BY DEF OrderInv, HeldInv
<1>3. CASE m \in {committed[k] : k \in DOMAIN committed}
  <2>1. ~Among(m, Retired)
    BY <1>1, <1>2, QueueBounds
  <2> QED
    BY <1>3, <2>1, WrittenOrRetired
<1>4. CASE m >= head /\ instr[m].kind = "STORE"
  <2>1. Front.n \in Window /\ m \in 1 .. Front.n - 1
    BY <1>2 DEF Holding, Pend, LdValid, OlderStores
  <2>2. m \in Window /\ m < Front.n
    BY <1>2, <1>4, <2>1 DEF Window, Program, Last
  <2>3. CASE Done(m)
    <3>1. Among(m, Pending)
      BY <1>2, <1>4, <2>2, <2>3 DEF StoresPending
    <3> QED
      BY <1>1, <1>2, <3>1, QueueBounds
  <2>4. CASE ~Done(m)
    <3>1. Held(m)
      BY <1>2, <1>4, <2>2, <2>4 DEF Holding, Done, MemKinds, StoreKinds
    <3>2. ~(Front.valid /\ Front.n = m)
      BY <2>1, <2>2
    <3>3. ~(Behind.valid /\ Behind.n = m)
      BY <1>2, <2>1, <2>2 DEF Holding, Pend, Window, Program, Last
    <3>4. ~(store_state = "VALID_STORE" /\ store_req.n = m)
      BY <1>1, <1>2 DEF Holding, Pend
    <3>5. \A i \in LoadIds : ~(Live(i) /\ ldbuf[i].n = m)
      BY <1>2, <1>4 DEF Holding, PendLoad, LoadKinds
    <3> QED
      BY <3>1, <3>2, <3>3, <3>4, <3>5 DEF Held
  <2> QED
    BY <2>3, <2>4
<1> QED
  BY <1>3, <1>4 DEF OlderStores

(* No store older than a load is ever added to those it must follow.       *)
LEMMA ClearStays ==
  ASSUME NEW kind, NEW finish, NEW rid, NEW ack, NEW f, NEW st, NEW granted, NEW stall,
         NEW st_ready, NEW c, NEW push, NEW amo_ack, NEW n \in Nat, NEW a, n <= Last,
         HeldInv, OrderInv, CoreMoves(ack, f, c, push, amo_ack), QueuesAfter(c, f, push),
         EdgeMoves(kind, finish, rid, ack, f, st, granted, stall, st_ready), Clear(n, a)
  PROVE  Clear(n, a)'
<1> SUFFICES ASSUME NEW m \in OlderStores(n)', instr'[m].addr = a PROVE m \in Written'
  BY DEF Clear
<1>1. /\ Last \in Nat /\ head \in Nat /\ head <= Last + 1
      /\ Window = head .. Last /\ Window' = head' .. Last'
      /\ Last' \in {Last, Last + 1}
  BY DEF HeldInv, Program, Window, Last, EdgeMoves
<1>2. /\ InstrMoves(ack, f, kind, Writebacks(finish, rid))
      /\ \A k \in 1 .. Last : ~(k \in Window /\ Stays(k, ack)) => instr'[k] = instr[k]
      /\ ack => head \in Window
  BY DEF EdgeMoves
<1>3. /\ head' = IF f THEN Last + 1 ELSE IF ack THEN head + 1 ELSE head
      /\ committed' = Pushing(committed, c, head)
      /\ c <=> ack /\ instr[head].kind = "STORE"
      /\ c => ~f
  BY DEF CoreMoves
<1>4. m \in 1 .. n - 1 /\ m \in 1 .. Last
  BY <1>1 DEF OlderStores
<1>5. m \in OlderStores(n) /\ instr'[m].addr = instr[m].addr
  <2>1. CASE m \in {committed'[k] : k \in DOMAIN committed'}
    <3>1. m \in {committed[k] : k \in DOMAIN committed} \/ (c /\ m = head)
      <4>1. committed \in Seq(Nat)
        <5>1. PICK w \in Seq(Nat), r \in Seq(Nat) : w = written /\ r = Retired /\ w \o r = committed
          BY QueueBounds DEF OrderInv, StoresCommitted
        <5>2. w \o r \in Seq(Nat)
          OBVIOUS
        <5> QED
          BY <5>1, <5>2
      <4>2. PICK s \in Seq(Nat), x \in Nat : s = committed /\ x = head
        BY <1>1, <4>1
      <4>3. PICK t : t = committed'
        OBVIOUS
      <4>4. t = Pushing(s, c, x)
        BY <1>3, <4>2, <4>3
      <4>5. \A k \in DOMAIN t : (k \in DOMAIN s /\ t[k] = s[k]) \/ (c /\ k = Len(t) /\ t[k] = x)
        BY ONLY s \in Seq(Nat), x \in Nat, <4>4, PushFacts
      <4> QED
        BY <2>1, <4>2, <4>3, <4>5
    <3>2. ~(m \in Window /\ Stays(m, ack))
      <4>1. m \in {committed[k] : k \in DOMAIN committed} => m < head
        BY <1>1 DEF OrderInv, StoresCommitted
      <4> QED
        BY <1>1, <1>3, <3>1, <4>1 DEF Stays
    <3>3. instr'[m] = instr[m]
      BY <1>2, <1>4, <3>2
    <3>4. m \in OlderStores(n)
      <4>1. c /\ m = head => m >= head /\ instr[m].kind = "STORE"
        BY <1>1, <1>3
      <4> QED
        BY <1>4, <3>1, <4>1 DEF OlderStores
    <3> QED
      BY <3>3, <3>4
  <2>2. CASE m >= head' /\ instr'[m].kind = "STORE"
    <3>1. ~f /\ m \in Window'
      BY <1>1, <1>3, <1>4, <2>2
    <3>2. m \in Window /\ Stays(m, ack)
      BY <1>1, <1>2, <1>4, <3>1 DEF InstrMoves
    <3>3. instr'[m].kind = instr[m].kind /\ instr'[m].addr = instr[m].addr
      BY <1>2, <3>1, <3>2 DEF InstrMoves
    <3> QED
      BY <1>1, <1>4, <2>2, <3>2, <3>3 DEF OlderStores
  <2> QED
    BY <2>1, <2>2 DEF OlderStores
<1>6. m \in Written
  BY <1>5 DEF Clear
<1>7. Among(m, written')
  BY <1>6 DEF QueuesAfter, Among, Written
<1> QED
  BY <1>7 DEF Among, Written


(* What a load needs to be sent: it was cleared before, or the checker     *)
(* clears it now.                                                          *)
LEMMA ClearedBefore ==
  ASSUME NEW kind, NEW a, NEW finish, NEW wbuffer_empty, NEW not_ni, NEW amo_ack, NEW st_gnt,
         NEW ld_gnt, NEW rid, NEW ack, NEW f, NEW valid, NEW st, NEW matches, NEW granted,
         NEW stall, NEW push, NEW st_ready, HeldInv,
         Signals(wbuffer_empty, not_ni, amo_ack, ld_gnt, rid, ack, f, valid, st, matches,
                 granted, stall, push, st_ready),
         Wires(kind, a, finish, not_ni, amo_ack, st_gnt, rid, ack, f, valid, st, matches,
               granted, stall, push, st_ready),
         granted \/ load_state' \in Cleared
  PROVE  load_state \in Cleared \/ ~page_offset_matches(Front.addr)
<1>1. /\ granted => data_req_o(valid, matches, rid)
      /\ matches = page_offset_matches(Front.addr)
  BY DEF Signals
<1>2. load_state' = NextLoadState(valid, matches, granted, stall, not_ni, ex_q, f, rid)
  BY DEF Wires, LoadUnitClock
<1>3. load_state \in LoadStates
  BY DEF HeldInv, LoadBuffer, LoadTypes
<1>4. CASE granted
  BY <1>1, <1>4 DEF data_req_o, Cleared
<1>5. CASE ~granted
  <2>1. PICK accepts \in BOOLEAN : accepts <=> accept_req(valid, rid)
    OBVIOUS
  <2>2. LoadStateMoves(accepts, matches, granted, stall, not_ni, ex_q, f)
    BY ONLY <1>1, <1>2, <1>3, <2>1, LoadMachine
  <2> QED
    BY <1>1, <1>3, <1>5, <2>2 DEF LoadStateMoves, Cleared, LoadStates
<1> QED
  BY <1>4, <1>5

LEMMA LoadsClearStep ==
  ASSUME NEW kind, NEW a, NEW finish, NEW wbuffer_empty, NEW not_ni, NEW amo_ack, NEW st_gnt,
         NEW ld_gnt, NEW rid, NEW ack, NEW f, NEW valid, NEW st, NEW matches, NEW granted,
         NEW stall, NEW push, NEW st_ready, NEW c,
         HeldInv, OrderInv, CoreMoves(ack, f, c, push, amo_ack), QueuesAfter(c, f, push),
         Signals(wbuffer_empty, not_ni, amo_ack, ld_gnt, rid, ack, f, valid, st, matches,
                 granted, stall, push, st_ready),
         Wires(kind, a, finish, not_ni, amo_ack, st_gnt, rid, ack, f, valid, st, matches,
               granted, stall, push, st_ready),
         EdgeMoves(kind, finish, rid, ack, f, st, granted, stall, st_ready)
  PROVE  LoadsClear'
<1>1. /\ Holding /\ LoadTypes /\ LoadsClear /\ Program /\ LoadWaits
      /\ \A i \in LoadIds : ldbuf[i].n \in Nat /\ ldbuf[i].n <= Last
  BY DEF HeldInv, OrderInv, LoadBuffer, LoadTypes, LoadEntries
<1>2. LdValid => Front.n \in Nat /\ Front.n <= Last
  BY <1>1 DEF LdValid, Holding, Pend, Window, Program, Last
<1>3. LoadEdge(granted, stall, f, rid) /\ LoadIds' = LoadIds
  BY DEF EdgeMoves, Wires, Fixed, LoadIds, NrLoadBufEntries
<1>4. LdValid /\ (granted \/ load_state' \in Cleared) => Clear(Front.n, Front.addr)
  <2> SUFFICES ASSUME LdValid, granted \/ load_state' \in Cleared
               PROVE  Clear(Front.n, Front.addr)
    OBVIOUS
  <2>1. load_state \in Cleared \/ ~page_offset_matches(Front.addr)
    BY ClearedBefore
  <2> QED
    BY <1>1, <2>1, ClearFront DEF LoadsClear
<1>5. ASSUME NEW n \in Nat, NEW b, n <= Last, Clear(n, b) PROVE Clear(n, b)'
  BY <1>5, ClearStays
<1>6. ASSUME NEW i \in LoadIds, Live(i)' PROVE Clear(ldbuf[i].n, ldbuf[i].addr)'
  <2>1. ~f /\ LoadMoves(granted, stall, rid)
    BY <1>3, <1>6 DEF LoadEdge
  <2>2. PICK n, b : n = ldbuf'[i].n /\ b = ldbuf'[i].addr
    OBVIOUS
  <2>3. n \in Nat /\ n <= Last /\ Clear(n, b)
    <3>1. CASE Sends(granted, stall, i, rid)
      <4>1. granted /\ LdValid
        BY <1>3, <3>1 DEF LoadEdge, Sends
      <4>2. n = Front.n /\ b = Front.addr
        BY <2>1, <2>2, <3>1 DEF LoadMoves
      <4> QED
        BY <1>2, <1>4, <4>1, <4>2
    <3>2. CASE ~Sends(granted, stall, i, rid)
      <4>1. Live(i) /\ n = ldbuf[i].n /\ b = ldbuf[i].addr
        BY <1>6, <2>1, <2>2, <3>2 DEF LoadMoves
      <4> QED
        BY <1>1, <4>1 DEF LoadsClear
    <3> QED
      BY <3>1, <3>2
  <2>4. Clear(n, b)'
    BY <1>5, <2>3
  <2> QED
    BY <2>2, <2>4 DEF Clear, OlderStores
<1>7. ASSUME load_state' \in Cleared PROVE Clear(Front.n, Front.addr)'
  <2>1. LdValid /\ ~f /\ ~pop_ld_o(granted, stall, ex_q, rid)
    BY <1>3, <1>7 DEF LoadEdge, Cleared, Retrying
  <2>2. ~Popped(granted, stall, st, st_ready, rid)
    <3>1. ~pop_st_o(st, Front, st_ready, ex_q)
      BY <2>1 DEF EdgeMoves, StValid, LdValid
    <3> QED
      BY <2>1, <3>1 DEF Popped, pop_ld_o, Faults
  <2>3. Front' = Front
    <3>1. PICK pop : pop = Popped(granted, stall, st, st_ready, rid)
      OBVIOUS
    <3>2. FifoMoves(pop) /\ ~pop
      BY <2>1, <2>2, <3>1 DEF EdgeMoves
    <3> QED
      BY <2>1, <3>2 DEF FifoMoves, LdValid
  <2>4. PICK n, b : n = Front.n /\ b = Front.addr
    OBVIOUS
  <2>5. n \in Nat /\ n <= Last /\ Clear(n, b)
    BY <1>2, <1>4, <1>7, <2>1, <2>4
  <2>6. Clear(n, b)'
    BY <1>5, <2>5
  <2> QED
    BY <2>3, <2>4, <2>6 DEF Clear, OlderStores
<1> QED
  BY <1>3, <1>6, <1>7 DEF LoadsClear, Cleared


(* A load of a device that leaves for the cache without being killed left  *)
(* at the commit port; nothing commits and nothing is flushed until it is  *)
(* answered.                                                               *)
LEMMA DeviceStep ==
  ASSUME NEW kind, NEW a, NEW finish, NEW wbuffer_empty, NEW not_ni, NEW amo_ack, NEW st_gnt,
         NEW ld_gnt, NEW rid, NEW ack, NEW f, NEW valid, NEW st, NEW matches, NEW granted,
         NEW stall, NEW push, NEW st_ready, NEW c,
         HeldInv, OrderInv, SBP!IInv', CoreMoves(ack, f, c, push, amo_ack), QueuesAfter(c, f, push),
         Signals(wbuffer_empty, not_ni, amo_ack, ld_gnt, rid, ack, f, valid, st, matches,
                 granted, stall, push, st_ready),
         Wires(kind, a, finish, not_ni, amo_ack, st_gnt, rid, ack, f, valid, st, matches,
               granted, stall, push, st_ready),
         EdgeMoves(kind, finish, rid, ack, f, st, granted, stall, st_ready)
  PROVE  DeviceLoads'
<1>1. /\ Holding /\ LoadTypes /\ Program /\ Fifo /\ Elaborated /\ LoadBuffer
      /\ DeviceLoads /\ SBP!IInv
  BY DEF HeldInv, OrderInv, LoadBuffer, Program
<1>2. /\ Fixed /\ rid \in Responses
      /\ ldbuf' = NextLdbuf(granted, Front, f, rid)
      /\ tag_phase' = granted
      /\ LoadIds' = LoadIds /\ NonIdempotent' = NonIdempotent
  BY DEF Wires, LoadUnitClock, Fixed, LoadIds, NrLoadBufEntries, NonIdempotent
<1>3. /\ granted \in BOOLEAN /\ f \in BOOLEAN /\ Front \in Requests
      /\ stall = stall_ni(Front, Tid(head), not_ni, SB!store_buffer_empty_o)
  BY <1>1 DEF Signals, Fifo, Front, lsu_ctrl_o
<1>4. /\ granted => LdValid /\ ldbuf_last_id' = ldbuf_windex(rid)
      /\ f <=> load_state' = "WAIT_FLUSH"
  BY DEF EdgeMoves, LoadEdge
<1>5. /\ f => ack \/ exception
      /\ ack => head \in Window /\ Done(head)
      /\ exception => head \in Window /\ Done(head)
      /\ c => ack
      /\ head' = IF f THEN Last + 1 ELSE IF ack THEN head + 1 ELSE head
  BY DEF CoreMoves
<1>6. ASSUME head \in Window, ~Done(head), commit_status_cnt = 0
      PROVE  ~f /\ head' = head /\ commit_status_cnt' = 0
  <2>1. ~f /\ ~ack /\ ~exception /\ ~c /\ head' = head
    BY <1>5, <1>6
  <2>2. Retired = <<>>
    <3>1. Retired \in Seq(Nat) /\ Len(Retired) = 0
      BY <1>1, <1>6, QueueBounds
    <3> QED
      BY <3>1
  <2>3. Retired' = <<>>
    BY <2>1, <2>2 DEF QueuesAfter
  <2> QED
    BY <2>1, <2>3, RetiredCount DEF RetiredCounted
<1> SUFFICES ASSUME NEW i \in LoadIds, ldbuf'[i].valid, ldbuf'[i].addr \in NonIdempotent,
                    ~Killed(i)'
             PROVE  ~ldbuf'[i].flushed /\ ldbuf'[i].n = head' /\ commit_status_cnt' = 0
  BY <1>2 DEF DeviceLoads
<1>7. /\ granted /\ i = ldbuf_windex(rid) =>
           /\ ldbuf'[i].valid /\ ~ldbuf'[i].flushed
           /\ ldbuf'[i].n = Front.n /\ ldbuf'[i].tid = Front.tid /\ ldbuf'[i].addr = Front.addr
      /\ ~(granted /\ i = ldbuf_windex(rid)) /\ i = rid => ~ldbuf'[i].valid
      /\ ~(granted /\ i = ldbuf_windex(rid)) /\ i # rid =>
           /\ ldbuf'[i].valid <=> ldbuf[i].valid
           /\ ldbuf'[i].flushed <=> ldbuf[i].valid /\ (ldbuf[i].flushed \/ f)
           /\ ldbuf'[i].n = ldbuf[i].n /\ ldbuf'[i].addr = ldbuf[i].addr
  BY ONLY <1>1, <1>2, <1>3, i \in LoadIds, LdbufStep
<1>8. CASE granted /\ i = ldbuf_windex(rid)
  <2>1. load_state' \notin {"ABORT_TRANSACTION_NI", "WAIT_FLUSH"}
    BY <1>2, <1>4, <1>8 DEF Killed
  <2>2. ~f /\ ~stall
    <3>1. ~f
      BY <1>4, <2>1
    <3>2. load_state' = NextLoadState(valid, matches, granted, stall, not_ni, ex_q, f, rid)
      BY DEF Wires, LoadUnitClock
    <3>3. PICK accepts \in BOOLEAN : accepts <=> accept_req(valid, rid)
      OBVIOUS
    <3>4. (granted => data_req_o(valid, matches, rid)) /\ load_state \in LoadStates
      BY <1>1 DEF Signals, LoadTypes
    <3>5. LoadStateMoves(accepts, matches, granted, stall, not_ni, ex_q, f)
      BY ONLY <3>2, <3>3, <3>4, LoadMachine
    <3> QED
      BY <1>8, <2>1, <3>1, <3>5 DEF LoadStateMoves
  <2>3. Front.addr \in NonIdempotent /\ LdValid
    BY <1>4, <1>7, <1>8
  <2>4. SB!store_buffer_empty_o /\ Tid(head) = Front.tid
    BY <1>3, <2>2, <2>3 DEF stall_ni
  <2>5. Front.n \in Window /\ Front.tid = Tid(Front.n) /\ instr[Front.n].result = NotDone
    BY <1>1, <2>3 DEF Holding, Pend, LdValid
  <2>6. head \in Window
    BY <1>1, <2>5 DEF Program, Window, Last
  <2>7. Front.n = head
    BY <1>1, <2>4, <2>5, <2>6, TidInjective
  <2>8. commit_status_cnt = 0
    BY <2>4 DEF SB!store_buffer_empty_o, SB!no_st_pending_o
  <2> QED
    BY <1>6, <1>7, <1>8, <2>5, <2>6, <2>7, <2>8 DEF Done
<1>9. CASE ~(granted /\ i = ldbuf_windex(rid))
  <2>1. i # rid
    BY <1>7, <1>9
  <2>2. ldbuf[i].valid /\ ldbuf[i].addr \in NonIdempotent
    BY <1>7, <1>9, <2>1
  <2>3. ~Killed(i)
    <3>1. Killed(i) => tag_phase /\ kill_req_o(ex_q) /\ i = ldbuf_last_id
      BY DEF Killed, kill_req_o
    <3> QED
      BY <1>1, <1>2, <2>1, <3>1, ResponseFacts
  <2>4. ~ldbuf[i].flushed /\ ldbuf[i].n = head /\ commit_status_cnt = 0
    BY <1>1, <2>2, <2>3 DEF DeviceLoads
  <2>5. head \in Window /\ ~Done(head)
    BY <1>1, <2>2, <2>3, <2>4 DEF Holding, PendLoad, Live, Done
  <2> QED
    BY <1>6, <1>7, <1>9, <2>1, <2>4, <2>5
<1> QED
  BY <1>8, <1>9


-----------------------------------------------------------------------------
(* One edge, all together.                                                 *)
LEMMA NothingRetired ==
  ASSUME OrderInv, commit_status_cnt = 0
  PROVE  written = committed /\ Retired = <<>>
<1>1. PICK w \in Seq(Nat), r \in Seq(Nat) : w = written /\ r = Retired /\ w \o r = committed
  BY QueueBounds DEF OrderInv, StoresCommitted
<1>2. Len(r) = 0
  BY <1>1, QueueBounds DEF OrderInv
<1>3. r = <<>> /\ w \o r = w
  BY <1>2
<1> QED
  BY <1>1, <1>3

LEMMA Bounds ==
  ASSUME HeldInv, OrderInv
  PROVE  /\ Last \in Nat /\ Last <= MaxInstr /\ MaxInstr \in 0 .. LongestRun /\ LongestRun \in Nat
         /\ \A n \in Window : n \in 1 .. LongestRun
<1>1. /\ Last \in Nat /\ head \in Nat \ {0} /\ config \in Configs /\ Last <= MaxInstr
  BY DEF HeldInv, Program, Last, Elaborated, OrderInv
<1>2. MaxInstr \in 0 .. LongestRun /\ LongestRun \in Nat
  BY <1>1, BoundAssumption DEF MaxInstr
<1> QED
  BY <1>1, <1>2 DEF Window

LEMMA Same ==
  /\ SB!Pending = Pending /\ SB!Retired = Retired
  /\ SB!Pending' = Pending' /\ SB!Retired' = Retired'
BY DEF SB!Pending, SB!Retired, SB!Contents, SB!Slot, SBP!Pending, SBP!Retired, SBP!Contents,
   SBP!Slot, Pending, Retired

Drained ==
  /\ head_valid /\ ~exception /\ head' > head
  /\ instr[head].kind \in {"FENCE", "AMO"}
  => /\ written = committed
     /\ instr[head].kind = "AMO" => amo_buffer = head

LEMMA DrainedStep ==
  ASSUME NEW wbuffer_empty, NEW not_ni, NEW amo_ack, NEW ld_gnt, NEW rid, NEW ack, NEW f,
         NEW valid, NEW st, NEW matches, NEW granted, NEW stall, NEW push, NEW st_ready, NEW c,
         HeldInv, OrderInv, CoreMoves(ack, f, c, push, amo_ack), amo_ack \in AmoAcks,
         Signals(wbuffer_empty, not_ni, amo_ack, ld_gnt, rid, ack, f, valid, st, matches,
                 granted, stall, push, st_ready)
  PROVE  Drained
<1> SUFFICES ASSUME head_valid, ~exception, head' > head, instr[head].kind \in {"FENCE", "AMO"}
             PROVE  written = committed /\ (instr[head].kind = "AMO" => amo_buffer = head)
  BY DEF Drained
<1>1. ack
  <2>1. head' = IF f THEN Last + 1 ELSE IF ack THEN head + 1 ELSE head
    BY DEF CoreMoves
  <2>2. head \in Nat
    BY DEF HeldInv, Program
  <2> QED
    BY <2>1, <2>2 DEF CoreMoves
<1>2. head \in Window /\ Done(head) /\ commit_ack(wbuffer_empty, amo_ack)
  BY <1>1 DEF CoreMoves, Signals
<1>3. commit_status_cnt = 0
  <2>1. CASE instr[head].kind = "FENCE"
    BY <1>2, <2>1 DEF commit_ack, SB!no_st_pending_o
  <2>2. CASE instr[head].kind = "AMO"
    <3>1. amo_ack
      BY <1>2, <2>2 DEF commit_ack
    <3> QED
      BY <3>1 DEF AmoAcks, amo_req_o, SB!no_st_pending_o
  <2> QED
    BY <2>1, <2>2
<1>4. instr[head].kind = "AMO" => amo_buffer = head
  BY <1>2 DEF OrderInv, AtomicBuffered
<1> QED
  BY <1>3, <1>4, NothingRetired

LEMMA OrderEdge ==
  ASSUME NEW kind \in Kinds \cup {"NONE"}, NEW a \in Addrs, NEW finish \in SUBSET Finishing,
         NEW wbuffer_empty, NEW not_ni, NEW amo_ack \in AmoAcks, NEW wake, NEW st_gnt \in BOOLEAN,
         NEW ld_gnt, NEW rid, Orderly, HeldInv, OrderInv,
         Edge(kind, a, finish, wbuffer_empty, not_ni, amo_ack, wake, st_gnt, ld_gnt, rid)
  PROVE  HeldInv' /\ OrderInv' /\ SB!Order!Next /\ Drained
<1>1. PICK ack, f, valid, st, matches, granted, stall, push, st_ready :
        /\ Signals(wbuffer_empty, not_ni, amo_ack, ld_gnt, rid, ack, f, valid, st, matches,
                   granted, stall, push, st_ready)
        /\ Wires(kind, a, finish, not_ni, amo_ack, st_gnt, rid, ack, f, valid, st, matches,
                 granted, stall, push, st_ready)
  BY EdgeSignals
<1>2. HeldInv' /\ EdgeMoves(kind, finish, rid, ack, f, st, granted, stall, st_ready)
  BY <1>1, HeldEdge DEF Orderly
<1>3. PICK c \in BOOLEAN : c = commit_lsu
  BY DEF commit_lsu
<1>4. CoreMoves(ack, f, c, push, amo_ack)
  BY <1>1, <1>3, CoreStep
<1>5. PICK drain \in BOOLEAN : Drains(drain, st_gnt)
  BY DEF Drains
<1>6. SBP!IInv' /\ SBP!Legal(push, c, f) /\ SBP!QueueMoves(push, store_req.n, c, f, drain)
  <2>1. Program' /\ SB!Clock(push, store_req.n, commit_lsu, f, FALSE, st_gnt)
    BY <1>1, <1>2 DEF Wires, HeldInv
  <2> QED
    BY ONLY HeldInv, OrderInv, <1>4, <1>5, <2>1, BufferStep
<1>7. QueuesAfter(c, f, push)
  BY ONLY HeldInv, OrderInv, <1>4, <1>6, QueuesStep, drain \in BOOLEAN
<1>8. rid \in Responses /\ Fixed
  BY <1>1 DEF Wires
<1>9. StoresPending'
  BY ONLY HeldInv, OrderInv, <1>2, <1>4, <1>7, <1>8, PendingStep
<1>10. RoomForRequest'
  BY ONLY HeldInv, OrderInv, <1>1, <1>2, <1>4, <1>6, RoomStep
<1>11. StoresCommitted'
  BY ONLY HeldInv, OrderInv, <1>4, <1>7, CommittedStep
<1>12. AtomicBuffered'
  BY ONLY HeldInv, OrderInv, <1>2, <1>4, <1>8, AtomicStep
<1>13. LoadsClear'
  BY ONLY HeldInv, OrderInv, <1>1, <1>2, <1>4, <1>7, LoadsClearStep
<1>14. DeviceLoads'
  BY ONLY HeldInv, OrderInv, <1>1, <1>2, <1>4, <1>6, <1>7, DeviceStep
<1>15. Last' <= MaxInstr'
  <2>1. MaxInstr' = MaxInstr /\ Last' \in {Last, Last + 1} /\ (Last' # Last => Last < MaxInstr)
    BY <1>2, <1>8, Unchanged DEF EdgeMoves
  <2> QED
    BY <2>1, Bounds
<1>16. ASSUME NEW i \in LoadIds PROVE ldbuf'[i].n <= Last'
  <2>1. /\ Fixed /\ LoadTypes /\ Elaborated /\ Front \in Requests
        /\ ldbuf' = NextLdbuf(granted, Front, f, rid)
        /\ granted \in BOOLEAN /\ f \in BOOLEAN
    BY <1>1 DEF Signals, Wires, LoadUnitClock, HeldInv, LoadBuffer, Program, Fifo, Front, lsu_ctrl_o
  <2>2. \/ granted /\ ldbuf'[i].n = Front.n
        \/ ldbuf'[i].n = 0
        \/ ldbuf'[i].n = ldbuf[i].n
    BY ONLY <2>1, i \in LoadIds, LdbufStep
  <2>3. granted => Front.n \in Nat /\ Front.n <= Last
    <3>1. granted => LdValid
      BY <1>2 DEF EdgeMoves, LoadEdge
    <3>2. LdValid => Front.n \in Window
      BY DEF HeldInv, Holding, Pend, LdValid
    <3> QED
      BY <3>1, <3>2 DEF HeldInv, Program, Window, Last
  <2>4. Last \in Nat /\ Last <= Last' /\ Last' \in Nat
    BY <1>2, Bounds DEF EdgeMoves
  <2>5. ldbuf[i].n \in Nat /\ ldbuf[i].n <= Last
    BY <2>1 DEF LoadTypes, LoadEntries, OrderInv
  <2> QED
    BY <2>2, <2>3, <2>4, <2>5
<1>17. OrderInv'
  <2>1. LoadIds' = LoadIds
    BY <1>8 DEF Fixed, LoadIds, NrLoadBufEntries
  <2> QED
    BY <1>6, <1>9, <1>10, <1>11, <1>12, <1>13, <1>14, <1>15, <1>16, <2>1 DEF OrderInv
<1>18. SB!Order!Next
  <2>1. push => store_req.n \in 1 .. LongestRun
    BY <1>4, Bounds DEF CoreMoves
  <2>2. SB!Order!Step(c, f, drain)
    BY <1>6, <2>1, Same DEF SBP!QueueMoves, SB!Order!Step, SB!Order!AfterRetire,
      SB!Order!AfterDrain, Pending, Retired
  <2>3. f \in BOOLEAN
    BY <1>1 DEF Signals
  <2> QED
    BY <2>2, <2>3 DEF SB!Order!Next
<1>19. Drained
  BY ONLY HeldInv, OrderInv, <1>1, <1>4, DrainedStep, amo_ack \in AmoAcks
<1> QED
  BY <1>2, <1>17, <1>18, <1>19


LEMMA OrderInit == Init => OrderInv
<1> SUFFICES ASSUME Init PROVE OrderInv
  OBVIOUS
<1>1. /\ Elaborated /\ SB!Reset /\ BypassReset /\ StoreUnitReset(NoRequest) /\ LoadUnitReset
      /\ instr = <<>> /\ head = 1 /\ committed = <<>> /\ tag_phase = FALSE
  BY DEF Init
<1>2. SBP!IInv
  <2>1. SBP!Init
    BY <1>1 DEF SB!Reset, SBP!Init, SBP!Reset, SB!SpecSlots, SBP!SpecSlots, SB!CommitSlots,
         SBP!CommitSlots, SB!ResetEntry, SBP!ResetEntry
  <2> QED
    BY <2>1, SBP!InitIInv, Depths
<1>3. /\ written = <<>> /\ speculative_status_cnt = 0 /\ commit_status_cnt = 0
      /\ Last = 0 /\ Window = {} /\ store_state = "IDLE" /\ amo_buffer = 0
      /\ load_state = "IDLE" /\ ldbuf = [i \in LoadIds |-> FreeEntry]
  BY <1>1 DEF SB!Reset, StoreUnitReset, LoadUnitReset, Last, Window
<1>4. Pending = <<>> /\ Retired = <<>>
  <2>1. PICK p \in Seq(Nat), r \in Seq(Nat) : p = Pending /\ r = Retired /\ Len(p) = 0 /\ Len(r) = 0
    BY <1>2, <1>3, QueueBounds
  <2> QED
    BY <2>1
<1>5. StoresPending
  BY <1>3, <1>4 DEF StoresPending, Increasing, Among
<1>6. RoomForRequest /\ AtomicBuffered
  BY <1>3 DEF RoomForRequest, AtomicBuffered
<1>7. StoresCommitted
  BY <1>1, <1>3, <1>4 DEF StoresCommitted
<1>8. \A i \in LoadIds : ~ldbuf[i].valid /\ ldbuf[i].n = 0
  BY <1>3 DEF FreeEntry
<1>9. LoadsClear /\ DeviceLoads
  BY <1>3, <1>8 DEF LoadsClear, DeviceLoads, Live, Cleared
<1>10. Last <= MaxInstr /\ \A i \in LoadIds : ldbuf[i].n <= Last
  <2>1. MaxInstr \in 0 .. LongestRun /\ LongestRun \in Nat
    BY <1>1, BoundAssumption DEF MaxInstr, Elaborated
  <2> QED
    BY <1>3, <1>8, <2>1
<1> QED
  BY <1>2, <1>5, <1>6, <1>7, <1>9, <1>10 DEF OrderInv

LEMMA OrderStutter == OrderInv /\ UNCHANGED vars => OrderInv'
<1> SUFFICES ASSUME OrderInv, UNCHANGED vars PROVE OrderInv'
  OBVIOUS
<1>1. /\ config' = config /\ instr' = instr /\ head' = head /\ base' = base
      /\ fu_data' = fu_data /\ ex_q' = ex_q /\ tag_phase' = tag_phase
      /\ bypass_mem' = bypass_mem /\ bypass_read_pointer' = bypass_read_pointer
      /\ bypass_status_cnt' = bypass_status_cnt
      /\ store_state' = store_state /\ store_req' = store_req /\ amo_buffer' = amo_buffer
      /\ load_state' = load_state /\ ldbuf' = ldbuf /\ ldbuf_last_id' = ldbuf_last_id
      /\ committed' = committed /\ UNCHANGED storeBufferVars
  BY DEF vars, bypassVars, storeUnitVars, loadUnitVars, pipelineVars
<1>2. UNCHANGED SBP!vars
  BY <1>1 DEF SBP!vars, SBP!specVars, SBP!commitVars, storeBufferVars
<1>3. SBP!IInv'
  BY <1>2, SBP!NextIInv, Depths DEF OrderInv
<1>4. /\ Pending' = Pending /\ Retired' = Retired /\ written' = written
      /\ speculative_status_cnt' = speculative_status_cnt /\ commit_status_cnt' = commit_status_cnt
  BY <1>1 DEF Pending, Retired, SBP!Pending, SBP!Retired, SBP!Contents, SBP!Slot, storeBufferVars
<1>5. /\ LoadIds' = LoadIds /\ NonIdempotent' = NonIdempotent /\ RVA' = RVA /\ MaxInstr' = MaxInstr
      /\ Front' = Front /\ Last' = Last /\ Window' = Window
  BY <1>1 DEF LoadIds, NrLoadBufEntries, NonIdempotent, RVA, MaxInstr, Front, lsu_ctrl_o,
       bypass_empty, Last, Window
<1>6. /\ \A i : Live(i)' <=> Live(i)
      /\ \A i : Killed(i)' <=> Killed(i)
  BY <1>1 DEF Live, Killed
<1>7. \A n, a : Clear(n, a)' <=> Clear(n, a)
  BY <1>1, <1>4 DEF Clear, OlderStores, Written
<1>8. StoresPending' /\ RoomForRequest' /\ StoresCommitted' /\ AtomicBuffered'
  BY <1>1, <1>4, <1>5 DEF OrderInv, StoresPending, RoomForRequest, StoresCommitted, AtomicBuffered,
       Done, is_amo
<1>9. LoadsClear'
  BY <1>1, <1>5, <1>6, <1>7 DEF OrderInv, LoadsClear, Cleared
<1>10. DeviceLoads'
  BY <1>1, <1>4, <1>5, <1>6 DEF OrderInv, DeviceLoads
<1> QED
  BY <1>1, <1>3, <1>5, <1>8, <1>9, <1>10 DEF OrderInv

LEMMA OrderNext ==
  ASSUME Orderly, HeldInv, OrderInv, Next
  PROVE  HeldInv' /\ OrderInv' /\ SB!Order!Next /\ Drained
<1>1. PICK kind \in Kinds \cup {"NONE"}, a \in Addrs, finish \in Finishes,
           wbuffer_empty \in WbufferEmpty, not_ni \in WbufferNotNi, amo_ack \in AmoAcks,
           wake \in Wakes, st_gnt \in StoreGrants, ld_gnt \in BOOLEAN, rid \in Responses :
        Edge(kind, a, finish, wbuffer_empty, not_ni, amo_ack, wake, st_gnt, ld_gnt, rid)
  BY DEF Next, Cycle
<1>2. finish \in SUBSET Finishing /\ st_gnt \in BOOLEAN
  BY DEF Finishes, StoreGrants
<1> QED
  BY <1>1, <1>2, OrderEdge

LEMMA OrderlyStays == ASSUME [Next]_vars PROVE Orderly' <=> Orderly
<1>1. SingleStep' = SingleStep
  <2>1. CASE Next
    BY <2>1 DEF Next, Cycle, Edge, Fixed, SingleStep
  <2>2. CASE UNCHANGED vars
    BY <2>2 DEF vars, SingleStep
  <2> QED
    BY <2>1, <2>2
<1> QED
  BY <1>1, AlignedStays DEF Orderly, Unstepped

Ordered == Orderly => HeldInv /\ OrderInv

LEMMA OrderedStep == Ordered /\ [Next]_vars => Ordered'
<1> SUFFICES ASSUME Ordered, [Next]_vars, Orderly' PROVE HeldInv' /\ OrderInv'
  BY DEF Ordered
<1>1. Orderly /\ HeldInv /\ OrderInv
  BY OrderlyStays DEF Ordered
<1>2. CASE Next
  BY <1>1, <1>2, OrderNext
<1>3. CASE UNCHANGED vars
  BY <1>1, <1>3, HeldStutter, OrderStutter
<1> QED
  BY <1>2, <1>3

(* The order of stores, loads, atomics and fences, in every state of a     *)
(* program without misaligned stores that no debugger single steps.        *)
THEOREM OrderHolds == Spec => []Ordered
<1>1. Init => Ordered
  BY HeldInit, OrderInit DEF Ordered
<1> QED
  BY <1>1, OrderedStep, PTL DEF Spec

-----------------------------------------------------------------------------
(* "The store will definitely happen": what has committed is what the data *)
(* cache has taken followed by what the commit queue holds, in order; no   *)
(* overflow, flush or grant that meets a commit loses or reorders one.     *)
THEOREM CommittedStoresAreKept == Spec => [](Orderly => CommittedStoresHappen)
<1>1. Ordered => (Orderly => CommittedStoresHappen)
  BY Same DEF Ordered, OrderInv, StoresCommitted, CommittedStoresHappen
<1> QED
  BY <1>1, OrderHolds, PTL

(* A load that reads the data cache and is not dropped finds every older   *)
(* store to its granule there already, wherever the store was when the     *)
(* address checker looked.                                                 *)
THEOREM LoadsSeeOlderStores == Spec => [](Orderly => LoadsFollowOlderStores)
<1>1. ASSUME HeldInv, OrderInv PROVE LoadsFollowOlderStores
  <2> SUFFICES ASSUME NEW i \in LoadIds, Sent(i), ~ldbuf[i].flushed
               PROVE  Clear(ldbuf[i].n, ldbuf[i].addr)
    BY DEF LoadsFollowOlderStores, Clear
  <2>1. Live(i)
    BY DEF Sent, Live, Killed, kill_req_o
  <2> QED
    BY <1>1, <2>1 DEF OrderInv, LoadsClear
<1>2. Ordered => (Orderly => LoadsFollowOlderStores)
  BY <1>1 DEF Ordered
<1> QED
  BY <1>2, OrderHolds, PTL

(* A load of a non-idempotent region that is really sent is the oldest     *)
(* instruction, every committed store is written, and it is not dropped:   *)
(* it reads the device once.                                               *)
THEOREM DeviceLoadsAreNotSpeculative == Spec => [](Orderly => NonIdempotentLoadsNotSpeculative)
<1>1. ASSUME HeldInv, OrderInv PROVE NonIdempotentLoadsNotSpeculative
  <2> SUFFICES ASSUME NEW i \in LoadIds, Sent(i), ldbuf[i].addr \in NonIdempotent
               PROVE  ldbuf[i].n = head /\ ~ldbuf[i].flushed /\ written = committed
    BY DEF NonIdempotentLoadsNotSpeculative
  <2>1. ldbuf[i].valid /\ ~Killed(i)
    BY DEF Sent, Killed, kill_req_o
  <2>2. ~ldbuf[i].flushed /\ ldbuf[i].n = head /\ commit_status_cnt = 0
    BY <1>1, <2>1 DEF OrderInv, DeviceLoads
  <2> QED
    BY <1>1, <2>2, NothingRetired
<1>2. Ordered => (Orderly => NonIdempotentLoadsNotSpeculative)
  BY <1>1 DEF Ordered
<1> QED
  BY <1>2, OrderHolds, PTL

(* The core drives the store buffer as its assertions ask, so inside the   *)
(* pipeline too stores retire and are written in program order and only    *)
(* pending ones are squashed.                                              *)
THEOREM StoresKeepProgramOrder == Spec /\ Orderly => StoresInOrder
<1>1. Init => SB!Order!Init
  BY DEF Init, SB!Reset, SB!Order!Init, SB!Pending, SB!Retired, SB!Contents
<1>2. ASSUME Ordered, Orderly, [Next]_vars PROVE [SB!Order!Next]_(SB!Order!vars)
  <2>1. CASE Next
    BY <1>2, <2>1, OrderNext DEF Ordered
  <2>2. CASE UNCHANGED vars
    BY <2>2 DEF vars, storeBufferVars, SB!Order!vars, SB!Pending, SB!Retired, SB!Contents, SB!Slot
  <2> QED
    BY <1>2, <2>1, <2>2
<1>3. Ordered /\ Orderly /\ [Next]_vars => [SB!Order!Next]_(SB!Order!vars)
  BY <1>2
<1>4. Orderly /\ [Next]_vars => Orderly'
  BY OrderlyStays
<1> QED
  BY <1>1, <1>3, <1>4, OrderHolds, PTL DEF Spec, StoresInOrder, SB!Order!Spec

(* A fence or an atomic only takes effect when every committed store is in *)
(* the data cache, and the atomic that waits in the AMO buffer is then the *)
(* one at the commit stage.                                                *)
THEOREM FencesWaitForStores == Spec /\ Orderly => FencesDrainStores
<1>1. ASSUME Ordered, Orderly, [Next]_vars PROVE [Drained]_vars
  <2>1. CASE Next
    BY <1>1, <2>1, OrderNext DEF Ordered
  <2> QED
    BY <1>1, <2>1
<1>2. Ordered /\ Orderly /\ [Next]_vars => [Drained]_vars
  BY <1>1
<1>3. Orderly /\ [Next]_vars => Orderly'
  BY OrderlyStays
<1> QED
  BY <1>2, <1>3, OrderHolds, PTL DEF Spec, FencesDrainStores, Drained

(* Types, and the window of the scoreboard never holds more instructions   *)
(* than it has entries.                                                    *)
THEOREM TypesHold == Spec => [](Orderly => TypeOK)
<1>1. ASSUME HeldInv, OrderInv PROVE TypeOK
  <2>1. SB!TypeOK
    BY <1>1 DEF OrderInv, SBP!IInv, SBP!TypeOK, SB!TypeOK, SB!SpecSlots, SBP!SpecSlots,
         SB!CommitSlots, SBP!CommitSlots, SB!Entry, SBP!Entry
  <2>2. /\ bypass_status_cnt \in 0 .. 3
        /\ {bypass_read_pointer, bypass_write_pointer} \subseteq {0, 1}
    BY <1>1 DEF HeldInv, Fifo
  <2>3. store_state \in StoreStates /\ load_state \in LoadStates /\ ldbuf_last_id \in LoadIds
    BY <1>1 DEF HeldInv, StoreMachine, LoadBuffer, LoadTypes
  <2>4. amo_buffer \in 0 .. Last
    BY <1>1 DEF OrderInv, AtomicBuffered
  <2>5. \A i \in LoadIds : ldbuf[i].n \in 0 .. Last /\ ldbuf[i].tid \in 0 .. NR_SB_ENTRIES - 1
    <3>1. ASSUME NEW i \in LoadIds
          PROVE  ldbuf[i].n \in Nat /\ ldbuf[i].tid \in 0 .. NR_SB_ENTRIES - 1 /\ ldbuf[i].n <= Last
      BY <1>1 DEF HeldInv, LoadBuffer, LoadTypes, LoadEntries, OrderInv
    <3>2. Last \in Nat
      BY <1>1, Bounds
    <3> QED
      BY <3>1, <3>2
  <2>6. /\ head \in 1 .. Last + 1 /\ base \in 1 .. head /\ head \in Nat /\ Last \in Nat
        /\ (Last + 1) - head <= NR_SB_ENTRIES /\ NR_SB_ENTRIES \in Nat
    BY <1>1, Parameters DEF HeldInv, Program, Last
  <2>7. Cardinality(Window) <= NR_SB_ENTRIES
    <3>1. Cardinality(head .. Last) = IF head > Last THEN 0 ELSE (Last - head) + 1
      BY <2>6, FS_Interval
    <3> QED
      BY <2>6, <3>1 DEF Window
  <2> QED
    BY <2>1, <2>2, <2>3, <2>4, <2>5, <2>6, <2>7 DEF TypeOK
<1>2. Ordered => (Orderly => TypeOK)
  BY <1>1 DEF Ordered
<1> QED
  BY <1>2, OrderHolds, PTL


=============================================================================
