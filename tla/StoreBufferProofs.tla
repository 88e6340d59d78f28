-------------------------- MODULE StoreBufferProofs --------------------------
(***************************************************************************)
(* Theorems about core/store_buffer.sv as StoreBuffer.tla models it, for   *)
(* every depth of the two queues and every number of stores.               *)
(***************************************************************************)
EXTENDS StoreBuffer, SequenceTheorems, TLAPS

IInv == TypeOK /\ QueuesCoherent

(* The slots of a ring: the k-th slot from p is a slot, and distinct k     *)
(* below the depth are distinct slots.                                     *)
LEMMA SlotRange ==
  ASSUME NEW depth \in Nat \ {0}, NEW p \in 0 .. depth - 1, NEW k \in 0 .. depth
  PROVE  Slot(p, k, depth) \in 0 .. depth - 1
  BY DEF Slot

LEMMA SlotInjective ==
  ASSUME NEW depth \in Nat \ {0}, NEW p \in 0 .. depth - 1,
         NEW j \in 0 .. depth - 1, NEW k \in 0 .. depth - 1,
         Slot(p, j, depth) = Slot(p, k, depth)
  PROVE  j = k
  BY DEF Slot

LEMMA SlotAfterInc ==
  ASSUME NEW depth \in Nat \ {0, 1}, NEW p \in 0 .. depth - 1, NEW k \in 0 .. depth - 1
  PROVE  /\ Inc(p, depth) \in 0 .. depth - 1
         /\ Slot(Inc(p, depth), k, depth) = Slot(p, IF k + 1 = depth THEN 0 ELSE k + 1, depth)
         /\ Inc(Slot(p, k, depth), depth) = Slot(p, k + 1, depth)
  BY DEF Slot, Inc

(* Reset leaves both queues empty and coherent.                            *)
LEMMA InitIInv == Init => IInv
  <1> SUFFICES ASSUME Init PROVE IInv
    OBVIOUS
  <1> USE DepthAssumption DEF Init, Reset
  <1>1. TypeOK
    BY DEF TypeOK, SpecSlots, CommitSlots, Entry, ResetEntry
  <1>2. SpeculativeCoherent
    BY SlotRange DEF SpeculativeCoherent, Coherent, SpecSlots, ResetEntry, Slot
  <1>3. CommitCoherent
    BY SlotRange DEF CommitCoherent, Coherent, CommitSlots, ResetEntry, Slot
  <1> QED
    BY <1>1, <1>2, <1>3 DEF IInv, QueuesCoherent

(* The lemmas about an edge take any store s, so that they hold of the     *)
(* buffer inside the load-store unit too.                                  *)
LEMMA TypeStep ==
  ASSUME TypeOK, NEW valid_i \in BOOLEAN, NEW s \in Nat, NEW commit_i \in BOOLEAN,
         NEW flush_i \in BOOLEAN, NEW stall_st_pending_i \in BOOLEAN, NEW data_gnt \in BOOLEAN,
         Clock(valid_i, s, commit_i, flush_i, stall_st_pending_i, data_gnt), issued' \in Nat
  PROVE  TypeOK'
  <1> DEFINE drain == data_req(stall_st_pending_i) /\ data_gnt
  <1>1. CoreInterface(valid_i, s, commit_i, flush_i) /\ MemoryInterface(commit_i, drain)
    BY DEF Clock
  <1>2. issued' \in Nat /\ s \in Nat
    OBVIOUS
  <1>3. speculative_queue' \in [SpecSlots -> Entry]
    <2>1. ASSUME NEW i \in SpecSlots
          PROVE  EntryAfter(i, valid_i, s, commit_i, flush_i) \in Entry
      <3>1. speculative_queue[i] \in Entry
        BY DEF TypeOK
      <3> QED
        BY <3>1, <1>2 DEF EntryAfter, Entry, Invalidate
    <2> QED
      BY <1>1, <2>1 DEF CoreInterface
  <1>4. commit_queue' \in [CommitSlots -> Entry]
    <2>1. speculative_queue[speculative_read_pointer] \in Entry
      BY DEF TypeOK
    <2>2. \A i \in CommitSlots : /\ commit_queue[i] \in Entry
                                /\ Invalidate(commit_queue[i]) \in Entry
      BY DEF TypeOK, Entry, Invalidate
    <2> HIDE DEF drain
    <2> QED
      BY <1>1, <2>1, <2>2 DEF MemoryInterface, CommitCount, CommitEntry
  <1>5. /\ speculative_read_pointer' \in SpecSlots
        /\ speculative_write_pointer' \in SpecSlots
        /\ commit_read_pointer' \in CommitSlots
        /\ commit_write_pointer' \in CommitSlots
    BY <1>1, DepthAssumption
    DEF TypeOK, CoreInterface, MemoryInterface, CommitCount, CommitEntry, Inc, SpecSlots, CommitSlots
  <1>6. /\ speculative_status_cnt' \in 0 .. 2 * DEPTH_SPEC - 1
        /\ commit_status_cnt' \in 0 .. 2 * DEPTH_COMMIT - 1
    BY <1>1, DepthAssumption
    DEF TypeOK, CoreInterface, MemoryInterface, CommitCount, CommitEntry, SpeculativeCount, Wrap, Bit
  <1>7. written' \in Seq(Nat)
    <2>1. commit_queue[commit_read_pointer].store \in Nat
      BY DEF TypeOK, Entry
    <2> HIDE DEF drain
    <2> QED
      BY <1>1, <2>1 DEF MemoryInterface, CommitCount, CommitEntry, TypeOK
  <1> QED
    BY <1>2, <1>3, <1>4, <1>5, <1>6, <1>7 DEF TypeOK

(* A legal edge keeps the speculative queue coherent: the k-th slot after  *)
(* the edge was the j-th before it.                                        *)
LEMMA SpeculativeStep ==
  ASSUME TypeOK, SpeculativeCoherent,
         NEW valid_i \in BOOLEAN, NEW commit_i \in BOOLEAN, NEW flush_i \in BOOLEAN,
         NEW s \in Nat, Legal(valid_i, commit_i, flush_i),
         CoreInterface(valid_i, s, commit_i, flush_i)
  PROVE  SpeculativeCoherent'
  <1> DEFINE d   == DEPTH_SPEC
             rd  == speculative_read_pointer
             wr  == speculative_write_pointer
             cnt == speculative_status_cnt
  <1>1. /\ d \in Nat \ {0, 1} /\ SpecSlots = 0 .. d - 1
        /\ rd \in 0 .. d - 1 /\ wr \in 0 .. d - 1 /\ cnt \in 0 .. d
        /\ wr = Slot(rd, cnt, d)
        /\ \A k \in 0 .. d - 1 : speculative_queue[Slot(rd, k, d)].valid <=> k < cnt
        /\ \A i \in SpecSlots : speculative_queue[i].valid \in BOOLEAN
    BY DepthAssumption DEF SpeculativeCoherent, Coherent, TypeOK, SpecSlots, Entry
  <1>2. /\ valid_i => cnt # d /\ ~flush_i
        /\ commit_i => cnt # 0 /\ ~flush_i
    BY DEF Legal
  <1>3. speculative_status_cnt' = IF flush_i THEN 0 ELSE cnt + Bit(valid_i) - Bit(commit_i)
    BY <1>1, <1>2 DEF CoreInterface, SpeculativeCount, Wrap, Bit
  <1>4. speculative_status_cnt' \in 0 .. d
    BY <1>1, <1>2, <1>3 DEF Bit
  <1>5. speculative_write_pointer'
          = Slot(speculative_read_pointer', speculative_status_cnt', d)
    BY <1>1, <1>2, <1>3 DEF CoreInterface, Slot, Inc, Bit
  <1>6. ASSUME NEW k \in 0 .. d - 1
        PROVE  speculative_queue'[Slot(speculative_read_pointer', k, d)].valid
                 <=> k < speculative_status_cnt'
    <2> DEFINE j == IF commit_i THEN IF k + 1 = d THEN 0 ELSE k + 1 ELSE k
    <2>1. /\ j \in 0 .. d - 1
          /\ Slot(speculative_read_pointer', k, d) = Slot(rd, j, d)
          /\ Slot(rd, j, d) \in SpecSlots
      BY <1>1 DEF CoreInterface, Slot, Inc
    <2>2. /\ Slot(rd, j, d) = rd <=> j = 0
          /\ cnt # d => (Slot(rd, j, d) = wr <=> j = cnt)
      BY <1>1, <2>1 DEF Slot
    <2>3. speculative_queue'[Slot(rd, j, d)]
            = EntryAfter(Slot(rd, j, d), valid_i, s, commit_i, flush_i)
      BY <2>1 DEF CoreInterface
    <2>4. EntryAfter(Slot(rd, j, d), valid_i, s, commit_i, flush_i).valid
            <=> /\ ~flush_i
                /\ ~(commit_i /\ j = 0)
                /\ (valid_i /\ j = cnt) \/ j < cnt
      <3> HIDE DEF j
      <3> QED
        BY <1>1, <1>2, <2>1, <2>2 DEF EntryAfter, Invalidate
    <2>5. k < speculative_status_cnt'
            <=> /\ ~flush_i
                /\ ~(commit_i /\ j = 0)
                /\ (valid_i /\ j = cnt) \/ j < cnt
      BY <1>1, <1>2, <1>3 DEF Bit
    <2> QED
      BY <2>1, <2>3, <2>4, <2>5
  <1> QED
    BY <1>4, <1>5, <1>6 DEF SpeculativeCoherent, Coherent

(* The commit queue takes a valid entry, because the speculative queue is  *)
(* coherent, and only drains a valid one.                                  *)
LEMMA CommitStep ==
  ASSUME TypeOK, SpeculativeCoherent, CommitCoherent,
         NEW valid_i \in BOOLEAN, NEW commit_i \in BOOLEAN, NEW flush_i \in BOOLEAN,
         NEW drain \in BOOLEAN, drain => commit_queue[commit_read_pointer].valid,
         Legal(valid_i, commit_i, flush_i),
         MemoryInterface(commit_i, drain)
  PROVE  CommitCoherent'
  <1> DEFINE d   == DEPTH_COMMIT
             rd  == commit_read_pointer
             wr  == commit_write_pointer
             cnt == commit_status_cnt
             head == speculative_queue[speculative_read_pointer]
  <1>1. /\ d \in Nat \ {0, 1} /\ CommitSlots = 0 .. d - 1
        /\ rd \in 0 .. d - 1 /\ wr \in 0 .. d - 1 /\ cnt \in 0 .. d
        /\ wr = Slot(rd, cnt, d)
        /\ \A k \in 0 .. d - 1 : commit_queue[Slot(rd, k, d)].valid <=> k < cnt
        /\ \A i \in CommitSlots : commit_queue[i].valid \in BOOLEAN
    BY DepthAssumption DEF CommitCoherent, Coherent, TypeOK, CommitSlots, Entry
  <1>2. drain => cnt # 0
    <2>1. Slot(rd, 0, d) = rd /\ 0 \in 0 .. d - 1
      BY <1>1 DEF Slot
    <2> QED
      BY <1>1, <2>1
  <1>3. commit_i => cnt # d /\ head.valid
    <2>1. commit_i => speculative_status_cnt # 0 /\ cnt # d
      BY DEF Legal
    <2>2. Slot(speculative_read_pointer, 0, DEPTH_SPEC) = speculative_read_pointer
      BY DepthAssumption DEF TypeOK, SpecSlots, Slot
    <2> QED
      BY <2>1, <2>2, DepthAssumption DEF SpeculativeCoherent, Coherent, TypeOK
  <1>4. commit_status_cnt' = cnt + Bit(commit_i) - Bit(drain)
    BY <1>1, <1>2, <1>3 DEF MemoryInterface, CommitCount, CommitEntry, Wrap, Bit
  <1>5. commit_status_cnt' \in 0 .. d
    BY <1>1, <1>2, <1>3, <1>4 DEF Bit
  <1>6. commit_write_pointer' = Slot(commit_read_pointer', commit_status_cnt', d)
    <2>1. commit_read_pointer' = IF drain THEN Inc(rd, d) ELSE rd
      BY DEF MemoryInterface, CommitCount, CommitEntry
    <2>2. commit_write_pointer' = IF commit_i THEN Inc(wr, d) ELSE wr
      BY DEF MemoryInterface, CommitCount, CommitEntry
    <2>3. /\ d \in Nat \ {0, 1} /\ rd \in 0 .. d - 1 /\ cnt \in 0 .. d
          /\ wr = Slot(rd, cnt, d)
      BY <1>1
    <2>4. CASE ~drain
      BY <1>3, <1>4, <2>1, <2>2, <2>3, <2>4 DEF Slot, Inc, Bit
    <2>5. CASE drain /\ commit_i
      BY <1>2, <1>3, <1>4, <2>1, <2>2, <2>3, <2>5 DEF Slot, Inc, Bit
    <2>6. CASE drain /\ ~commit_i
      BY <1>2, <1>4, <2>1, <2>2, <2>3, <2>6 DEF Slot, Inc, Bit
    <2> QED
      BY <2>4, <2>5, <2>6
  <1>7. ASSUME NEW k \in 0 .. d - 1
        PROVE  commit_queue'[Slot(commit_read_pointer', k, d)].valid
                 <=> k < commit_status_cnt'
    <2> DEFINE j == IF drain THEN IF k + 1 = d THEN 0 ELSE k + 1 ELSE k
    <2>1. /\ j \in 0 .. d - 1
          /\ Slot(commit_read_pointer', k, d) = Slot(rd, j, d)
          /\ Slot(rd, j, d) \in CommitSlots
      BY <1>1 DEF MemoryInterface, CommitCount, CommitEntry, Slot, Inc
    <2>2. /\ Slot(rd, j, d) = rd <=> j = 0
          /\ cnt # d => (Slot(rd, j, d) = wr <=> j = cnt)
      BY <1>1, <2>1 DEF Slot
    <2>3. commit_queue'[Slot(rd, j, d)].valid
            <=> \/ commit_i /\ j = cnt
                \/ ~(drain /\ j = 0) /\ j < cnt
      <3> HIDE DEF j
      <3> QED
        BY <1>1, <1>2, <1>3, <2>1, <2>2 DEF MemoryInterface, CommitCount, CommitEntry, Invalidate
    <2>4. k < commit_status_cnt'
            <=> \/ commit_i /\ j = cnt
                \/ ~(drain /\ j = 0) /\ j < cnt
      BY <1>1, <1>2, <1>3, <1>4 DEF Bit
    <2> QED
      BY <2>1, <2>3, <2>4
  <1> QED
    BY <1>5, <1>6, <1>7 DEF CommitCoherent, Coherent

LEMMA ClockIInv ==
  ASSUME IInv, NEW valid_i \in BOOLEAN, NEW s \in Nat, NEW commit_i \in BOOLEAN,
         NEW flush_i \in BOOLEAN, NEW stall_st_pending_i \in BOOLEAN, NEW data_gnt \in BOOLEAN,
         Legal(valid_i, commit_i, flush_i),
         Clock(valid_i, s, commit_i, flush_i, stall_st_pending_i, data_gnt), issued' \in Nat
  PROVE  IInv'
  <1> DEFINE drain == data_req(stall_st_pending_i) /\ data_gnt
  <1>1. TypeOK /\ SpeculativeCoherent /\ CommitCoherent
    BY DEF IInv, QueuesCoherent
  <1>2. /\ CoreInterface(valid_i, s, commit_i, flush_i)
        /\ MemoryInterface(commit_i, drain)
    BY DEF Clock
  <1>3. drain \in BOOLEAN /\ (drain => commit_queue[commit_read_pointer].valid)
    BY DEF data_req
  <1>4. TypeOK'
    BY <1>1, TypeStep
  <1>5. SpeculativeCoherent'
    BY <1>1, <1>2, SpeculativeStep
  <1>6. CommitCoherent'
    <2> HIDE DEF drain
    <2> QED
      BY <1>1, <1>2, <1>3, CommitStep
  <1> QED
    BY <1>4, <1>5, <1>6 DEF IInv, QueuesCoherent

LEMMA NextIInv ==
  ASSUME IInv, [Next]_vars
  PROVE  IInv'
  <1>1. ASSUME NEW valid_i \in BOOLEAN, NEW commit_i \in BOOLEAN, NEW flush_i \in BOOLEAN,
               NEW stall_st_pending_i \in BOOLEAN, NEW data_gnt \in BOOLEAN,
               Edge(valid_i, commit_i, flush_i, stall_st_pending_i, data_gnt)
        PROVE  IInv'
    <2>1. issued \in Nat /\ issued + 1 \in Nat /\ issued' \in Nat
      BY <1>1 DEF IInv, TypeOK, Edge, Bit
    <2>2. /\ Legal(valid_i, commit_i, flush_i)
          /\ Clock(valid_i, issued + 1, commit_i, flush_i, stall_st_pending_i, data_gnt)
      BY <1>1 DEF Edge
    <2> QED
      BY <2>1, <2>2, ClockIInv
  <1>2. CASE UNCHANGED vars
    BY <1>2 DEF IInv, QueuesCoherent, TypeOK, SpeculativeCoherent, CommitCoherent, Coherent,
                vars, specVars, commitVars
  <1> QED
    BY <1>1, <1>2 DEF Next

(* No legal run of the store buffer leaves its registers' types.           *)
THEOREM TypeCorrect == Spec => []TypeOK
  <1>1. Init => IInv
    BY InitIInv
  <1>2. IInv /\ [Next]_vars => IInv'
    BY NextIInv
  <1>3. IInv => TypeOK
    BY DEF IInv
  <1> QED
    BY <1>1, <1>2, <1>3, PTL DEF Spec

(* Whatever the depths and the order of pushes, commits, grants and        *)
(* flushes, counters, pointers and valid flags keep agreeing.              *)
THEOREM Coherence == Spec => []QueuesCoherent
  <1>1. Init => IInv
    BY InitIInv
  <1>2. IInv /\ [Next]_vars => IInv'
    BY NextIInv
  <1>3. IInv => QueuesCoherent
    BY DEF IInv
  <1> QED
    BY <1>1, <1>2, <1>3, PTL DEF Spec

----------------------------------------------------------------------------
(* Refinement: the contents of a ring are a sequence, and moving its       *)
(* pointers takes the head and appends at the end.                         *)

LEMMA ContentsProperties ==
  ASSUME NEW depth \in Nat \ {0, 1}, NEW queue \in [0 .. depth - 1 -> Entry],
         NEW rd \in 0 .. depth - 1, NEW cnt \in 0 .. depth
  PROVE  /\ Contents(queue, rd, cnt, depth) \in Seq(Nat)
         /\ Len(Contents(queue, rd, cnt, depth)) = cnt
         /\ \A k \in 1 .. cnt :
              Contents(queue, rd, cnt, depth)[k] = queue[Slot(rd, k - 1, depth)].store
  <1>1. \A k \in 1 .. cnt : queue[Slot(rd, k - 1, depth)].store \in Nat
    <2> SUFFICES ASSUME NEW k \in 1 .. cnt
                 PROVE  queue[Slot(rd, k - 1, depth)].store \in Nat
      OBVIOUS
    <2>1. Slot(rd, k - 1, depth) \in 0 .. depth - 1
      BY DEF Slot
    <2> QED
      BY <2>1 DEF Entry
  <1> QED
    BY <1>1 DEF Contents

LEMMA HeadOfContents ==
  ASSUME NEW depth \in Nat \ {0, 1}, NEW queue \in [0 .. depth - 1 -> Entry],
         NEW rd \in 0 .. depth - 1, NEW cnt \in 0 .. depth, cnt # 0
  PROVE  /\ Contents(queue, rd, cnt, depth) # <<>>
         /\ Head(Contents(queue, rd, cnt, depth)) = queue[rd].store
  <1> DEFINE old == Contents(queue, rd, cnt, depth)
  <1>1. /\ old \in Seq(Nat) /\ Len(old) = cnt
        /\ \A k \in 1 .. cnt : old[k] = queue[Slot(rd, k - 1, depth)].store
    BY ContentsProperties
  <1>2. Slot(rd, 0, depth) = rd
    BY DEF Slot
  <1> HIDE DEF old
  <1>3. old # <<>> /\ Head(old) = queue[rd].store
    BY <1>1, <1>2
  <1> QED
    BY <1>3 DEF old

RingMoves(depth, queue, rd, cnt, queue2, rd2, cnt2, pop, push, x) ==
  /\ depth \in Nat \ {0, 1}
  /\ queue \in [0 .. depth - 1 -> Entry] /\ rd \in 0 .. depth - 1 /\ cnt \in 0 .. depth
  /\ queue2 \in [0 .. depth - 1 -> Entry]
  /\ pop \in BOOLEAN /\ push \in BOOLEAN /\ x \in Nat
  /\ pop => cnt # 0
  /\ push => cnt # depth
  /\ rd2 = IF pop THEN Inc(rd, depth) ELSE rd
  /\ cnt2 = cnt + Bit(push) - Bit(pop)
  /\ \A j \in 0 .. depth - 1 :
       queue2[Slot(rd, j, depth)].store
         = IF push /\ j = cnt THEN x ELSE queue[Slot(rd, j, depth)].store

LEMMA RingStep ==
  ASSUME NEW depth, NEW queue, NEW rd, NEW cnt, NEW queue2, NEW rd2, NEW cnt2,
         NEW pop, NEW push, NEW x,
         RingMoves(depth, queue, rd, cnt, queue2, rd2, cnt2, pop, push, x)
  PROVE  LET old  == Contents(queue, rd, cnt, depth)
             rest == IF pop THEN Tail(old) ELSE old
         IN  Contents(queue2, rd2, cnt2, depth) = IF push THEN Append(rest, x) ELSE rest
  <1> DEFINE old  == Contents(queue, rd, cnt, depth)
             rest == IF pop THEN Tail(old) ELSE old
             goal == IF push THEN Append(rest, x) ELSE rest
             new  == Contents(queue2, rd2, cnt2, depth)
  <1>0. /\ depth \in Nat \ {0, 1}
        /\ queue \in [0 .. depth - 1 -> Entry] /\ rd \in 0 .. depth - 1 /\ cnt \in 0 .. depth
        /\ queue2 \in [0 .. depth - 1 -> Entry]
        /\ pop \in BOOLEAN /\ push \in BOOLEAN /\ x \in Nat
        /\ pop => cnt # 0
        /\ push => cnt # depth
        /\ rd2 = IF pop THEN Inc(rd, depth) ELSE rd
        /\ cnt2 = cnt + Bit(push) - Bit(pop)
    BY DEF RingMoves
  <1>00. \A j \in 0 .. depth - 1 :
           queue2[Slot(rd, j, depth)].store
             = IF push /\ j = cnt THEN x ELSE queue[Slot(rd, j, depth)].store
    BY DEF RingMoves
  <1>1. /\ old \in Seq(Nat) /\ Len(old) = cnt
        /\ \A k \in 1 .. cnt : old[k] = queue[Slot(rd, k - 1, depth)].store
    BY ONLY <1>0, ContentsProperties
  <1>2. rd2 \in 0 .. depth - 1 /\ cnt2 \in 0 .. depth
    BY <1>0 DEF Inc, Bit
  <1>3. /\ new \in Seq(Nat) /\ Len(new) = cnt2
        /\ \A k \in 1 .. cnt2 : new[k] = queue2[Slot(rd2, k - 1, depth)].store
    <2>1. depth \in Nat \ {0, 1} /\ queue2 \in [0 .. depth - 1 -> Entry]
      BY <1>0
    <2> QED
      BY ONLY <1>2, <2>1, ContentsProperties
  <1>4. cnt # 0 => old # <<>>
    BY <1>0, <1>1
  <1>5. /\ rest \in Seq(Nat) /\ Len(rest) = cnt - Bit(pop)
        /\ \A k \in 1 .. Len(rest) : rest[k] = old[k + Bit(pop)]
    <2> HIDE DEF old
    <2> QED
      BY <1>0, <1>1, <1>4 DEF Bit
  <1>6. new = goal
    <2>1. goal \in Seq(Nat) /\ Len(goal) = cnt2
      <3> HIDE DEF rest
      <3>1. CASE push
        BY <1>0, <1>5, <3>1 DEF Bit
      <3>2. CASE ~push
        BY <1>0, <1>5, <3>2 DEF Bit
      <3> QED
        BY <3>1, <3>2
    <2>2. ASSUME NEW k \in 1 .. cnt2 PROVE new[k] = goal[k]
      <3> DEFINE j == k - 1 + Bit(pop)
      <3>1. /\ j \in 0 .. depth
            /\ j = depth => push /\ pop /\ cnt = depth
        BY <1>0, <1>2 DEF Bit
      <3>2. j \in 0 .. depth - 1
        BY <1>0, <3>1
      <3>3. Slot(rd2, k - 1, depth) = Slot(rd, j, depth)
        BY <1>0, <1>2, <3>2 DEF Slot, Inc, Bit
      <3>4. new[k] = IF push /\ j = cnt THEN x ELSE queue[Slot(rd, j, depth)].store
        <4>1. new[k] = queue2[Slot(rd, j, depth)].store
          <5> HIDE DEF new, j
          <5> QED
            BY <1>3, <3>3
        <4> HIDE DEF new, j
        <4> QED
          BY <1>00, <3>2, <4>1
      <3>5. CASE push /\ k = Len(rest) + 1
        <4>1. goal[k] = x /\ j = cnt
          <5> HIDE DEF rest
          <5> QED
            BY <1>0, <1>5, <3>5 DEF Bit
        <4> QED
          BY <3>4, <3>5, <4>1
      <3>6. CASE ~(push /\ k = Len(rest) + 1)
        <4>1. k \in 1 .. Len(rest) /\ ~(push /\ j = cnt)
          BY <1>0, <1>5, <3>6 DEF Bit
        <4>2. goal[k] = rest[k]
          <5> HIDE DEF rest
          <5> QED
            BY <1>0, <1>5, <4>1
        <4>3. rest[k] = old[j + 1] /\ j + 1 \in 1 .. cnt
          <5> HIDE DEF rest, old
          <5> QED
            BY <1>0, <1>5, <4>1 DEF Bit
        <4>4. rest[k] = queue[Slot(rd, j, depth)].store
          <5>1. old[j + 1] = queue[Slot(rd, j + 1 - 1, depth)].store
            <6>1. j + 1 \in 1 .. cnt
              BY <4>3
            <6> HIDE DEF old, rest, j
            <6> QED
              BY <1>0, <1>1, <3>2, <6>1
          <5>2. j + 1 - 1 = j
            BY <3>2
          <5> HIDE DEF rest, old, j
          <5> QED
            BY <4>3, <5>1, <5>2
        <4> QED
          BY <3>4, <4>1, <4>2, <4>4
      <3> QED
        BY <3>5, <3>6
    <2> HIDE DEF goal, new
    <2> QED
      BY <1>3, <2>1, <2>2, SeqEqual
  <1> QED
    BY <1>6

(* What an edge does to the two sequences, exactly.                        *)
QueueMoves(valid_i, s, commit_i, flush_i, drain) ==
  /\ commit_i => Pending # <<>>
  /\ drain => Retired # <<>>
  /\ flush_i => Pending' = <<>>
  /\ ~flush_i => Pending' = LET kept == IF commit_i THEN Tail(Pending) ELSE Pending
                            IN  IF valid_i THEN Append(kept, s) ELSE kept
  /\ Retired' = LET taken == IF drain THEN Tail(Retired) ELSE Retired
                IN  IF commit_i THEN Append(taken, Head(Pending)) ELSE taken
  /\ written' = IF drain THEN Append(written, Head(Retired)) ELSE written

LEMMA ClockMoves ==
  ASSUME IInv, NEW valid_i \in BOOLEAN, NEW s \in Nat, NEW commit_i \in BOOLEAN,
         NEW flush_i \in BOOLEAN, NEW stall_st_pending_i \in BOOLEAN, NEW data_gnt \in BOOLEAN,
         Legal(valid_i, commit_i, flush_i),
         Clock(valid_i, s, commit_i, flush_i, stall_st_pending_i, data_gnt), IInv'
  PROVE  QueueMoves(valid_i, s, commit_i, flush_i, data_req(stall_st_pending_i) /\ data_gnt)
  <1> DEFINE drain == data_req(stall_st_pending_i) /\ data_gnt
             head  == speculative_queue[speculative_read_pointer]
             kept  == IF commit_i THEN Tail(Pending) ELSE Pending
             taken == IF drain THEN Tail(Retired) ELSE Retired
  <1>1. /\ Legal(valid_i, commit_i, flush_i)
        /\ CoreInterface(valid_i, s, commit_i, flush_i)
        /\ MemoryInterface(commit_i, drain)
        /\ s \in Nat
    BY DEF Clock
  <1>2. /\ DEPTH_SPEC \in Nat \ {0, 1} /\ DEPTH_COMMIT \in Nat \ {0, 1}
        /\ speculative_queue \in [0 .. DEPTH_SPEC - 1 -> Entry]
        /\ speculative_read_pointer \in 0 .. DEPTH_SPEC - 1
        /\ speculative_status_cnt \in 0 .. DEPTH_SPEC
        /\ speculative_write_pointer
             = Slot(speculative_read_pointer, speculative_status_cnt, DEPTH_SPEC)
        /\ commit_queue \in [0 .. DEPTH_COMMIT - 1 -> Entry]
        /\ commit_read_pointer \in 0 .. DEPTH_COMMIT - 1
        /\ commit_status_cnt \in 0 .. DEPTH_COMMIT
        /\ commit_write_pointer
             = Slot(commit_read_pointer, commit_status_cnt, DEPTH_COMMIT)
    <2>1. TypeOK /\ SpeculativeCoherent /\ CommitCoherent
      BY DEF IInv, QueuesCoherent
    <2>2. /\ speculative_status_cnt \in 0 .. DEPTH_SPEC
          /\ speculative_write_pointer
               = Slot(speculative_read_pointer, speculative_status_cnt, DEPTH_SPEC)
      BY <2>1, DepthAssumption DEF TypeOK, SpeculativeCoherent, Coherent
    <2>3. /\ commit_status_cnt \in 0 .. DEPTH_COMMIT
          /\ commit_write_pointer
               = Slot(commit_read_pointer, commit_status_cnt, DEPTH_COMMIT)
      BY <2>1, DepthAssumption DEF TypeOK, CommitCoherent, Coherent
    <2> QED
      BY <2>1, <2>2, <2>3, DepthAssumption DEF TypeOK, SpecSlots, CommitSlots
  <1>3. /\ speculative_queue' \in [0 .. DEPTH_SPEC - 1 -> Entry]
        /\ commit_queue' \in [0 .. DEPTH_COMMIT - 1 -> Entry]
    BY DEF IInv, TypeOK, SpecSlots, CommitSlots
  <1>4. head \in Entry
    BY <1>2
  <1>5. /\ valid_i => speculative_status_cnt # DEPTH_SPEC /\ ~flush_i
        /\ commit_i => speculative_status_cnt # 0 /\ commit_status_cnt # DEPTH_COMMIT
        /\ commit_i => ~flush_i
    BY <1>1 DEF Legal
  <1>6. drain => commit_status_cnt # 0
    <2>1. Slot(commit_read_pointer, 0, DEPTH_COMMIT) = commit_read_pointer
      BY <1>2 DEF Slot
    <2>2. commit_queue[Slot(commit_read_pointer, 0, DEPTH_COMMIT)].valid
            <=> 0 < commit_status_cnt
      BY <1>2 DEF IInv, QueuesCoherent, CommitCoherent, Coherent
    <2> QED
      BY <2>1, <2>2, <1>2 DEF data_req
  <1>7. speculative_status_cnt # 0 => Pending # <<>> /\ Head(Pending) = head.store
    BY <1>2, HeadOfContents DEF Pending
  <1>8. ASSUME ~flush_i
        PROVE  Pending' = IF valid_i THEN Append(kept, s)
                          ELSE kept
    <2>1. /\ speculative_read_pointer'
               = IF commit_i THEN Inc(speculative_read_pointer, DEPTH_SPEC)
                 ELSE speculative_read_pointer
          /\ speculative_status_cnt'
               = speculative_status_cnt + Bit(valid_i) - Bit(commit_i)
      BY <1>1, <1>2, <1>5, <1>8 DEF CoreInterface, SpeculativeCount, Wrap, Bit
    <2>2. ASSUME NEW j \in 0 .. DEPTH_SPEC - 1
          PROVE  speculative_queue'[Slot(speculative_read_pointer, j, DEPTH_SPEC)].store
              = IF valid_i /\ j = speculative_status_cnt THEN s
                ELSE speculative_queue[Slot(speculative_read_pointer, j, DEPTH_SPEC)].store
      <3>0. /\ Slot(speculative_read_pointer, j, DEPTH_SPEC) \in SpecSlots
            /\ speculative_status_cnt # DEPTH_SPEC =>
                 (Slot(speculative_read_pointer, j, DEPTH_SPEC) = Slot(speculative_read_pointer, speculative_status_cnt, DEPTH_SPEC)
                    <=> j = speculative_status_cnt)
        BY <1>2 DEF Slot, SpecSlots
      <3>1. PICK i \in SpecSlots :
              /\ i = Slot(speculative_read_pointer, j, DEPTH_SPEC)
              /\ speculative_status_cnt # DEPTH_SPEC =>
                   (i = speculative_write_pointer <=> j = speculative_status_cnt)
        BY <1>2, <3>0
      <3>2. speculative_queue'[i] = EntryAfter(i, valid_i, s, commit_i, flush_i)
        BY <1>1 DEF CoreInterface
      <3>3. speculative_queue'[i].store = IF valid_i /\ j = speculative_status_cnt THEN s
                                         ELSE speculative_queue[i].store
        BY <1>5, <3>1, <3>2 DEF EntryAfter, Invalidate
      <3> QED
        BY <3>1, <3>3
    <2>3. RingMoves(DEPTH_SPEC, speculative_queue, speculative_read_pointer,
                    speculative_status_cnt, speculative_queue', speculative_read_pointer',
                    speculative_status_cnt', commit_i, valid_i, s)
      BY <1>1, <1>2, <1>3, <1>5, <2>1, <2>2 DEF RingMoves
    <2> QED
      BY <2>3, RingStep DEF Pending
  <1>9. flush_i => Pending' = <<>>
    <2>1. flush_i => speculative_status_cnt' = 0
      BY <1>1 DEF CoreInterface, SpeculativeCount
    <2> QED
      BY <2>1 DEF Pending, Contents
  <1>10. /\ drain => Retired # <<>>
         /\ Retired' = IF commit_i THEN Append(taken, head.store)
                       ELSE taken
         /\ drain => Head(Retired) = commit_queue[commit_read_pointer].store
    <2>1. /\ commit_read_pointer' = IF drain THEN Inc(commit_read_pointer, DEPTH_COMMIT)
                                    ELSE commit_read_pointer
          /\ commit_status_cnt' = commit_status_cnt + Bit(commit_i) - Bit(drain)
      BY <1>1, <1>2, <1>5, <1>6 DEF MemoryInterface, CommitCount, CommitEntry, Wrap, Bit
    <2>2. ASSUME NEW j \in 0 .. DEPTH_COMMIT - 1
          PROVE  commit_queue'[Slot(commit_read_pointer, j, DEPTH_COMMIT)].store
              = IF commit_i /\ j = commit_status_cnt THEN head.store
                ELSE commit_queue[Slot(commit_read_pointer, j, DEPTH_COMMIT)].store
      <3>0. /\ Slot(commit_read_pointer, j, DEPTH_COMMIT) \in CommitSlots
            /\ commit_status_cnt # DEPTH_COMMIT =>
                 (Slot(commit_read_pointer, j, DEPTH_COMMIT) = Slot(commit_read_pointer, commit_status_cnt, DEPTH_COMMIT)
                    <=> j = commit_status_cnt)
        BY <1>2 DEF Slot, CommitSlots
      <3>1. PICK i \in CommitSlots :
              /\ i = Slot(commit_read_pointer, j, DEPTH_COMMIT)
              /\ commit_status_cnt # DEPTH_COMMIT =>
                   (i = commit_write_pointer <=> j = commit_status_cnt)
        BY <1>2, <3>0
      <3>2. commit_queue'[i].store = IF commit_i /\ j = commit_status_cnt THEN head.store
                                    ELSE commit_queue[i].store
        <4> HIDE DEF drain
        <4> QED
          BY <1>1, <1>5, <3>1 DEF MemoryInterface, CommitCount, CommitEntry, Invalidate
      <3> QED
        BY <3>1, <3>2
    <2>3. head.store \in Nat /\ drain \in BOOLEAN
      BY <1>4 DEF Entry, data_req
    <2> HIDE DEF head, drain
    <2>4. RingMoves(DEPTH_COMMIT, commit_queue, commit_read_pointer, commit_status_cnt,
                    commit_queue', commit_read_pointer', commit_status_cnt',
                    drain, commit_i, head.store)
      BY <1>2, <1>3, <1>5, <1>6, <2>1, <2>2, <2>3 DEF RingMoves
    <2>5. Retired' = LET rest == IF drain THEN Tail(Retired) ELSE Retired
                     IN  IF commit_i THEN Append(rest, head.store) ELSE rest
      BY <2>4, RingStep DEF Retired
    <2>6. /\ drain => Retired # <<>>
          /\ drain => Head(Retired) = commit_queue[commit_read_pointer].store
      BY <1>2, <1>6, HeadOfContents DEF Retired
    <2> QED
      BY <2>5, <2>6
  <1>11. written' = IF drain THEN Append(written, Head(Retired)) ELSE written
    BY <1>1, <1>10 DEF MemoryInterface, CommitCount, CommitEntry
  <1>12. commit_i => Pending # <<>> /\ Head(Pending) = head.store
    BY <1>5, <1>7
  <1> HIDE DEF head, drain
  <1>13. QueueMoves(valid_i, s, commit_i, flush_i, drain)
    BY <1>8, <1>9, <1>10, <1>11, <1>12 DEF QueueMoves
  <1> QED
    BY <1>13 DEF drain

(* An edge of a buffer driven as its assertions ask.                       *)
LegalEdge(valid_i, s, commit_i, flush_i, stall_st_pending_i, data_gnt, drain) ==
  /\ {valid_i, commit_i, flush_i, stall_st_pending_i, data_gnt, drain} \subseteq BOOLEAN
  /\ s \in Nat
  /\ drain = (data_req(stall_st_pending_i) /\ data_gnt)
  /\ Legal(valid_i, commit_i, flush_i)
  /\ Clock(valid_i, s, commit_i, flush_i, stall_st_pending_i, data_gnt)
  /\ issued' \in Nat

LEMMA LegalEdgeStep ==
  ASSUME NEW valid_i, NEW s, NEW commit_i, NEW flush_i, NEW stall_st_pending_i,
         NEW data_gnt, NEW drain, IInv,
         LegalEdge(valid_i, s, commit_i, flush_i, stall_st_pending_i, data_gnt, drain)
  PROVE  IInv' /\ QueueMoves(valid_i, s, commit_i, flush_i, drain)
  <1>1. /\ valid_i \in BOOLEAN /\ commit_i \in BOOLEAN /\ flush_i \in BOOLEAN
        /\ stall_st_pending_i \in BOOLEAN /\ data_gnt \in BOOLEAN /\ s \in Nat
    BY DEF LegalEdge
  <1>2. /\ Legal(valid_i, commit_i, flush_i) /\ issued' \in Nat
        /\ Clock(valid_i, s, commit_i, flush_i, stall_st_pending_i, data_gnt)
    BY DEF LegalEdge
  <1>3. drain = (data_req(stall_st_pending_i) /\ data_gnt)
    BY DEF LegalEdge
  <1>4. IInv'
    BY <1>1, <1>2, ClockIInv
  <1>5. QueueMoves(valid_i, s, commit_i, flush_i, data_req(stall_st_pending_i) /\ data_gnt)
    BY <1>1, <1>2, <1>4, ClockMoves
  <1> QED
    BY <1>3, <1>4, <1>5

(* Every edge of the buffer is a step of StoreOrder.                       *)
LEMMA MovesRefine ==
  ASSUME NEW valid_i, NEW s, NEW commit_i, NEW flush_i, NEW drain,
         QueueMoves(valid_i, s, commit_i, flush_i, drain), valid_i => s \in 1 .. MaxStore
  PROVE  Order!Step(commit_i, flush_i, drain)
  BY DEF QueueMoves, Order!Step, Order!AfterRetire, Order!AfterDrain

LEMMA StepRefines ==
  ASSUME IInv, NEW valid_i \in BOOLEAN, NEW commit_i \in BOOLEAN, NEW flush_i \in BOOLEAN,
         NEW stall_st_pending_i \in BOOLEAN, NEW data_gnt \in BOOLEAN,
         Edge(valid_i, commit_i, flush_i, stall_st_pending_i, data_gnt), IInv'
  PROVE  Order!Next
  <1>1. PICK drain \in BOOLEAN : drain = (data_req(stall_st_pending_i) /\ data_gnt)
    BY DEF data_req
  <1>2. PICK s \in Nat : s = issued + 1
    BY DEF IInv, TypeOK
  <1>3. /\ Legal(valid_i, commit_i, flush_i)
        /\ Clock(valid_i, s, commit_i, flush_i, stall_st_pending_i, data_gnt)
        /\ valid_i => s \in 1 .. MaxStore
    BY <1>2, MaxStoreAssumption DEF Edge, IInv, TypeOK
  <1>4. QueueMoves(valid_i, s, commit_i, flush_i, drain)
    BY <1>1, <1>3, ClockMoves
  <1> QED
    BY <1>3, <1>4, MovesRefine DEF Order!Next

(* The store buffer implements StoreOrder: stores retire and are written   *)
(* in program order, none is lost and none is written twice, and only      *)
(* stores that have not retired are ever squashed.                         *)
THEOREM Refinement == Spec => ImplementsStoreOrder
  <1>1. Init => Order!Init
    BY DEF Init, Reset, Order!Init, Pending, Retired, Contents
  <1>2. ASSUME IInv, [Next]_vars PROVE [Order!Next]_(Order!vars)
    <2>1. IInv'
      BY <1>2, NextIInv
    <2>2. CASE Next
      BY <1>2, <2>1, <2>2, StepRefines DEF Next
    <2>3. CASE UNCHANGED vars
      BY <2>3 DEF vars, specVars, commitVars, Order!vars, Pending, Retired, Contents
    <2> QED
      BY <1>2, <2>2, <2>3
  <1>3. IInv /\ [Next]_vars => IInv'
    BY NextIInv
  <1> QED
    BY <1>1, <1>2, <1>3, InitIInv, PTL DEF Spec, ImplementsStoreOrder, Order!Spec
=============================================================================
