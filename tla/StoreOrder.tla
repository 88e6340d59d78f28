----------------------------- MODULE StoreOrder -----------------------------
(***************************************************************************)
(* What the store path of the core promises to the program, with no queue, *)
(* pointer or clock in it.  A store is first pending (executed, but an     *)
(* older instruction may still trap), then retired (its instruction has    *)
(* committed: "the store will definitely happen", core/store_buffer.sv),   *)
(* then written (the data cache took it).  Stores retire and are written   *)
(* in program order, and only pending stores can be squashed.              *)
(***************************************************************************)
EXTENDS Naturals, Sequences

CONSTANT Stores             \* the dynamic stores of the program

VARIABLES pending, retired, written

vars == <<pending, retired, written>>

Init ==
  /\ pending = <<>>
  /\ retired = <<>>
  /\ written = <<>>

----------------------------------------------------------------------------
(* One clock edge may do several of these at once, in this order.          *)

AfterRetire(retire) == IF retire THEN Tail(pending) ELSE pending
AfterDrain(drain)   == IF drain THEN Tail(retired) ELSE retired

Step(retire, squash, drain) ==
  /\ retire => pending # <<>>
  /\ drain => retired # <<>>
  /\ \/ pending' = AfterRetire(retire)
     \/ \E s \in Stores : pending' = Append(AfterRetire(retire), s)
     \/ squash /\ pending' = <<>>
  /\ retired' = IF retire THEN Append(AfterDrain(drain), Head(pending))
                          ELSE AfterDrain(drain)
  /\ written' = IF drain THEN Append(written, Head(retired)) ELSE written

Next == \E retire, squash, drain \in BOOLEAN : Step(retire, squash, drain)

Drain == \E retire, squash \in BOOLEAN : Step(retire, squash, TRUE)

Spec == Init /\ [][Next]_vars

(* A memory system that keeps taking stores writes every retired store.    *)
FairSpec == Spec /\ WF_vars(Drain)

=============================================================================
