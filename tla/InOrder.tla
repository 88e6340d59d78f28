------------------------------ MODULE InOrder ------------------------------
(***************************************************************************)
(* What issue stage, scoreboard and commit stage promise together: the     *)
(* register file of a machine that executes one instruction after the      *)
(* other.  An instruction reads its operand from the registers the         *)
(* instruction before it left, and writes its own result.  The result of   *)
(* instruction n is the value n; register 0 is never written.              *)
(***************************************************************************)
EXTENDS Integers, Sequences

CONSTANT Regs               \* register numbers, 0 among them

VARIABLES regs,             \* value of each register: the instruction that wrote it
          next,             \* the instruction to retire next
          retired,          \* the instructions retired in the last step, in order
          flushed           \* the last step discarded the instructions that follow

vars == <<regs, next, retired, flushed>>

Init ==
  /\ regs = [r \in Regs |-> 0]
  /\ next = 1
  /\ retired = <<>>
  /\ flushed = FALSE

(* The registers after instruction i, and what i needs to be right.        *)
Write(r, i) == IF i.rd = 0 THEN r ELSE [r EXCEPT ![i.rd] = i.n]
Fits(r, i, n) == i.n = n /\ i.operand = r[i.rs] /\ ~i.wrong_path

(* A step retires at most two instructions, then may discard the rest.     *)
Retires(s) ==
  /\ retired' = s
  /\ \/ s = <<>> /\ regs' = regs
     \/ /\ Len(s) = 1
        /\ Fits(regs, s[1], next)
        /\ regs' = Write(regs, s[1])
     \/ /\ Len(s) = 2
        /\ Fits(regs, s[1], next)
        /\ Fits(Write(regs, s[1]), s[2], next + 1)
        /\ regs' = Write(Write(regs, s[1]), s[2])

Discards(s) ==
  /\ flushed' \in BOOLEAN
  /\ next' \in Nat /\ next' >= next + Len(s)
  /\ ~flushed' => next' = next + Len(s)

Step == Retires(retired') /\ Discards(retired')
Spec == Init /\ [][Step]_vars

=============================================================================
