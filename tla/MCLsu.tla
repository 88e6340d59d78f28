------------------------------- MODULE MCLsu -------------------------------
(***************************************************************************)
(* Configurations of Lsu for TLC.                                          *)
(***************************************************************************)
EXTENDS Lsu

CVA6(entries, loads, rva, kinds, addrs, ni, max) ==
  [NR_SB_ENTRIES |-> entries, NrLoadBufEntries |-> loads, RVA |-> rva, SingleStep |-> FALSE,
   Kinds |-> kinds, Addrs |-> addrs, NonIdempotent |-> ni, MaxInstr |-> max]

(* Stores, atomics and fences among instructions that flush and trap;      *)
(* loads and stores to two granules with two loads in flight; loads around *)
(* misaligned stores in a scoreboard that they do not fill; a scoreboard   *)
(* that fills and wraps again and again.                                   *)
Stores == CVA6(4, 1, TRUE, {"STORE", "STORE_X", "OTHER", "CSR", "AMO", "FENCE"}, {1}, {}, 4)
Loads == CVA6(4, 2, FALSE, {"STORE", "LOAD", "LOAD_X"}, {1, 2}, {}, 4)
Room == CVA6(8, 2, FALSE, {"LOAD", "STORE", "STORE_X"}, {1}, {}, 5)
Wraps == CVA6(2, 1, FALSE, {"LOAD", "STORE", "OTHER"}, {1}, {}, 5)
SafetyConfigs == {Stores, Loads, Room, Wraps}

(* The same in a scoreboard that they do fill.                             *)
Misaligned == {[Room EXCEPT !.NR_SB_ENTRIES = 4, !.MaxInstr = 4]}

(* Devices whose loads are not idempotent; everything that waits.          *)
Devices == CVA6(2, 2, FALSE, {"LOAD", "STORE", "LOAD_X", "TRAP"}, {1}, {1}, 4)
Waits == CVA6(2, 1, TRUE, {"LOAD", "STORE", "AMO", "FENCE", "WFI", "OTHER"}, {1}, {}, 3)
ProgressConfigs == {Devices, Waits}

(* A store stepped by the debugger.                                        *)
Stepped == {[CVA6(4, 2, FALSE, {"STORE", "DRET"}, {1}, {}, 4) EXCEPT !.SingleStep = TRUE]}

=============================================================================
