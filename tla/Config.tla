------------------------------- MODULE Config -------------------------------
(***************************************************************************)
(* CVA6Cfg: the parameters that every module of the core is instantiated   *)
(* with (core/include/build_config_pkg.sv), and with them the mix of       *)
(* instructions of the program it runs.  A behaviour has one               *)
(* configuration, chosen among Configs and never changed.                  *)
(***************************************************************************)
CONSTANT Configs            \* records: each module names the fields it reads

ASSUME ConfigsAssumption == Configs # {}

VARIABLE config             \* CVA6Cfg

Elaborated == config \in Configs
Fixed == config' = config

=============================================================================
