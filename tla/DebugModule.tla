---------------------------- MODULE DebugModule ----------------------------
(***************************************************************************)
(* The debug module of the Spike simulator (riscv-isa-sim/riscv,           *)
(* debug_module.cc): the registers a debugger reaches through the DMI, and *)
(* the flags, program words and mailbox addresses the debug ROM of each    *)
(* hart reaches through the bus.  A step of a hart and a DMI access are    *)
(* atomic: both run on the simulator's one target thread.                  *)
(***************************************************************************)
EXTENDS Naturals, Sequences

CONSTANTS
    Harts,                   \* the processors of the simulator
    HartSels,                \* the values of hartsel, existing harts or not
    progbufsize,             \* program buffer words
    Data,                    \* the values of a data word
    UserPrograms             \* what a program buffer word can hold

ASSUME HartsAssumption ==
    /\ Harts \subseteq HartSels /\ 0 \in Harts
    /\ progbufsize \in Nat \ {0}
    /\ {0, 1} \subseteq Data /\ "fault" \in UserPrograms

VARIABLES
    require_authentication,        \* an option of the simulator, never changed
    halted, resumeack, havereset,  \* one flag for each value of hartsel
    debug_rom_flags,               \* hartsel -> subset of {"GO", "RESUME"}
    dmcontrol, authenticated,
    busy, cmderr,                  \* abstractcs
    abstractauto, command,
    dmdata, program_buffer, debug_abstract, custom_base,
    halt_request                   \* processor_t::halt_request

dmControls == <<require_authentication, dmcontrol, authenticated, abstractauto, command>>
dmMemory == <<dmdata, program_buffer, debug_abstract, custom_base>>
dmHarts == <<halted, resumeack, havereset, debug_rom_flags, halt_request>>
dmVars == <<dmControls, dmMemory, dmHarts, busy, cmderr>>

-----------------------------------------------------------------------------
(* Registers. *)

\* What a debugger writes to dmcontrol, ackhavereset apart.
DmControls == [haltreq : BOOLEAN, resumereq : BOOLEAN, hartreset : BOOLEAN,
               ndmreset : BOOLEAN, dmactive : BOOLEAN, hartsel : HartSels]

ZeroControl == [haltreq |-> FALSE, resumereq |-> FALSE, hartreset |-> FALSE,
                ndmreset |-> FALSE, dmactive |-> FALSE, hartsel |-> 0]

CmdErrs == {"NONE", "BUSY", "NOTSUP", "EXCEPTION", "HALTRESUME"}

\* A command: the register it names, "NONE" when the transfer bit is clear and
\* "OTHER" for a command type other than register access.
Registers == {"S0", "FPR", "CSR", "BADCSR", "CUSTOM", "UNKNOWN", "NONE", "OTHER"}
Command == [reg : Registers, write : BOOLEAN, sized : BOOLEAN, postexec : BOOLEAN]

\* The instructions of a command in debug_abstract.
AbstractWords == {"save", "restore", "ld", "st", "csrw", "csrr", "float", "jal", "ebreak"}

hartsel == dmcontrol.hartsel
exists == hartsel \in Harts            \* current_proc() is not NULL

TypeOK ==
    /\ require_authentication \in BOOLEAN
    /\ halted \in [HartSels -> BOOLEAN]
    /\ resumeack \in [HartSels -> BOOLEAN]
    /\ havereset \in [HartSels -> BOOLEAN]
    /\ debug_rom_flags \in [HartSels -> SUBSET {"GO", "RESUME"}]
    /\ dmcontrol \in DmControls
    /\ authenticated \in BOOLEAN
    /\ busy \in BOOLEAN
    /\ cmderr \in CmdErrs
    /\ abstractauto \in SUBSET {"data", "progbuf"}
    /\ command \in Command
    /\ dmdata \in Data
    /\ program_buffer \in UserPrograms
    /\ debug_abstract \in Seq(AbstractWords)
    /\ custom_base \in Data
    /\ halt_request \in [Harts -> BOOLEAN]

NoCommand == [reg |-> "NONE", write |-> FALSE, sized |-> FALSE, postexec |-> FALSE]

\* The constructors, of which those of the harts reset the hart, then reset(): no
\* debugger has set dmactive yet.
DmInit ==
    /\ halted = [h \in HartSels |-> FALSE]
    /\ resumeack = [h \in HartSels |-> FALSE]
    /\ havereset = [h \in HartSels |-> h \in Harts]
    /\ debug_rom_flags = [h \in HartSels |-> {}]
    /\ dmcontrol = ZeroControl
    /\ authenticated = ~require_authentication
    /\ busy = FALSE /\ cmderr = "NONE"
    /\ abstractauto = {} /\ command = NoCommand
    /\ dmdata = 0 /\ custom_base = 0
    /\ program_buffer = "fault" /\ debug_abstract = <<>>    \* words of zeros
    /\ halt_request = [h \in Harts |-> FALSE]

-----------------------------------------------------------------------------
(* Abstract commands. *)

\* Mutants: s0 is not restored; the CSR is stored before it is read.
Access_NoRestore(c) ==
    CASE c.reg \in {"CSR", "BADCSR"} -> <<"save", "ld", "csrw">>
      [] c.reg = "S0" -> IF c.write THEN <<"ld">> ELSE <<"st">>
      [] OTHER -> <<>>
Access_StoresFirst(c) ==
    CASE c.reg \in {"CSR", "BADCSR"} /\ c.write -> <<"save", "ld", "csrw", "restore">>
      [] c.reg \in {"CSR", "BADCSR"} /\ ~c.write -> <<"save", "st", "csrr", "restore">>
      [] c.reg = "S0" -> IF c.write THEN <<"ld">> ELSE <<"st">>
      [] OTHER -> <<>>

\* The words written to debug_abstract: CSRs go through s0, saved in dscratch.
Access(c) ==
    CASE c.reg \in {"CSR", "BADCSR"} /\ c.write -> <<"save", "ld", "csrw", "restore">>
      [] c.reg \in {"CSR", "BADCSR"} /\ ~c.write -> <<"save", "csrr", "st", "restore">>
      [] c.reg = "S0" -> IF c.write THEN <<"ld">> ELSE <<"st">>
      [] c.reg = "FPR" -> <<"float">>
      [] OTHER -> <<>>

Supported(c) ==
    CASE c.reg \in {"CSR", "BADCSR"} -> progbufsize < 2 /\ c.sized
      [] c.reg \in {"S0", "FPR"} -> c.sized
      [] c.reg \in {"CUSTOM", "NONE"} -> TRUE
      [] OTHER -> FALSE

\* The words of debug_abstract after the first ones are written.
Overwrite(words) ==
    words \o SubSeq(debug_abstract, Len(words) + 1, Len(debug_abstract))

\* The words it has written when it finds that it does not support command c.
Begun(c) ==
    CASE c.reg \notin {"CSR", "BADCSR"} \/ progbufsize >= 2 -> <<>>
      [] c.reg \in {"CSR", "BADCSR"} /\ progbufsize < 2 ->
            IF c.write THEN <<"save">> ELSE <<"save", "csrr">>

\* What perform_abstract_command() answers to command c, "NONE" when it takes it.
Refusal(c) ==
    CASE cmderr # "NONE" -> cmderr
      [] cmderr = "NONE" /\ busy -> "BUSY"
      [] cmderr = "NONE" /\ ~busy /\ c.reg # "OTHER" /\ ~halted[hartsel] -> "HALTRESUME"
      [] cmderr = "NONE" /\ ~busy /\ (c.reg = "OTHER" \/ (halted[hartsel] /\ ~Supported(c))) -> "NOTSUP"
      [] OTHER -> "NONE"

\* perform_abstract_command(), for a command c and the data word d at its call.
PerformAbstractCommand(c, d) ==
    \/ /\ Refusal(c) # "NONE"
       /\ cmderr' = Refusal(c)
       /\ dmdata' = d
       /\ debug_abstract' = IF cmderr = "NONE" /\ Refusal(c) = "NOTSUP"
                            THEN Overwrite(Begun(c)) ELSE debug_abstract
       /\ UNCHANGED <<busy, debug_rom_flags, custom_base>>
    \/ /\ Refusal(c) = "NONE" /\ c.reg = "CUSTOM"
       /\ custom_base' = IF c.write THEN d ELSE custom_base
       /\ dmdata' = custom_base'
       /\ UNCHANGED <<busy, cmderr, debug_rom_flags, debug_abstract>>
    \/ /\ Refusal(c) = "NONE" /\ c.reg # "CUSTOM"
       /\ debug_abstract' = Overwrite(Append(Access(c), IF c.postexec THEN "jal" ELSE "ebreak"))
       /\ debug_rom_flags' = [debug_rom_flags EXCEPT ![hartsel] = @ \union {"GO"}]
       /\ busy' = TRUE
       /\ dmdata' = d
       /\ UNCHANGED <<cmderr, custom_base>>

-----------------------------------------------------------------------------
(* The debug module interface. *)

WriteCommand(c) ==
    /\ authenticated
    /\ command' = c
    /\ PerformAbstractCommand(c, dmdata)
    /\ UNCHANGED <<require_authentication, dmcontrol, authenticated, abstractauto,
                   program_buffer, halted, resumeack, havereset, halt_request>>

\* An access to data0 with the value it leaves there when no command runs.
TouchData(d) ==
    /\ \/ /\ busy
          /\ cmderr' = IF cmderr = "NONE" THEN "BUSY" ELSE cmderr
          /\ UNCHANGED <<dmdata, busy, debug_rom_flags, debug_abstract, custom_base>>
       \/ /\ ~busy /\ "data" \in abstractauto
          /\ PerformAbstractCommand(command, d)
       \/ /\ ~busy /\ "data" \notin abstractauto
          /\ dmdata' = d
          /\ UNCHANGED <<busy, cmderr, debug_rom_flags, debug_abstract, custom_base>>
    /\ UNCHANGED <<dmControls, program_buffer, halted, resumeack, havereset, halt_request>>

ReadData == TouchData(dmdata)
WriteData(d) == authenticated /\ TouchData(d)

\* An access to the program buffer: while busy it is dropped, and no error says so.
TouchProgbuf(p) ==
    /\ program_buffer' = IF busy THEN program_buffer ELSE p
    /\ IF ~busy /\ "progbuf" \in abstractauto
       THEN PerformAbstractCommand(command, dmdata)
       ELSE UNCHANGED <<dmdata, busy, cmderr, debug_rom_flags, debug_abstract, custom_base>>
    /\ UNCHANGED <<dmControls, halted, resumeack, havereset, halt_request>>

ReadProgbuf == TouchProgbuf(program_buffer)
WriteProgbuf(p) == authenticated /\ TouchProgbuf(p)

\* Writing ones to cmderr, as a debugger that acknowledges an error does.
WriteAbstractcs ==
    /\ authenticated
    /\ cmderr' = "NONE"
    /\ UNCHANGED <<dmControls, dmMemory, dmHarts, busy>>

WriteAbstractauto(s) ==
    /\ authenticated
    /\ abstractauto' = s
    /\ UNCHANGED <<require_authentication, dmcontrol, authenticated, command,
                   dmMemory, dmHarts, busy, cmderr>>

\* The key is the challenge plus one; a wrong one draws a new challenge.
WriteAuthdata(key) ==
    /\ authenticated' = IF require_authentication THEN key ELSE authenticated
    /\ UNCHANGED <<require_authentication, dmcontrol, abstractauto, command,
                   dmMemory, dmHarts, busy, cmderr>>

\* Reading dmcontrol refreshes haltreq from the selected processor.
ReadDmcontrol ==
    /\ dmcontrol' = IF exists THEN [dmcontrol EXCEPT !.haltreq = halt_request[hartsel]]
                              ELSE dmcontrol
    /\ UNCHANGED <<require_authentication, authenticated, abstractauto, command,
                   dmMemory, dmHarts, busy, cmderr>>

\* The first half of a write to dmcontrol: setting dmactive resets the module.
Activates(v) == ~dmcontrol.dmactive /\ v.dmactive
AuthenticatedAfter(v) == IF Activates(v) THEN ~require_authentication ELSE authenticated

\* The rest of the write is ignored until the debugger has authenticated.
Heard_Always(v) == TRUE   \* mutant: the locked module obeys
Heard(v) == AuthenticatedAfter(v)

ControlAfter(v) ==
    LET old == IF Activates(v) THEN ZeroControl ELSE dmcontrol
    IN  IF Heard(v) /\ v.dmactive THEN v ELSE [old EXCEPT !.dmactive = v.dmactive]

\* The harts a write to dmcontrol resets, each through processor_t::reset().
ResetBy(v) ==
    LET new == ControlAfter(v)
    IN  IF ~Heard(v) THEN {}
        ELSE IF new.ndmreset THEN Harts
        ELSE IF new.hartreset THEN {new.hartsel} \intersect Harts
        ELSE {}

WriteDmcontrol(v, ackhavereset) ==
    LET new    == ControlAfter(v)
        sel    == new.hartsel
        proc   == Heard(v) /\ sel \in Harts
        resume == proc /\ new.resumereq
        acked  == Heard(v) /\ v.dmactive /\ ackhavereset
    IN  /\ dmcontrol' = new
        /\ authenticated' = AuthenticatedAfter(v)
        /\ busy' = (busy /\ ~Activates(v))
        /\ cmderr' = IF Activates(v) THEN "NONE" ELSE cmderr
        /\ abstractauto' = IF Activates(v) THEN {} ELSE abstractauto
        /\ halt_request' = [h \in Harts |-> IF proc /\ h = sel THEN new.haltreq
                                            ELSE halt_request[h] /\ ~Activates(v)]
        /\ debug_rom_flags' = IF resume THEN [debug_rom_flags EXCEPT ![sel] = @ \union {"RESUME"}]
                                        ELSE debug_rom_flags
        /\ resumeack' = IF resume THEN [resumeack EXCEPT ![sel] = FALSE] ELSE resumeack
        /\ havereset' = [h \in HartSels |->
                            h \in ResetBy(v) \/ (havereset[h] /\ ~(acked /\ h = sel))]
        /\ halted' = [h \in HartSels |-> halted[h] /\ h \notin ResetBy(v)]
        /\ UNCHANGED <<require_authentication, command, dmMemory>>

-----------------------------------------------------------------------------
(* The mailbox addresses of the debug ROM, stored to by hart h. *)

\* Mutant: busy falls before the hart has seen GO.
StoreHalted_IgnoresGo(h) ==
    /\ halted' = [halted EXCEPT ![h] = TRUE]
    /\ busy' = (busy /\ hartsel # h)
    /\ UNCHANGED <<dmControls, dmMemory, resumeack, havereset, debug_rom_flags, halt_request, cmderr>>

StoreHalted(h) ==
    /\ halted' = [halted EXCEPT ![h] = TRUE]
    /\ busy' = (busy /\ ~(hartsel = h /\ "GO" \notin debug_rom_flags[h]))
    /\ UNCHANGED <<dmControls, dmMemory, resumeack, havereset, debug_rom_flags, halt_request, cmderr>>

\* Mutant: the command runs again and again.
StoreGoing_KeepsGo == UNCHANGED dmVars

\* The GO flag that is cleared is the selected hart's, whichever hart stores.
StoreGoing ==
    /\ debug_rom_flags' = [debug_rom_flags EXCEPT ![hartsel] = @ \ {"GO"}]
    /\ UNCHANGED <<dmControls, dmMemory, halted, resumeack, havereset, halt_request, busy, cmderr>>

\* Mutants: the hart stays halted for the debugger; the request outlives its answer.
StoreResuming_StaysHalted(h) ==
    /\ resumeack' = [resumeack EXCEPT ![h] = TRUE]
    /\ debug_rom_flags' = [debug_rom_flags EXCEPT ![h] = @ \ {"RESUME"}]
    /\ UNCHANGED <<dmControls, dmMemory, halted, havereset, halt_request, busy, cmderr>>
StoreResuming_KeepsRequest(h) ==
    /\ halted' = [halted EXCEPT ![h] = FALSE]
    /\ resumeack' = [resumeack EXCEPT ![h] = TRUE]
    /\ UNCHANGED <<dmControls, dmMemory, havereset, debug_rom_flags, halt_request, busy, cmderr>>

StoreResuming(h) ==
    /\ halted' = [halted EXCEPT ![h] = FALSE]
    /\ resumeack' = [resumeack EXCEPT ![h] = TRUE]
    /\ debug_rom_flags' = [debug_rom_flags EXCEPT ![h] = @ \ {"RESUME"}]
    /\ UNCHANGED <<dmControls, dmMemory, havereset, halt_request, busy, cmderr>>

StoreException ==
    /\ cmderr' = IF cmderr = "NONE" THEN "EXCEPTION" ELSE cmderr
    /\ UNCHANGED <<dmControls, dmMemory, dmHarts, busy>>

\* A store to the data word, by the hart that runs a command.
StoreData(d) ==
    /\ dmdata' = d
    /\ UNCHANGED <<dmControls, program_buffer, debug_abstract, custom_base, dmHarts, busy, cmderr>>

=============================================================================
