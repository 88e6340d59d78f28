------------------------------- MODULE Debug -------------------------------
(***************************************************************************)
(* A debugger, the debug module and the harts of the Spike simulator: the  *)
(* program of the debug ROM (debug_rom.S), entering and leaving debug mode *)
(* and single stepping (processor.cc, execute.cc, insns/dret.h).           *)
(*                                                                         *)
(* One step of a hart is processor_t::step(1): in the ROM step() returns   *)
(* after every instruction, so that the debugger, polled between steps,    *)
(* may act between any two of them.                                        *)
(***************************************************************************)
EXTENDS DebugModule

CONSTANTS
    Debuggers,    \* the debuggers considered, one of which is at work
    Junk,         \* what the ROM's own use of s0 leaves in it
    StepsEbreak   \* a single-stepped instruction may be an ebreak

ASSUME JunkAssumption == Junk \notin Data

\* What a debugger writes to command, dmcontrol, ackhavereset, the data word, the program
\* buffer and abstractauto, whether it follows the protocol and has to authenticate, and a
\* bound on its accesses.
ASSUME DebuggersAssumption ==
    \A d \in Debuggers :
        /\ d.commands \subseteq Command /\ d.controls \subseteq DmControls
        /\ d.acks \subseteq BOOLEAN
        /\ d.data \subseteq Data /\ d.programs \subseteq UserPrograms
        /\ d.autos \subseteq SUBSET {"data", "progbuf"}
        /\ d.careful \in BOOLEAN /\ d.locked \in BOOLEAN /\ d.accesses \in Nat

VARIABLES
    pc, at,               \* place in the program, word of the command
    cause, dpc, step,     \* dcsr.cause, dpc, dcsr.step
    single_step,
    s0, dscratch,
    debugger,             \* the one at work, see Debuggers
    accepted,             \* the command that was accepted last, and its data
    owned,                \* the s0 the program and the debugger gave the hart
    begun,                \* what has executed since debug mode was left to step
    dmis                  \* DMI accesses made that changed anything

hartVars == <<pc, at, cause, dpc, step, single_step, s0, dscratch>>
ghosts == <<debugger, accepted, owned, begun, dmis>>
vars == <<dmVars, hartVars, ghosts>>

Words == Data \union {Junk}
NoWord == [h \in Harts |-> 0]

\* Nothing; nothing but a trap; the instruction the hart was resumed at; the first
\* instruction of the handler of a trap that came before it; more than one.
Steps == {"none", "trapped", "resumed", "handler", "more"}
NoStep == [h \in Harts |-> "none"]

Init ==
    /\ debugger \in Debuggers /\ require_authentication = debugger.locked
    /\ DmInit
    /\ pc = [h \in Harts |-> "program"] /\ at = NoWord
    /\ cause = [h \in Harts |-> "NONE"] /\ dpc = [h \in Harts |-> "program"]
    /\ step = [h \in Harts |-> FALSE] /\ single_step = [h \in Harts |-> "NONE"]
    /\ s0 \in {[h \in Harts |-> d] : d \in Data \ {0}} /\ dscratch = s0
    /\ accepted = [command |-> NoCommand, data |-> dmdata]
    /\ owned = s0 /\ begun = NoStep /\ dmis = 0

-----------------------------------------------------------------------------
careful == debugger.careful

(* The debugger.  A careful one leaves dmcontrol, abstractcs and            *)
(* abstractauto alone while a command runs, asks only halted harts to       *)
(* resume, and waits for them.                                              *)

Resuming == exists /\ "RESUME" \in debug_rom_flags[hartsel]
MayCommand == careful => ~Resuming
MayControl(v) == careful => /\ ~busy
                            /\ v.resumereq => v.hartsel \in Harts /\ halted[v.hartsel]

\* A command this access made the module take, and the data word at that point.
Accept(c, d) ==
    accepted' = IF ~busy /\ busy' THEN [command |-> c, data |-> d] ELSE accepted

\* processor_t::reset() of every hart in hs; halt_request is not part of it.
ResetHarts(hs) ==
    LET Reset(f, v) == [h \in Harts |-> IF h \in hs THEN v ELSE f[h]]
    IN  /\ pc' = Reset(pc, "program") /\ at' = Reset(at, 0)
        /\ cause' = Reset(cause, "NONE") /\ dpc' = Reset(dpc, "program")
        /\ step' = Reset(step, FALSE) /\ single_step' = Reset(single_step, "NONE")
        /\ s0' = Reset(s0, 0) /\ dscratch' = Reset(dscratch, 0)
        /\ owned' = Reset(owned, 0)
        /\ begun' = Reset(begun, "none")

Dmi ==
    /\ dmis < debugger.accesses
    /\ UNCHANGED debugger
    /\ \/ /\ \/ /\ MayCommand
                /\ \/ \E c \in debugger.commands : WriteCommand(c) /\ Accept(c, dmdata)
                   \/ ReadData /\ Accept(command, dmdata)
                   \/ \E d \in debugger.data : WriteData(d) /\ Accept(command, d)
                   \/ ReadProgbuf /\ Accept(command, dmdata)
                   \/ \E p \in debugger.programs : WriteProgbuf(p) /\ Accept(command, dmdata)
             \/ /\ careful => ~busy
                /\ WriteAbstractcs \/ \E a \in debugger.autos : WriteAbstractauto(a)
                /\ UNCHANGED accepted
             \/ /\ ReadDmcontrol \/ \E key \in BOOLEAN : WriteAuthdata(key)
                /\ UNCHANGED accepted
          /\ UNCHANGED <<hartVars, owned, begun>>
       \/ \E v \in debugger.controls, ack \in debugger.acks :
             /\ MayControl(v)
             /\ WriteDmcontrol(v, ack)
             /\ ResetHarts(ResetBy(v))
             /\ UNCHANGED accepted
    /\ dmVars' # dmVars
    /\ dmis' = dmis + 1

-----------------------------------------------------------------------------
(* The harts. *)

\* step() outside debug mode ends in the ROM: saves pc, keeps the cause.
EnterDebugMode(h, why) ==
    /\ cause' = [cause EXCEPT ![h] = why]
    /\ dpc' = [dpc EXCEPT ![h] = pc[h]]
    /\ pc' = [pc EXCEPT ![h] = "entry"]

\* Mutant: the step is forgotten once the instruction has begun.
Stepped_Forgets(s) == "NONE"

\* The slow path's bookkeeping when an instruction is about to execute.
Stepped(s) == CASE s = "STEPPED" -> "NONE" [] s = "STEPPING" -> "STEPPED" [] OTHER -> "NONE"

\* An instruction begins to execute.
Began(b) == CASE b = "none" -> "resumed" [] b = "trapped" -> "handler" [] OTHER -> "more"

\* An instruction of the program, or the halt that comes before it, or its trap.  A
\* trap leads to a handler, which is part of the program.  One that comes before the
\* instruction (its fetch fails, an interrupt is pending) finds single_step as it
\* was, and the first instruction of the handler is then the one that is stepped;
\* one that comes after the stepped instruction enters debug mode, as no trap would.
ProgramStep(h) ==
    /\ cause[h] = "NONE" /\ pc[h] = "program"
    /\ \/ /\ halt_request[h]
          /\ EnterDebugMode(h, "DEBUGINT")
          /\ single_step' = [single_step EXCEPT ![h] = Stepped(@)]
          /\ UNCHANGED begun
       \/ /\ ~halt_request[h] /\ single_step[h] = "STEPPED"
          /\ EnterDebugMode(h, "STEP")
          /\ single_step' = [single_step EXCEPT ![h] = "NONE"]
          /\ UNCHANGED begun
       \/ /\ ~halt_request[h] /\ single_step[h] = "STEPPING"
          /\ begun' = [begun EXCEPT ![h] = "trapped"]
          /\ UNCHANGED <<pc, cause, dpc, single_step>>
       \/ /\ ~halt_request[h] /\ single_step[h] # "STEPPED"
          /\ begun' = [begun EXCEPT ![h] = IF step[h] THEN Began(@) ELSE @]
          /\ \/ /\ single_step' = [single_step EXCEPT ![h] = Stepped(@)]
                /\ UNCHANGED <<pc, cause, dpc>>
             \/ /\ single_step[h] = "STEPPING"                   \* it traps
                /\ EnterDebugMode(h, "STEP")
                /\ single_step' = [single_step EXCEPT ![h] = "NONE"]
    /\ UNCHANGED <<dmVars, at, step, s0, dscratch, debugger, accepted, owned, dmis>>

\* An ebreak of the program, with dcsr.ebreakm set: it traps into debug mode, and
\* when it was being stepped the handler of the trap enters debug mode once more.
Ebreak(h) ==
    /\ cause[h] = "NONE" /\ pc[h] = "program" /\ ~halt_request[h]
    /\ \/ /\ single_step[h] = "NONE"
          /\ EnterDebugMode(h, "SWBP")
          /\ UNCHANGED single_step
       \/ /\ StepsEbreak /\ single_step[h] = "STEPPING"
          /\ cause' = [cause EXCEPT ![h] = "STEP"]
          /\ dpc' = [dpc EXCEPT ![h] = "entry"]
          /\ pc' = [pc EXCEPT ![h] = "entry"]
          /\ single_step' = [single_step EXCEPT ![h] = "NONE"]
    /\ UNCHANGED <<dmVars, at, step, s0, dscratch, ghosts>>

\* One instruction of the ROM loop that changes only the hart.
Local(h, from, to, value, scratch) ==
    /\ pc[h] = from
    /\ pc' = [pc EXCEPT ![h] = to]
    /\ s0' = [s0 EXCEPT ![h] = value]
    /\ dscratch' = [dscratch EXCEPT ![h] = scratch]
    /\ UNCHANGED <<dmVars, at, cause, dpc, step>>

Entry(h) == Local(h, "entry", "loop", s0[h], s0[h])

\* entry_loop: tell the module this hart is halted, then look at its two flags.
TellHalted(h) ==
    /\ pc[h] = "loop"
    /\ StoreHalted(h)
    /\ pc' = [pc EXCEPT ![h] = "test_go"]
    /\ s0' = [s0 EXCEPT ![h] = Junk]
    /\ UNCHANGED <<at, cause, dpc, step, dscratch>>

\* Mutant: a hart that has no command does not look for a resume request.
TestGo_OnlyGo(h) ==
    LET to == IF "GO" \in debug_rom_flags[h] THEN "going" ELSE "loop"
    IN  Local(h, "test_go", to, Junk, dscratch[h])

TestGo(h) ==
    LET to == IF "GO" \in debug_rom_flags[h] THEN "going" ELSE "test_resume"
    IN  Local(h, "test_go", to, Junk, dscratch[h])

TestResume(h) ==
    LET to == IF "RESUME" \in debug_rom_flags[h] THEN "resume" ELSE "loop"
    IN  Local(h, "test_resume", to, Junk, dscratch[h])

\* Mutant: the command runs with the ROM's s0.
Going_KeepsS0(h) ==
    /\ pc[h] = "going"
    /\ StoreGoing
    /\ pc' = [pc EXCEPT ![h] = "abstract"]
    /\ at' = [at EXCEPT ![h] = 1]
    /\ UNCHANGED <<cause, dpc, step, s0, dscratch>>

Going(h) ==
    /\ pc[h] = "going"
    /\ StoreGoing
    /\ pc' = [pc EXCEPT ![h] = "abstract"]
    /\ at' = [at EXCEPT ![h] = 1]
    /\ s0' = [s0 EXCEPT ![h] = dscratch[h]]
    /\ UNCHANGED <<cause, dpc, step, dscratch>>

Resume(h) ==
    /\ pc[h] = "resume"
    /\ StoreResuming(h)
    /\ pc' = [pc EXCEPT ![h] = "dret"]
    /\ s0' = [s0 EXCEPT ![h] = dscratch[h]]
    /\ UNCHANGED <<at, cause, dpc, step, dscratch>>

\* _exception: report it, then the ebreak after it leads back to the entry.
Exception(h) ==
    /\ pc[h] = "exception"
    /\ StoreException
    /\ pc' = [pc EXCEPT ![h] = "entry"]
    /\ UNCHANGED <<at, cause, dpc, step, s0, dscratch>>

RomStep(h) ==
    /\ \/ Entry(h) \/ TellHalted(h) \/ TestGo(h) \/ TestResume(h)
       \/ Going(h) \/ Resume(h) \/ Exception(h)
    /\ single_step' = [single_step EXCEPT ![h] = Stepped(@)]
    /\ UNCHANGED ghosts

Dret(h) ==
    /\ pc[h] = "dret"
    /\ pc' = [pc EXCEPT ![h] = dpc[h]]
    /\ cause' = [cause EXCEPT ![h] = "NONE"]
    /\ single_step' = [single_step EXCEPT ![h] = IF step[h] THEN "STEPPING" ELSE "NONE"]
    /\ begun' = [begun EXCEPT ![h] = "none"]
    /\ UNCHANGED <<dmVars, at, dpc, step, s0, dscratch, debugger, accepted, owned, dmis>>

\* One word of the command in debug_abstract.  The CSR it names is dcsr, of which
\* step is modelled; a CSR that does not exist raises an exception, and so does an
\* access to an FPR that does not or is switched off.  Between the load of s0 and the
\* restore such an exception leaves the data word in s0.
Fault(h) ==
    /\ pc' = [pc EXCEPT ![h] = "exception"]
    /\ UNCHANGED <<dmVars, at, step, s0, dscratch, owned>>

Word(h, op) ==
    LET c == accepted.command
        Go(label, i) == pc' = [pc EXCEPT ![h] = label] /\ at' = [at EXCEPT ![h] = i]
        Next1 == Go("abstract", at[h] + 1)
    IN  \/ /\ op = "save" /\ Next1
           /\ dscratch' = [dscratch EXCEPT ![h] = s0[h]]
           /\ UNCHANGED <<dmVars, step, s0, owned>>
        \/ /\ op = "restore" /\ Next1
           /\ s0' = [s0 EXCEPT ![h] = dscratch[h]]
           /\ UNCHANGED <<dmVars, step, dscratch, owned>>
        \/ /\ op = "ld" /\ Next1
           /\ s0' = [s0 EXCEPT ![h] = dmdata]
           /\ owned' = IF c.reg = "S0" THEN [owned EXCEPT ![h] = dmdata] ELSE owned
           /\ UNCHANGED <<dmVars, step, dscratch>>
        \/ /\ op = "st" /\ Next1
           /\ StoreData(s0[h])
           /\ UNCHANGED <<step, s0, dscratch, owned>>
        \/ /\ op = "csrw" /\ c.reg = "CSR" /\ Next1
           /\ step' = [step EXCEPT ![h] = s0[h] = 1]
           /\ UNCHANGED <<dmVars, s0, dscratch, owned>>
        \/ /\ op = "csrr" /\ c.reg = "CSR" /\ Next1
           /\ s0' = [s0 EXCEPT ![h] = IF step[h] THEN 1 ELSE 0]
           /\ UNCHANGED <<dmVars, step, dscratch, owned>>
        \/ /\ op \in {"csrw", "csrr"} /\ c.reg = "BADCSR" /\ Fault(h)
        \/ op \in {"float", "zero"} /\ Fault(h)
        \/ /\ op = "float" /\ Next1
           /\ IF c.write THEN UNCHANGED dmVars ELSE \E d \in Data : StoreData(d)
           /\ UNCHANGED <<step, s0, dscratch, owned>>
        \/ /\ op = "jal" /\ Go("progbuf", 0)
           /\ UNCHANGED <<dmVars, step, s0, dscratch, owned>>
        \/ /\ op = "ebreak" /\ Go("entry", 0)
           /\ UNCHANGED <<dmVars, step, s0, dscratch, owned>>

\* The words that were never written are zeros.
WordAt(i) == IF i \in DOMAIN debug_abstract THEN debug_abstract[i] ELSE "zero"

\* One word of a command, or the program buffer, which ends in an implicit ebreak.
CommandStep(h) ==
    /\ \/ pc[h] = "abstract" /\ Word(h, WordAt(at[h]))
       \/ pc[h] = "progbuf" /\ program_buffer = "fault" /\ Fault(h)
       \/ /\ pc[h] = "progbuf" /\ program_buffer = "nop"
          /\ pc' = [pc EXCEPT ![h] = "entry"]
          /\ UNCHANGED <<dmVars, at, step, s0, dscratch, owned>>
    /\ single_step' = [single_step EXCEPT ![h] = Stepped(@)]
    /\ UNCHANGED <<cause, dpc, debugger, accepted, begun, dmis>>

Hart(h) == ProgramStep(h) \/ Ebreak(h) \/ RomStep(h) \/ Dret(h) \/ CommandStep(h)

Next == Dmi \/ \E h \in Harts : Hart(h)

Spec == Init /\ [][Next]_vars

\* sim_t::step() gives every hart its turn, and a hart executes in its turn.
FairSpec == Spec /\ \A h \in Harts : WF_vars(Hart(h))

-----------------------------------------------------------------------------
(* Properties. *)

\* Where a hart is while it executes a command.
Executing(h) == pc[h] \in {"going", "abstract", "progbuf", "exception"}

Labels == {"program", "entry", "loop", "test_go", "test_resume", "going",
           "abstract", "progbuf", "exception", "resume", "dret"}

\* The module's registers and the harts' have the values they are declared for: in
\* particular the ROM's own use of s0 never reaches the data word.
DebugTypeOK ==
    /\ TypeOK
    /\ pc \in [Harts -> Labels] /\ at \in [Harts -> 0..6]
    /\ cause \in [Harts -> {"NONE", "SWBP", "DEBUGINT", "STEP"}]
    /\ dpc \in [Harts -> Labels]
    /\ step \in [Harts -> BOOLEAN]
    /\ single_step \in [Harts -> {"NONE", "STEPPING", "STEPPED"}]
    /\ s0 \in [Harts -> Words] /\ dscratch \in [Harts -> Words] /\ owned \in [Harts -> Data]
    /\ begun \in [Harts -> Steps]

\* When a hart is resumed it goes back to the program it was taken from: the debugger
\* does not lose the place (the debug_defines.h text on dcsr.step and dcsr.cause).
ReturnsToProgram == \A h \in Harts : dpc[h] = "program"

\* dmstatus never says halted of a hart that executes its program, whatever the
\* debugger does to the module, to hartsel or to the reset lines meanwhile.
HaltedHartsAreInDebugMode ==
    \A h \in Harts : halted[h] => cause[h] # "NONE" /\ pc[h] \notin {"program", "dret"}

\* A resume request that is still pending is not acknowledged yet.
AckFollowsResume ==
    \A h \in Harts : "RESUME" \in debug_rom_flags[h] => ~resumeack[h]

\* busy means the selected hart has the command still to run, or is running it;
\* when it is clear no hart runs one: for a debugger that follows the protocol.
BusyWhileCommandRuns ==
    careful =>
        /\ busy => /\ exists /\ halted[hartsel]
                   /\ \/ "GO" \in debug_rom_flags[hartsel]
                      \/ Executing(hartsel) \/ pc[hartsel] \in {"entry", "loop"}
        /\ \A h \in Harts : ("GO" \in debug_rom_flags[h] \/ Executing(h)) => busy /\ h = hartsel

\* A write to a CSR that does not exist loses the program's s0: the ROM keeps what
\* the command had loaded there.  Debuggers that never make one:
SparesS0 == \A c \in debugger.commands : c.reg = "BADCSR" => ~c.write

\* The ROM, which uses s0 for itself, and the commands it runs, those that raise an
\* exception too, give the program back its s0, and each command finds it in s0, for
\* a debugger that follows the protocol (another may have the words of a command
\* replaced while a hart runs them) and writes no CSR that does not exist.
S0Preserved ==
    careful /\ SparesS0 => \A h \in Harts :
        /\ pc[h] \in {"program", "entry", "dret", "progbuf", "exception"} => s0[h] = owned[h]
        /\ pc[h] \in {"loop", "test_go", "test_resume", "going", "resume"} => dscratch[h] = owned[h]

\* What the command accepted last asks for: that what it names has the value of the
\* data word it was given, or that the data word has the value.  The hart is back in
\* the ROM, which holds s0 in dscratch.
Effect ==
    LET c == accepted.command
    IN  /\ c.reg # "BADCSR"
        /\ c.reg = "S0" => IF c.write THEN dscratch[hartsel] = accepted.data
                                      ELSE dmdata = dscratch[hartsel]
        /\ c.reg = "CSR" => IF c.write THEN step[hartsel] <=> accepted.data = 1
                                       ELSE dmdata = IF step[hartsel] THEN 1 ELSE 0

\* When busy falls with no error the command has had its effect.
CommandsTakeEffect ==
    [][careful /\ busy /\ ~busy' /\ cmderr' = "NONE" => Effect']_vars

\* An access of a debugger that has not authenticated halts and resumes no hart and
\* starts no command; setting dmactive, which takes the halt requests back, may not
\* either, and a module that is set up again asks for the key again.  (abstractauto
\* is not part of what is locked: a command that it repeats is left aside.)
LeavesHarts ==
    /\ \A h \in Harts : halt_request'[h] => halt_request[h]
    /\ UNCHANGED <<debug_rom_flags, halted, resumeack, hartVars>>

LockedModuleLeavesHarts ==
    [][dmis' # dmis /\ ~authenticated' /\ abstractauto = {} => LeavesHarts]_vars

\* A hart resumed with dcsr.step set executes one instruction and halts again,
\* trap or no trap: the one it was resumed at, or the first one of the handler when
\* a trap comes before it (debug_defines.h:268 asks it to halt before that one).
SingleStepExecutesOne ==
    \A h \in Harts :
        /\ cause[h] = "STEP" => begun[h] \in {"resumed", "handler"}
        /\ step[h] /\ cause[h] = "NONE" => begun[h] # "more"

\* An accepted command finishes, and a halted hart that was asked to resume does.
CommandsFinish == careful /\ busy ~> ~busy
ResumesWhenAsked ==
    \A h \in Harts : careful /\ halted[h] /\ "RESUME" \in debug_rom_flags[h]
                        ~> resumeack[h] \/ ~halted[h]

=============================================================================
