----------------------------- MODULE DebugProofs -----------------------------
(***************************************************************************)
(* Theorems about Debug, for any number of harts, any values of the data   *)
(* word, and any debugger, careful or not.                                 *)
(***************************************************************************)
EXTENDS Debug, SequenceTheorems, TLAPS

USE HartsAssumption

-----------------------------------------------------------------------------
(* What the accesses of a debugger may change.  All but a write to         *)
(* dmcontrol leave the harts alone, and set no flag but GO.                *)

FlagsType == debug_rom_flags \in [HartSels -> SUBSET {"GO", "RESUME"}]

ControlType ==
    /\ debugger \in Debuggers
    /\ dmcontrol \in DmControls
    /\ halt_request \in [Harts -> BOOLEAN]

SameRequests ==
    /\ FlagsType'
    /\ \A h \in HartSels : "RESUME" \in debug_rom_flags'[h] <=> "RESUME" \in debug_rom_flags[h]

QuietAccess ==
    /\ SameRequests
    /\ UNCHANGED <<hartVars, owned, begun, halted, resumeack, halt_request>>
    /\ ControlType'

LEMMA PerformSetsOnlyGo ==
  ASSUME FlagsType, ControlType, NEW c, NEW d, PerformAbstractCommand(c, d)
  PROVE  SameRequests
<1>1. CASE UNCHANGED debug_rom_flags
  BY <1>1 DEF SameRequests, FlagsType
<1>2. CASE debug_rom_flags' = [debug_rom_flags EXCEPT ![hartsel] = @ \union {"GO"}]
  <2>1. hartsel \in HartSels
    BY DEF hartsel, DmControls, ControlType
  <2> QED
    BY <1>2, <2>1 DEF SameRequests, FlagsType
<1> QED
  BY <1>1, <1>2 DEF PerformAbstractCommand

LEMMA TouchSetsOnlyGo ==
  ASSUME FlagsType, ControlType, NEW d, TouchData(d) \/ TouchProgbuf(d)
  PROVE  SameRequests
<1>1. CASE UNCHANGED debug_rom_flags
  BY <1>1 DEF SameRequests, FlagsType
<1>2. CASE \E e : PerformAbstractCommand(command, e)
  BY <1>2, PerformSetsOnlyGo
<1> QED
  BY <1>1, <1>2 DEF TouchData, TouchProgbuf

LEMMA DmiIsQuietOrControl ==
  ASSUME FlagsType, ControlType, Dmi
  PROVE  \/ QuietAccess
         \/ \E v \in DmControls, ack \in BOOLEAN :
               /\ WriteDmcontrol(v, ack) /\ ResetHarts(ResetBy(v))
               /\ UNCHANGED debugger
<1>1. debugger' = debugger
  BY DEF Dmi
<1>2. CASE \E v \in debugger.controls, ack \in debugger.acks :
              WriteDmcontrol(v, ack) /\ ResetHarts(ResetBy(v))
  BY <1>1, <1>2, DebuggersAssumption DEF ControlType
<1>3. ASSUME UNCHANGED <<hartVars, owned, begun>>,
             \/ \E c : WriteCommand(c)
             \/ ReadData \/ \E d : WriteData(d)
             \/ ReadProgbuf \/ \E p : WriteProgbuf(p)
      PROVE  QuietAccess
  <2>1. CASE \E c : WriteCommand(c)
    BY <1>1, <1>3, <2>1, PerformSetsOnlyGo DEF WriteCommand, QuietAccess, ControlType
  <2>2. CASE \E d : TouchData(d) \/ TouchProgbuf(d)
    BY <1>1, <1>3, <2>2, TouchSetsOnlyGo DEF TouchData, TouchProgbuf, QuietAccess, ControlType, dmControls
  <2> QED
    BY <1>3, <2>1, <2>2 DEF ReadData, WriteData, ReadProgbuf, WriteProgbuf
<1>4. ASSUME UNCHANGED <<hartVars, owned, begun>>,
             \/ WriteAbstractcs \/ \E a : WriteAbstractauto(a)
             \/ \E key \in BOOLEAN : WriteAuthdata(key)
      PROVE  QuietAccess
  <2>1. UNCHANGED <<dmHarts, dmcontrol>>
    BY <1>4 DEF WriteAbstractcs, WriteAbstractauto, WriteAuthdata, dmControls
  <2> QED
    BY <1>1, <1>4, <2>1 DEF QuietAccess, ControlType, SameRequests, FlagsType, dmHarts
<1>5. ASSUME UNCHANGED <<hartVars, owned, begun>>, ReadDmcontrol
      PROVE  QuietAccess
  <2>1. UNCHANGED dmHarts
    BY <1>5 DEF ReadDmcontrol
  <2>2. dmcontrol' \in DmControls
    <3>1. CASE exists
      <4>1. halt_request[hartsel] \in BOOLEAN
        BY <3>1 DEF exists, ControlType
      <4> QED
        BY <1>5, <3>1, <4>1 DEF ReadDmcontrol, ControlType, DmControls
    <3>2. CASE ~exists
      BY <1>5, <3>2 DEF ReadDmcontrol, ControlType
    <3> QED
      BY <3>1, <3>2
  <2> QED
    BY <1>1, <1>5, <2>1, <2>2 DEF QuietAccess, ControlType, SameRequests, FlagsType, dmHarts
<1> QED
  BY <1>1, <1>2, <1>3, <1>4, <1>5 DEF Dmi

LEMMA ControlAfterType ==
  ASSUME ControlType, NEW v \in DmControls
  PROVE  ControlAfter(v) \in DmControls
<1> DEFINE old == IF Activates(v) THEN ZeroControl ELSE dmcontrol
<1>1. old \in DmControls
  BY DEF ControlType, ZeroControl, DmControls
<1>2. [old EXCEPT !.dmactive = v.dmactive] \in DmControls
  BY <1>1 DEF DmControls
<1>3. ControlAfter(v) \in {v, [old EXCEPT !.dmactive = v.dmactive]}
  BY DEF ControlAfter
<1> QED
  BY <1>2, <1>3

-----------------------------------------------------------------------------
(* A request to resume and its acknowledgement.                            *)

AckInv ==
    /\ FlagsType /\ ControlType
    /\ resumeack \in [HartSels -> BOOLEAN]
    /\ \A h \in HartSels : "RESUME" \in debug_rom_flags[h] => ~resumeack[h]

LEMMA HartLeavesControl ==
  ASSUME NEW h \in Harts, Hart(h)
  PROVE  UNCHANGED <<debugger, dmcontrol, halt_request>>
BY DEF Hart, ProgramStep, Ebreak, RomStep, Dret, CommandStep, Word, Fault, Local, Entry,
       TellHalted, TestGo, TestResume, Going, Resume, Exception, StoreHalted, StoreGoing,
       StoreResuming, StoreException, StoreData, dmVars, dmControls, dmHarts, ghosts

(* What the harts do to the flags of the module: answering takes a request *)
(* away and acknowledges it, beginning a command takes GO away.            *)
LEMMA HartFlags ==
  ASSUME NEW h \in Harts, Hart(h)
  PROVE  \/ UNCHANGED <<debug_rom_flags, resumeack>>
         \/ /\ debug_rom_flags' = [debug_rom_flags EXCEPT ![hartsel] = @ \ {"GO"}]
            /\ UNCHANGED resumeack
         \/ /\ debug_rom_flags' = [debug_rom_flags EXCEPT ![h] = @ \ {"RESUME"}]
            /\ resumeack' = [resumeack EXCEPT ![h] = TRUE]
<1>1. CASE ProgramStep(h) \/ Ebreak(h) \/ Dret(h)
  BY <1>1 DEF ProgramStep, Ebreak, Dret, dmVars, dmHarts
<1>2. CASE CommandStep(h)
  BY <1>2 DEF CommandStep, Word, Fault, StoreData, dmVars, dmHarts
<1>3. CASE Going(h) \/ Resume(h)
  BY <1>3 DEF Going, Resume, StoreGoing, StoreResuming
<1>4. CASE Entry(h) \/ TellHalted(h) \/ TestGo(h) \/ TestResume(h) \/ Exception(h)
  BY <1>4 DEF Entry, TellHalted, TestGo, TestResume, Exception, Local,
              StoreHalted, StoreException, dmVars, dmHarts
<1> QED
  BY <1>1, <1>2, <1>3, <1>4 DEF Hart, RomStep

LEMMA ControlKeepsAck ==
  ASSUME AckInv, NEW v \in DmControls, NEW ack \in BOOLEAN,
         WriteDmcontrol(v, ack), UNCHANGED debugger
  PROVE  AckInv'
<1> DEFINE sel == ControlAfter(v).hartsel
<1>1. ControlAfter(v) \in DmControls /\ sel \in HartSels
  BY ControlAfterType DEF AckInv, DmControls
<1>2. dmcontrol' \in DmControls
  BY <1>1 DEF WriteDmcontrol
<1>3. halt_request' \in [Harts -> BOOLEAN]
  BY <1>1 DEF WriteDmcontrol, AckInv, ControlType, DmControls
<1>4. \/ UNCHANGED <<debug_rom_flags, resumeack>>
      \/ /\ debug_rom_flags' = [debug_rom_flags EXCEPT ![sel] = @ \union {"RESUME"}]
         /\ resumeack' = [resumeack EXCEPT ![sel] = FALSE]
  BY DEF WriteDmcontrol
<1> HIDE DEF sel
<1>5. CASE UNCHANGED <<debug_rom_flags, resumeack>>
  BY <1>2, <1>3, <1>5 DEF AckInv, ControlType, FlagsType
<1>6. CASE /\ debug_rom_flags' = [debug_rom_flags EXCEPT ![sel] = @ \union {"RESUME"}]
           /\ resumeack' = [resumeack EXCEPT ![sel] = FALSE]
  <2>1. FlagsType'
    BY <1>1, <1>6 DEF AckInv, FlagsType
  <2>2. resumeack' \in [HartSels -> BOOLEAN]
    BY <1>6 DEF AckInv
  <2>3. ControlType'
    BY <1>2, <1>3 DEF AckInv, ControlType
  <2>4. \A h \in HartSels : "RESUME" \in debug_rom_flags'[h] => ~resumeack'[h]
    BY <1>6 DEF AckInv, FlagsType
  <2> QED
    BY <2>1, <2>2, <2>3, <2>4 DEF AckInv
<1> QED
  BY <1>4, <1>5, <1>6

LEMMA AckInitially == Init => AckInv
BY DEF Init, DmInit, AckInv, FlagsType, ControlType, ZeroControl, DmControls

LEMMA AckStep == AckInv /\ [Next]_vars => AckInv'
<1> SUFFICES ASSUME AckInv, [Next]_vars PROVE AckInv'
  OBVIOUS
<1>1. CASE Dmi
  <2>1. CASE QuietAccess
    BY <2>1 DEF QuietAccess, SameRequests, AckInv
  <2> QED
    BY <1>1, <2>1, DmiIsQuietOrControl, ControlKeepsAck DEF AckInv
<1>2. ASSUME NEW h \in Harts, Hart(h) PROVE AckInv'
  <2>1. hartsel \in HartSels /\ h \in HartSels
    BY DEF hartsel, AckInv, ControlType, DmControls
  <2>2. ControlType'
    BY <1>2, HartLeavesControl DEF AckInv, ControlType
  <2>3. CASE debug_rom_flags' = [debug_rom_flags EXCEPT ![hartsel] = @ \ {"GO"}] /\ UNCHANGED resumeack
    BY <2>1, <2>2, <2>3 DEF AckInv, FlagsType
  <2>4. CASE /\ debug_rom_flags' = [debug_rom_flags EXCEPT ![h] = @ \ {"RESUME"}]
             /\ resumeack' = [resumeack EXCEPT ![h] = TRUE]
    <3>1. \A g \in HartSels : "RESUME" \in debug_rom_flags'[g] => g # h /\ "RESUME" \in debug_rom_flags[g]
      BY <2>1, <2>4 DEF AckInv, FlagsType
    <3> QED
      BY <2>1, <2>2, <2>4, <3>1 DEF AckInv, FlagsType
  <2>5. CASE UNCHANGED <<debug_rom_flags, resumeack>>
    BY <2>2, <2>5 DEF AckInv, FlagsType
  <2> QED
    BY <1>2, <2>3, <2>4, <2>5, HartFlags
<1>3. CASE UNCHANGED vars
  BY <1>3 DEF vars, dmVars, dmControls, dmHarts, ghosts, AckInv, FlagsType, ControlType
<1> QED
  BY <1>1, <1>2, <1>3 DEF Next

(* A resume request that is still pending is never acknowledged, whatever  *)
(* the debugger does.                                                      *)
THEOREM ResumeAckFollows == Spec => []AckFollowsResume
<1>1. AckInv => AckFollowsResume
  BY DEF AckInv, AckFollowsResume
<1> QED
  BY <1>1, AckInitially, AckStep, PTL DEF Spec

-----------------------------------------------------------------------------
(* Debug mode and single stepping, when no instruction that is stepped is  *)
(* an ebreak.                                                              *)

ModeType ==
    /\ halted \in [HartSels -> BOOLEAN] /\ step \in [Harts -> BOOLEAN]
    /\ pc \in [Harts -> Labels] /\ dpc \in [Harts -> Labels]
    /\ cause \in [Harts -> {"NONE", "SWBP", "DEBUGINT", "STEP"}]
    /\ single_step \in [Harts -> {"NONE", "STEPPING", "STEPPED"}]
    /\ begun \in [Harts -> Steps]

(* A hart is out of debug mode exactly while it is in the program, and is  *)
(* then not halted; between dret and the next entry of debug mode,         *)
(* single_step and begun follow the instructions of a step together.       *)
ModeOf(h) ==
    /\ dpc[h] = "program"
    /\ cause[h] = "NONE" <=> pc[h] = "program"
    /\ halted[h] => pc[h] \notin {"program", "dret"}
    /\ cause[h] = "STEP" => begun[h] \in {"resumed", "handler"}
    /\ cause[h] = "NONE" =>
          IF step[h] THEN \/ single_step[h] = "STEPPING" /\ begun[h] \in {"none", "trapped"}
                          \/ single_step[h] = "STEPPED" /\ begun[h] \in {"resumed", "handler"}
                     ELSE single_step[h] = "NONE"

ModeInv == AckInv /\ ModeType /\ \A h \in Harts : ModeOf(h)

(* The harts other than h, and what a step of h does to their mode.        *)
Apart(h) ==
    \A g \in Harts \ {h} :
        UNCHANGED <<halted[g], step[g], pc[g], dpc[g], cause[g], single_step[g], begun[g]>>

LEMMA ProgramMode ==
  ASSUME ModeInv, ~StepsEbreak, NEW h \in Harts, ProgramStep(h) \/ Ebreak(h)
  PROVE  ModeType' /\ Apart(h) /\ ModeOf(h)'
<1>0. /\ cause[h] = "NONE" /\ pc[h] = "program" /\ ModeOf(h)
      /\ UNCHANGED <<halted, step>>
      /\ step[h] \in BOOLEAN /\ halted[h] \in BOOLEAN
  BY DEF ModeInv, ModeType, ProgramStep, Ebreak, dmVars, dmHarts
<1>1. ASSUME NEW why \in {"SWBP", "DEBUGINT", "STEP"}, NEW s \in {"NONE", "STEPPING", "STEPPED"},
             NEW b \in Steps, EnterDebugMode(h, why),
             single_step' = [single_step EXCEPT ![h] = s], begun' = [begun EXCEPT ![h] = b],
             why = "STEP" => b \in {"resumed", "handler"}
      PROVE  ModeType' /\ Apart(h) /\ ModeOf(h)'
  <2>1. /\ ModeType' /\ Apart(h) /\ begun'[h] = b
        /\ pc'[h] = "entry" /\ dpc'[h] = "program" /\ cause'[h] = why
    BY <1>0, <1>1 DEF EnterDebugMode, ModeInv, ModeType, Apart, Labels
  <2> QED
    BY <1>0, <1>1, <2>1 DEF ModeOf
<1>2. /\ \A s : Stepped(s) \in {"NONE", "STEPPING", "STEPPED"}
      /\ \A b : Began(b) \in Steps
      /\ begun[h] \in Steps /\ begun = [begun EXCEPT ![h] = begun[h]]
      /\ single_step[h] \in {"NONE", "STEPPING", "STEPPED"}
  BY DEF Stepped, Began, Steps, ModeInv, ModeType
<1>3. ASSUME NEW s \in {"NONE", "STEPPING", "STEPPED"}, NEW b \in Steps,
             single_step' = [single_step EXCEPT ![h] = s], begun' = [begun EXCEPT ![h] = b],
             UNCHANGED <<pc, cause, dpc>>,
             IF step[h] THEN \/ s = "STEPPING" /\ b \in {"none", "trapped"}
                             \/ s = "STEPPED" /\ b \in {"resumed", "handler"}
                        ELSE s = "NONE"
      PROVE  ModeType' /\ Apart(h) /\ ModeOf(h)'
  <2>1. ModeType' /\ Apart(h) /\ single_step'[h] = s /\ begun'[h] = b
    BY <1>0, <1>3 DEF ModeInv, ModeType, Apart
  <2> QED
    BY <1>0, <1>3, <2>1 DEF ModeOf
<1>4. CASE ProgramStep(h)
  <2>1. CASE halt_request[h]
    <3>1. /\ EnterDebugMode(h, "DEBUGINT") /\ UNCHANGED begun
          /\ single_step' = [single_step EXCEPT ![h] = Stepped(single_step[h])]
      BY <1>4, <2>1 DEF ProgramStep
    <3> QED
      BY <1>1, <1>2, <3>1
  <2>2. CASE ~halt_request[h] /\ single_step[h] = "STEPPED"
    <3>1. /\ EnterDebugMode(h, "STEP") /\ UNCHANGED begun
          /\ single_step' = [single_step EXCEPT ![h] = "NONE"]
      BY <1>4, <2>2 DEF ProgramStep
    <3>2. begun[h] \in {"resumed", "handler"}
      BY <1>0, <2>2 DEF ModeOf
    <3> QED
      BY <1>1, <1>2, <3>1, <3>2
  <2>3. CASE ~halt_request[h] /\ single_step[h] = "STEPPING"
    <3>1. step[h] /\ begun[h] \in {"none", "trapped"}
      BY <1>0, <2>3 DEF ModeOf
    <3>2. Began(begun[h]) \in {"resumed", "handler"} /\ Stepped(single_step[h]) = "STEPPED"
      BY <2>3, <3>1 DEF Began, Stepped
    <3>3. CASE begun' = [begun EXCEPT ![h] = "trapped"] /\ UNCHANGED <<pc, cause, dpc, single_step>>
      <4>1. single_step' = [single_step EXCEPT ![h] = "STEPPING"] /\ "trapped" \in Steps
        BY <2>3, <3>3 DEF ModeInv, ModeType, Steps
      <4> QED
        BY <1>3, <3>1, <3>3, <4>1
    <3>4. CASE /\ begun' = [begun EXCEPT ![h] = Began(begun[h])]
               /\ single_step' = [single_step EXCEPT ![h] = Stepped(single_step[h])]
               /\ UNCHANGED <<pc, cause, dpc>>
      BY <1>2, <1>3, <3>1, <3>2, <3>4
    <3>5. CASE /\ begun' = [begun EXCEPT ![h] = Began(begun[h])] /\ EnterDebugMode(h, "STEP")
               /\ single_step' = [single_step EXCEPT ![h] = "NONE"]
      BY <1>1, <1>2, <3>2, <3>5
    <3> QED
      BY <1>4, <2>3, <3>1, <3>3, <3>4, <3>5 DEF ProgramStep
  <2>4. CASE ~halt_request[h] /\ single_step[h] = "NONE"
    <3>1. ~step[h] /\ Stepped("NONE") = "NONE"
      BY <1>0, <2>4 DEF ModeOf, Stepped
    <3>2. /\ begun' = [begun EXCEPT ![h] = begun[h]] /\ UNCHANGED <<pc, cause, dpc>>
          /\ single_step' = [single_step EXCEPT ![h] = "NONE"]
      BY <1>4, <2>4, <3>1 DEF ProgramStep
    <3> QED
      BY <1>2, <1>3, <3>1, <3>2
  <2> QED
    BY <1>2, <2>1, <2>2, <2>3, <2>4
<1>5. CASE Ebreak(h)
  <2>1. /\ single_step[h] = "NONE" /\ EnterDebugMode(h, "SWBP")
        /\ UNCHANGED <<single_step, begun>>
    BY <1>5 DEF Ebreak, ghosts
  <2>2. single_step' = [single_step EXCEPT ![h] = "NONE"]
    BY <2>1 DEF ModeInv, ModeType
  <2> QED
    BY <1>1, <1>2, <2>1, <2>2
<1> QED
  BY <1>4, <1>5

(* In the ROM and in a command a hart stays in debug mode: cause, dpc and  *)
(* begun keep, and it is only halted where it says so itself.              *)
LEMMA DebugModeKeeps ==
  ASSUME ModeInv, NEW h \in Harts, RomStep(h) \/ CommandStep(h)
  PROVE  ModeType' /\ Apart(h) /\ ModeOf(h)'
<1>1. /\ h \in HartSels /\ ModeOf(h) /\ pc[h] \in Labels
      /\ UNCHANGED <<cause, dpc, begun>>
      /\ single_step' = [single_step EXCEPT ![h] = Stepped(@)]
  <2>1. CASE RomStep(h)
    BY <2>1 DEF RomStep, ModeInv, ModeType, ghosts, Entry, TellHalted, TestGo, TestResume,
                Going, Resume, Exception, Local
  <2>2. CASE CommandStep(h)
    BY <2>2 DEF CommandStep, ModeInv, ModeType
  <2> QED
    BY <2>1, <2>2
<1>2. pc[h] \notin {"program", "dret"}
  BY DEF RomStep, CommandStep, Entry, TellHalted, TestGo, TestResume, Going, Resume,
         Exception, Local
<1>3. Stepped(single_step[h]) \in {"NONE", "STEPPING", "STEPPED"}
  BY DEF Stepped
<1>4. \E to \in Labels \ {"program"} :
         /\ pc' = [pc EXCEPT ![h] = to]
         /\ \/ to # "dret" /\ (UNCHANGED halted \/ halted' = [halted EXCEPT ![h] = TRUE])
            \/ halted' = [halted EXCEPT ![h] = FALSE]
  <2>1. CASE Entry(h) \/ TestGo(h) \/ TestResume(h)
    BY <2>1 DEF Entry, TestGo, TestResume, Local, Labels, dmVars, dmHarts
  <2>2. CASE TellHalted(h)
    <3>1. pc' = [pc EXCEPT ![h] = "test_go"] /\ halted' = [halted EXCEPT ![h] = TRUE]
      BY <2>2 DEF TellHalted, StoreHalted
    <3>2. "test_go" \in Labels \ {"program"} /\ "test_go" # "dret"
      BY DEF Labels
    <3> QED
      BY <3>1, <3>2, Zenon
  <2>3. CASE Going(h) \/ Exception(h)
    BY <2>3 DEF Going, Exception, StoreGoing, StoreException, Labels, dmHarts
  <2>4. CASE Resume(h)
    BY <2>4 DEF Resume, StoreResuming, Labels
  <2>5. CASE CommandStep(h)
    BY <2>5 DEF CommandStep, Word, Fault, StoreData, Labels, dmVars, dmHarts
  <2> QED
    BY <2>1, <2>2, <2>3, <2>4, <2>5 DEF RomStep
<1>5. step' \in [Harts -> BOOLEAN] /\ \A g \in Harts \ {h} : step'[g] = step[g]
  <2>1. CASE UNCHANGED step
    BY <2>1 DEF ModeInv, ModeType
  <2>2. CASE step' = [step EXCEPT ![h] = s0[h] = 1]
    BY <2>2 DEF ModeInv, ModeType
  <2> QED
    BY <2>1, <2>2 DEF RomStep, Entry, TellHalted, TestGo, TestResume, Going, Resume,
                      Exception, Local, CommandStep, Word, Fault
<1>6. PICK to \in Labels \ {"program"} :
         /\ pc' = [pc EXCEPT ![h] = to]
         /\ \/ to # "dret" /\ (UNCHANGED halted \/ halted' = [halted EXCEPT ![h] = TRUE])
            \/ halted' = [halted EXCEPT ![h] = FALSE]
  BY <1>4
<1>7. ModeType' /\ Apart(h)
  BY <1>1, <1>3, <1>5, <1>6 DEF ModeInv, ModeType, Apart
<1>8. pc'[h] = to /\ (to = "dret" => ~halted'[h])
  BY <1>1, <1>6 DEF ModeInv, ModeType
<1> QED
  BY <1>1, <1>2, <1>6, <1>7, <1>8 DEF ModeOf

LEMMA DretMode ==
  ASSUME ModeInv, NEW h \in Harts, Dret(h)
  PROVE  ModeType' /\ Apart(h) /\ ModeOf(h)'
<1>1. /\ pc[h] = "dret" /\ ModeOf(h) /\ step[h] \in BOOLEAN
      /\ UNCHANGED <<halted, dpc, step>>
  BY DEF Dret, ModeInv, ModeType, dmVars, dmHarts
<1>2. ModeType' /\ Apart(h)
  BY <1>1 DEF Steps, Dret, ModeInv, ModeType, Apart
<1>3. /\ pc'[h] = "program" /\ cause'[h] = "NONE" /\ begun'[h] = "none"
      /\ single_step'[h] = IF step[h] THEN "STEPPING" ELSE "NONE"
  BY <1>1 DEF Dret, ModeInv, ModeType, ModeOf
<1> QED
  BY <1>1, <1>2, <1>3 DEF ModeOf

(* A write to dmcontrol leaves every hart in the program, if it resets it, *)
(* or where it was.                                                        *)
LEMMA ControlMode ==
  ASSUME ModeInv, NEW v \in DmControls, NEW ack \in BOOLEAN,
         WriteDmcontrol(v, ack), ResetHarts(ResetBy(v))
  PROVE  ModeType' /\ \A h \in Harts : ModeOf(h)'
<1> DEFINE hs == ResetBy(v)
<1>1. halted' = [h \in HartSels |-> halted[h] /\ h \notin hs]
  BY DEF WriteDmcontrol
<1> HIDE DEF hs
<1>2. ModeType'
  BY <1>1 DEF ResetHarts, ModeInv, ModeType, Labels, Steps
<1>3. ASSUME NEW h \in Harts PROVE ModeOf(h)'
  <2>1. CASE h \in hs
    BY <1>1, <2>1 DEF ResetHarts, ModeOf, hs
  <2>2. CASE h \notin hs
    <3>1. UNCHANGED <<pc[h], dpc[h], cause[h], step[h], single_step[h], begun[h]>>
      BY <2>2 DEF ResetHarts, hs
    <3>2. halted'[h] => halted[h]
      BY <1>1
    <3> QED
      BY <3>1, <3>2 DEF ModeInv, ModeOf
  <2> QED
    BY <2>1, <2>2
<1> QED
  BY <1>2, <1>3

LEMMA ModeInvariant ==
  ASSUME ~StepsEbreak
  PROVE  Spec => []ModeInv
<1>1. Init => ModeInv
  <2> SUFFICES ASSUME Init PROVE ModeInv
    OBVIOUS
  <2>1. AckInv
    BY AckInitially
  <2>2. ModeType
    BY DEF Init, DmInit, ModeType, Labels, NoStep, Steps
  <2> QED
    BY <2>1, <2>2 DEF Init, DmInit, ModeInv, ModeOf
<1>2. ModeInv /\ [Next]_vars => ModeInv'
  <2> SUFFICES ASSUME ModeInv, [Next]_vars PROVE ModeInv'
    OBVIOUS
  <2>1. AckInv'
    BY AckStep DEF ModeInv
  <2>2. ASSUME Dmi PROVE ModeType' /\ \A h \in Harts : ModeOf(h)'
    <3>1. CASE QuietAccess
      BY <3>1 DEF QuietAccess, hartVars, ModeInv, ModeType, ModeOf
    <3> QED
      BY <2>2, <3>1, DmiIsQuietOrControl, ControlMode DEF ModeInv, AckInv
  <2>3. ASSUME NEW h \in Harts, Hart(h) PROVE ModeType' /\ \A g \in Harts : ModeOf(g)'
    <3>1. ModeType' /\ Apart(h) /\ ModeOf(h)'
      BY <2>3, ProgramMode, DebugModeKeeps, DretMode DEF Hart
    <3>2. ASSUME NEW g \in Harts \ {h} PROVE ModeOf(g)'
      BY <3>1 DEF Apart, ModeInv, ModeOf
    <3> QED
      BY <3>1, <3>2
  <2>4. CASE UNCHANGED vars
    BY <2>1, <2>4 DEF vars, dmVars, dmHarts, hartVars, ghosts, ModeInv, ModeType, ModeOf
  <2> QED
    BY <2>1, <2>2, <2>3, <2>4 DEF Next, ModeInv
<1> QED
  BY <1>1, <1>2, PTL DEF Spec

(* The module never says halted of a hart that executes its program.       *)
THEOREM HaltedMeansDebugMode ==
  ASSUME ~StepsEbreak
  PROVE  Spec => []HaltedHartsAreInDebugMode
<1>1. ModeInv => HaltedHartsAreInDebugMode
  BY DEF ModeInv, ModeOf, HaltedHartsAreInDebugMode
<1> QED
  BY <1>1, ModeInvariant, PTL

(* A single step executes one instruction, that of the program or, when a  *)
(* trap comes before it, the first one of its handler, and then the hart   *)
(* is halted again, whether the instruction traps or not.                  *)
THEOREM SingleStepping ==
  ASSUME ~StepsEbreak
  PROVE  Spec => []SingleStepExecutesOne
<1>1. ModeInv => SingleStepExecutesOne
  <2> SUFFICES ASSUME ModeInv, NEW h \in Harts
               PROVE  /\ cause[h] = "STEP" => begun[h] \in {"resumed", "handler"}
                      /\ step[h] /\ cause[h] = "NONE" => begun[h] # "more"
    BY DEF SingleStepExecutesOne
  <2>1. ModeOf(h) /\ step[h] \in BOOLEAN
    BY DEF ModeInv, ModeType
  <2>2. ASSUME step[h], cause[h] = "NONE" PROVE begun[h] # "more"
    BY <2>1, <2>2 DEF ModeOf
  <2> QED
    BY <2>1, <2>2 DEF ModeOf
<1> QED
  BY <1>1, ModeInvariant, PTL

(* A hart that is resumed goes back to its program: only the ebreak that   *)
(* is stepped can lose its place.                                          *)
THEOREM ReturnsUnlessStepped ==
  ASSUME ~StepsEbreak
  PROVE  Spec => []ReturnsToProgram
<1>1. ModeInv => ReturnsToProgram
  BY DEF ModeInv, ModeOf, ReturnsToProgram
<1> QED
  BY <1>1, ModeInvariant, PTL

-----------------------------------------------------------------------------
(* Types.  The words of a command are few, which bounds the place of a     *)
(* hart in them; where s0 is not the ROM's it is a word that the debugger  *)
(* could have given, so that storing it leaves one in the data word.       *)

RegistersType ==
    /\ require_authentication \in BOOLEAN /\ authenticated \in BOOLEAN
    /\ busy \in BOOLEAN /\ cmderr \in CmdErrs
    /\ halted \in [HartSels -> BOOLEAN] /\ havereset \in [HartSels -> BOOLEAN]
    /\ abstractauto \in SUBSET {"data", "progbuf"} /\ command \in Command
    /\ dmdata \in Data /\ custom_base \in Data /\ program_buffer \in UserPrograms
    /\ debug_abstract \in Seq(AbstractWords) /\ Len(debug_abstract) <= 5

RomUses == {"loop", "test_go", "test_resume", "going", "resume"}

HartType ==
    /\ pc \in [Harts -> Labels] /\ at \in [Harts -> 0..6]
    /\ cause \in [Harts -> {"NONE", "SWBP", "DEBUGINT", "STEP"}]
    /\ dpc \in [Harts -> Labels] /\ step \in [Harts -> BOOLEAN]
    /\ single_step \in [Harts -> {"NONE", "STEPPING", "STEPPED"}]
    /\ s0 \in [Harts -> Words] /\ dscratch \in [Harts -> Data] /\ owned \in [Harts -> Data]
    /\ begun \in [Harts -> Steps]
    /\ \A h \in Harts : pc[h] \notin RomUses => s0[h] \in Data

TypeInv == AckInv /\ RegistersType /\ HartType

(* Writing at most five words leaves at most five.                         *)
LEMMA OverwriteBounded ==
  ASSUME NEW words \in Seq(AbstractWords), Len(words) <= 5,
         debug_abstract \in Seq(AbstractWords), Len(debug_abstract) <= 5
  PROVE  Overwrite(words) \in Seq(AbstractWords) /\ Len(Overwrite(words)) <= 5
<1> DEFINE m == Len(words) + 1
           n == Len(debug_abstract)
           rest == SubSeq(debug_abstract, m, n)
<1>1. rest \in Seq(AbstractWords) /\ Len(rest) = IF m <= n THEN n - m + 1 ELSE 0
  <2>1. m \in Nat /\ n \in Nat /\ m >= 1
    OBVIOUS
  <2>2. \A i \in m .. n : debug_abstract[i] \in AbstractWords
    <3>1. \A i \in m .. n : i \in 1 .. n
      BY <2>1
    <3> QED
      BY <3>1, ElementOfSeq
  <2> QED
    BY <2>1, <2>2, SubSeqProperties
<1>2. Overwrite(words) = words \o rest
  BY DEF Overwrite
<1>3. /\ words \o rest \in Seq(AbstractWords)
      /\ Len(words \o rest) = Len(words) + Len(rest)
  BY <1>1, ConcatProperties
<1> QED
  BY <1>1, <1>2, <1>3

(* The words of a command are at most four, and one more ends them.        *)
LEMMA WordsOfCommand ==
  ASSUME NEW c \in Command
  PROVE  /\ Access(c) \in Seq(AbstractWords) /\ Len(Access(c)) <= 4
         /\ Begun(c) \in Seq(AbstractWords) /\ Len(Begun(c)) <= 4
<1> DEFINE Short(w) == w \in Seq(AbstractWords) /\ Len(w) <= 4
<1>1. Short(<<"save", "ld", "csrw", "restore">>) /\ Short(<<"save", "csrr", "st", "restore">>)
  BY DEF AbstractWords
<1>2. Short(<<"ld">>) /\ Short(<<"st">>) /\ Short(<<"float">>) /\ Short(<<"save">>)
  BY DEF AbstractWords
<1>3. Short(<<"save", "csrr">>) /\ Short(<< >>)
  BY DEF AbstractWords
<1>4. \/ Access(c) = <<"save", "ld", "csrw", "restore">>
      \/ Access(c) = <<"save", "csrr", "st", "restore">>
      \/ Access(c) = <<"ld">> \/ Access(c) = <<"st">> \/ Access(c) = <<"float">>
      \/ Access(c) = << >>
  BY DEF Access, Command
<1>5. Begun(c) = <<"save">> \/ Begun(c) = <<"save", "csrr">> \/ Begun(c) = << >>
  BY DEF Begun, Command
<1> HIDE DEF Short
<1>6. Short(Access(c)) /\ Short(Begun(c))
  BY ONLY <1>1, <1>2, <1>3, <1>4, <1>5
<1> QED
  BY <1>6 DEF Short

(* A command keeps the types of the registers it changes.                  *)
LEMMA PerformTypes ==
  ASSUME AckInv, RegistersType, NEW c \in Command, NEW d \in Data,
         PerformAbstractCommand(c, d)
  PROVE  /\ cmderr' \in CmdErrs /\ dmdata' \in Data /\ custom_base' \in Data
         /\ busy' \in BOOLEAN
         /\ debug_abstract' \in Seq(AbstractWords) /\ Len(debug_abstract') <= 5
<1>1. Refusal(c) \in CmdErrs
  BY DEF Refusal, RegistersType, CmdErrs
<1>2. Overwrite(Begun(c)) \in Seq(AbstractWords) /\ Len(Overwrite(Begun(c))) <= 5
  BY WordsOfCommand, OverwriteBounded, LenProperties DEF RegistersType
<1>3. ASSUME NEW w \in AbstractWords
      PROVE  Overwrite(Append(Access(c), w)) \in Seq(AbstractWords) /\ Len(Overwrite(Append(Access(c), w))) <= 5
  <2>1. Append(Access(c), w) \in Seq(AbstractWords) /\ Len(Append(Access(c), w)) <= 5
    BY WordsOfCommand, AppendProperties, LenProperties
  <2> QED
    BY <2>1, OverwriteBounded DEF RegistersType
<1>4. CASE Refusal(c) # "NONE"
  BY <1>1, <1>2, <1>4 DEF PerformAbstractCommand, RegistersType
<1>5. CASE Refusal(c) = "NONE" /\ c.reg = "CUSTOM"
  BY <1>5 DEF PerformAbstractCommand, RegistersType
<1>6. CASE Refusal(c) = "NONE" /\ c.reg # "CUSTOM"
  <2> DEFINE w == IF c.postexec THEN "jal" ELSE "ebreak"
  <2>1. /\ debug_abstract' = Overwrite(Append(Access(c), w))
        /\ busy' = TRUE /\ dmdata' = d /\ UNCHANGED <<cmderr, custom_base>>
    BY <1>6 DEF PerformAbstractCommand
  <2>2. w \in AbstractWords
    BY DEF AbstractWords, Command
  <2> HIDE DEF w
  <2> QED
    BY <2>1, <2>2, <1>3 DEF RegistersType
<1> QED
  BY <1>4, <1>5, <1>6

LEMMA TouchTypes ==
  ASSUME TypeInv, (\E d \in Data : TouchData(d)) \/ (\E p \in UserPrograms : TouchProgbuf(p))
  PROVE  RegistersType'
<1>1. ASSUME NEW d \in Data, TouchData(d) PROVE RegistersType'
  <2>1. UNCHANGED <<require_authentication, authenticated, halted, havereset, abstractauto,
                    command, program_buffer>>
    BY <1>1 DEF TouchData, dmControls
  <2>2. CASE busy
    BY <1>1, <2>1, <2>2 DEF TouchData, TypeInv, RegistersType, CmdErrs
  <2>3. CASE ~busy /\ "data" \in abstractauto
    BY <1>1, <2>1, <2>3, PerformTypes DEF TouchData, TypeInv, RegistersType
  <2>4. CASE ~busy /\ "data" \notin abstractauto
    BY <1>1, <2>1, <2>4 DEF TouchData, TypeInv, RegistersType
  <2> QED
    BY <2>2, <2>3, <2>4
<1>2. ASSUME NEW p \in UserPrograms, TouchProgbuf(p) PROVE RegistersType'
  <2>1. UNCHANGED <<require_authentication, authenticated, halted, havereset, abstractauto, command>>
    BY <1>2 DEF TouchProgbuf, dmControls
  <2>2. program_buffer' \in UserPrograms
    BY <1>2 DEF TouchProgbuf, TypeInv, RegistersType
  <2>3. CASE PerformAbstractCommand(command, dmdata)
    BY <2>1, <2>2, <2>3, PerformTypes DEF TypeInv, RegistersType
  <2>4. CASE UNCHANGED <<dmdata, busy, cmderr, debug_rom_flags, debug_abstract, custom_base>>
    BY <2>1, <2>2, <2>4 DEF TypeInv, RegistersType
  <2> QED
    BY <1>2, <2>3, <2>4 DEF TouchProgbuf
<1> QED
  BY <1>1, <1>2

LEMMA DmiTypes ==
  ASSUME TypeInv, Dmi
  PROVE  RegistersType' /\ HartType'
<1>1. /\ debugger.commands \subseteq Command /\ debugger.controls \subseteq DmControls
      /\ debugger.data \subseteq Data /\ debugger.programs \subseteq UserPrograms
      /\ debugger.autos \subseteq SUBSET {"data", "progbuf"} /\ debugger.acks \subseteq BOOLEAN
  BY DebuggersAssumption DEF TypeInv, AckInv, ControlType
<1>2. ASSUME UNCHANGED <<hartVars, owned, begun>> PROVE HartType'
  BY <1>2 DEF hartVars, TypeInv, HartType
<1>3. ASSUME NEW c \in Command, WriteCommand(c) PROVE RegistersType'
  BY <1>3, PerformTypes DEF WriteCommand, TypeInv, RegistersType
<1>4. ASSUME \/ ReadData \/ \E d \in Data : WriteData(d)
             \/ ReadProgbuf \/ \E p \in UserPrograms : WriteProgbuf(p)
      PROVE  RegistersType'
  <2>1. dmdata \in Data /\ program_buffer \in UserPrograms
    BY DEF TypeInv, RegistersType
  <2>2. (\E d \in Data : TouchData(d)) \/ (\E p \in UserPrograms : TouchProgbuf(p))
    BY <1>4, <2>1, Zenon DEF ReadData, ReadProgbuf, WriteData, WriteProgbuf
  <2> QED
    BY <2>2, TouchTypes
<1>5. ASSUME WriteAbstractcs \/ \E a \in SUBSET {"data", "progbuf"} : WriteAbstractauto(a)
      PROVE  RegistersType'
  BY <1>5 DEF WriteAbstractcs, WriteAbstractauto, dmControls, dmMemory, dmHarts,
              TypeInv, RegistersType, CmdErrs
<1>6. ASSUME ReadDmcontrol \/ \E key \in BOOLEAN : WriteAuthdata(key)
      PROVE  RegistersType'
  BY <1>6 DEF ReadDmcontrol, WriteAuthdata, dmMemory, dmHarts, TypeInv, RegistersType
<1>7. ASSUME NEW v \in DmControls, NEW ack \in BOOLEAN,
             WriteDmcontrol(v, ack), ResetHarts(ResetBy(v))
      PROVE  RegistersType' /\ HartType'
  <2>1. busy' \in BOOLEAN /\ cmderr' \in CmdErrs /\ authenticated' \in BOOLEAN
    BY <1>7 DEF WriteDmcontrol, AuthenticatedAfter, Activates, TypeInv, RegistersType, CmdErrs
  <2>2. halted' \in [HartSels -> BOOLEAN] /\ havereset' \in [HartSels -> BOOLEAN]
    BY <1>7 DEF WriteDmcontrol, TypeInv, RegistersType
  <2>3. /\ UNCHANGED <<require_authentication, command, dmMemory>>
        /\ abstractauto' \in SUBSET {"data", "progbuf"}
    BY <1>7 DEF WriteDmcontrol, TypeInv, RegistersType
  <2>4. RegistersType'
    BY <2>1, <2>2, <2>3 DEF dmMemory, TypeInv, RegistersType
  <2> DEFINE hs == ResetBy(v)
  <2> HIDE DEF hs
  <2>5. ResetHarts(hs)
    BY <1>7 DEF hs
  <2>6. /\ pc' = [h \in Harts |-> IF h \in hs THEN "program" ELSE pc[h]]
        /\ s0' = [h \in Harts |-> IF h \in hs THEN 0 ELSE s0[h]]
        /\ dscratch' = [h \in Harts |-> IF h \in hs THEN 0 ELSE dscratch[h]]
        /\ owned' = [h \in Harts |-> IF h \in hs THEN 0 ELSE owned[h]]
        /\ at' = [h \in Harts |-> IF h \in hs THEN 0 ELSE at[h]]
        /\ step' = [h \in Harts |-> IF h \in hs THEN FALSE ELSE step[h]]
        /\ dpc' = [h \in Harts |-> IF h \in hs THEN "program" ELSE dpc[h]]
        /\ cause' = [h \in Harts |-> IF h \in hs THEN "NONE" ELSE cause[h]]
        /\ single_step' = [h \in Harts |-> IF h \in hs THEN "NONE" ELSE single_step[h]]
        /\ begun' = [h \in Harts |-> IF h \in hs THEN "none" ELSE begun[h]]
    BY <2>5 DEF ResetHarts
  <2>7. /\ s0' \in [Harts -> Words] /\ dscratch' \in [Harts -> Data] /\ owned' \in [Harts -> Data]
        /\ pc' \in [Harts -> Labels]
    BY <2>6 DEF TypeInv, HartType, Words, Labels
  <2>8. \A h \in Harts : pc'[h] \notin RomUses => s0'[h] \in Data
    BY <2>6 DEF TypeInv, HartType
  <2>9. at' \in [Harts -> 0..6]
    BY <2>6 DEF TypeInv, HartType
  <2>10. step' \in [Harts -> BOOLEAN] /\ dpc' \in [Harts -> Labels]
    BY <2>6 DEF TypeInv, HartType, Labels
  <2>11. /\ cause' \in [Harts -> {"NONE", "SWBP", "DEBUGINT", "STEP"}]
         /\ single_step' \in [Harts -> {"NONE", "STEPPING", "STEPPED"}]
    BY <2>6 DEF TypeInv, HartType
  <2>12. begun' \in [Harts -> Steps]
    BY <2>6 DEF TypeInv, HartType, Steps
  <2> QED
    BY <2>4, <2>7, <2>8, <2>9, <2>10, <2>11, <2>12 DEF HartType
<1> QED
  BY <1>1, <1>2, <1>3, <1>4, <1>5, <1>6, <1>7 DEF Dmi

(* What one instruction of a hart makes of the module's registers.         *)
LEMMA HartRegisters ==
  ASSUME TypeInv, NEW h \in Harts, Hart(h)
  PROVE  RegistersType'
<1>1. CASE ProgramStep(h) \/ Ebreak(h) \/ Dret(h) \/ Entry(h) \/ TestGo(h) \/ TestResume(h)
  BY <1>1 DEF ProgramStep, Ebreak, Dret, Entry, TestGo, TestResume, Local, dmVars, dmControls,
              dmMemory, dmHarts, TypeInv, RegistersType
<1>2. CASE TellHalted(h)
  <2>1. busy' \in BOOLEAN /\ halted' = [halted EXCEPT ![h] = TRUE]
    BY <1>2 DEF TellHalted, StoreHalted, TypeInv, RegistersType
  <2>2. UNCHANGED <<dmControls, dmMemory, havereset, cmderr>>
    BY <1>2 DEF TellHalted, StoreHalted
  <2> QED
    BY <2>1, <2>2 DEF dmControls, dmMemory, TypeInv, RegistersType
<1>3. CASE Going(h) \/ Resume(h)
  <2>1. /\ UNCHANGED halted \/ halted' = [halted EXCEPT ![h] = FALSE]
        /\ UNCHANGED <<dmControls, dmMemory, havereset, busy, cmderr>>
    BY <1>3 DEF Going, Resume, StoreGoing, StoreResuming
  <2> QED
    BY <2>1 DEF dmControls, dmMemory, TypeInv, RegistersType
<1>4. CASE Exception(h)
  BY <1>4 DEF Exception, StoreException, dmControls, dmMemory, dmHarts, TypeInv, RegistersType, CmdErrs
<1>5. CASE CommandStep(h)
  <2>1. CASE UNCHANGED dmVars
    BY <2>1 DEF dmVars, dmControls, dmMemory, dmHarts, TypeInv, RegistersType
  <2>2. ASSUME NEW d \in Data, StoreData(d) PROVE RegistersType'
    BY <2>2 DEF StoreData, dmControls, dmHarts, TypeInv, RegistersType
  <2>3. pc[h] = "abstract" => s0[h] \in Data
    BY DEF TypeInv, HartType, RomUses
  <2> QED
    BY <1>5, <2>1, <2>2, <2>3 DEF CommandStep, Word, Fault
<1> QED
  BY <1>1, <1>2, <1>3, <1>4, <1>5 DEF Hart, RomStep

(* The state of a hart after a step that sets its fields one by one.       *)
LEMMA HartTypeKept ==
  ASSUME HartType, NEW h \in Harts,
         NEW p \in Labels, NEW x \in Words, NEW y \in Data, NEW z \in Data,
         p \notin RomUses => x \in Data,
         pc' = [pc EXCEPT ![h] = p], s0' = [s0 EXCEPT ![h] = x],
         dscratch' = [dscratch EXCEPT ![h] = y], owned' = [owned EXCEPT ![h] = z],
         at' \in [Harts -> 0..6], step' \in [Harts -> BOOLEAN], dpc' \in [Harts -> Labels],
         cause' \in [Harts -> {"NONE", "SWBP", "DEBUGINT", "STEP"}],
         single_step' \in [Harts -> {"NONE", "STEPPING", "STEPPED"}],
         begun' \in [Harts -> Steps]
  PROVE  HartType'
<1>1. /\ pc' \in [Harts -> Labels] /\ s0' \in [Harts -> Words]
      /\ dscratch' \in [Harts -> Data] /\ owned' \in [Harts -> Data]
  BY DEF HartType
<1>2. \A g \in Harts : pc'[g] \notin RomUses => s0'[g] \in Data
  BY DEF HartType
<1> QED
  BY <1>1, <1>2 DEF HartType

LEMMA HartTypes ==
  ASSUME TypeInv, NEW h \in Harts, Hart(h)
  PROVE  HartType'
<1>1. /\ pc[h] \in Labels /\ dpc[h] \in Labels /\ s0[h] \in Words
      /\ dscratch[h] \in Data /\ owned[h] \in Data /\ at[h] \in 0..6
      /\ pc[h] \notin RomUses => s0[h] \in Data
      /\ 0 \in Data /\ 1 \in Data /\ dmdata \in Data /\ Data \subseteq Words /\ Junk \in Words
  BY DEF TypeInv, HartType, RegistersType, Words
<1>2. /\ pc = [pc EXCEPT ![h] = pc[h]] /\ s0 = [s0 EXCEPT ![h] = s0[h]]
      /\ dscratch = [dscratch EXCEPT ![h] = dscratch[h]]
      /\ owned = [owned EXCEPT ![h] = owned[h]]
  BY DEF TypeInv, HartType
<1>3. \A s : Stepped(s) \in {"NONE", "STEPPING", "STEPPED"}
  BY DEF Stepped
<1>0. begun' \in [Harts -> Steps]
  <2>1. UNCHANGED begun \/ \E b \in Steps : begun' = [begun EXCEPT ![h] = b]
    <3>1. begun[h] \in Steps /\ "none" \in Steps /\ "trapped" \in Steps /\ \A b : Began(b) \in Steps
      BY DEF TypeInv, HartType, Steps, Began
    <3> QED
      BY <3>1 DEF Hart, ProgramStep, Ebreak, Dret, RomStep, CommandStep, ghosts
  <2> QED
    BY <2>1 DEF TypeInv, HartType
<1>4. CASE ProgramStep(h) \/ Ebreak(h) \/ Dret(h)
  <2>1. UNCHANGED <<at, step, s0, dscratch, owned>>
    BY <1>4 DEF ProgramStep, Ebreak, Dret, ghosts
  <2>2. /\ cause' \in [Harts -> {"NONE", "SWBP", "DEBUGINT", "STEP"}]
        /\ dpc' \in [Harts -> Labels]
    BY <1>1, <1>4 DEF ProgramStep, Ebreak, Dret, EnterDebugMode, TypeInv, HartType, Labels
  <2>3. single_step' \in [Harts -> {"NONE", "STEPPING", "STEPPED"}]
    BY <1>3, <1>4 DEF ProgramStep, Ebreak, Dret, TypeInv, HartType
  <2>4. \E p \in Labels : pc' = [pc EXCEPT ![h] = p]
    <3>1. "entry" \in Labels
      BY DEF Labels
    <3> QED
      BY <1>1, <1>2, <1>4, <3>1 DEF ProgramStep, Ebreak, Dret, EnterDebugMode
  <2>5. pc[h] \notin RomUses
    BY <1>4 DEF ProgramStep, Ebreak, Dret, RomUses
  <2>6. HartType /\ at' \in [Harts -> 0..6] /\ step' \in [Harts -> BOOLEAN]
    BY <2>1 DEF TypeInv, HartType
  <2>7. PICK p \in Labels : pc' = [pc EXCEPT ![h] = p]
    BY <2>4
  <2>8. /\ s0' = [s0 EXCEPT ![h] = s0[h]] /\ owned' = [owned EXCEPT ![h] = owned[h]]
        /\ dscratch' = [dscratch EXCEPT ![h] = dscratch[h]]
    BY <1>2, <2>1
  <2> QED
    BY <1>0, <1>1, <2>2, <2>3, <2>5, <2>6, <2>7, <2>8, HartTypeKept
<1>5. ASSUME RomStep(h) \/ CommandStep(h)
      PROVE  /\ single_step' \in [Harts -> {"NONE", "STEPPING", "STEPPED"}]
             /\ cause' \in [Harts -> {"NONE", "SWBP", "DEBUGINT", "STEP"}]
             /\ dpc' \in [Harts -> Labels] /\ step' \in [Harts -> BOOLEAN]
  <2>1. UNCHANGED <<cause, dpc>> /\ single_step' = [single_step EXCEPT ![h] = Stepped(@)]
    BY <1>5 DEF RomStep, CommandStep, Entry, TellHalted, TestGo, TestResume, Going, Resume,
                Exception, Local
  <2>2. UNCHANGED step \/ step' = [step EXCEPT ![h] = s0[h] = 1]
    BY <1>5 DEF RomStep, CommandStep, Entry, TellHalted, TestGo, TestResume, Going, Resume,
                Exception, Local, Word, Fault
  <2>3. step' \in [Harts -> BOOLEAN]
    BY <2>2 DEF TypeInv, HartType
  <2> QED
    BY <1>3, <2>1, <2>3 DEF TypeInv, HartType
<1>6. CASE RomStep(h)
  <2>1. /\ owned' = [owned EXCEPT ![h] = owned[h]]
        /\ at' \in [Harts -> 0..6]
    BY <1>2, <1>6 DEF RomStep, ghosts, Entry, TellHalted, TestGo, TestResume, Going, Resume,
                      Exception, Local, TypeInv, HartType
  <2>2. \E p \in Labels, x \in Words, y \in Data :
           /\ p \notin RomUses => x \in Data
           /\ pc' = [pc EXCEPT ![h] = p] /\ s0' = [s0 EXCEPT ![h] = x]
           /\ dscratch' = [dscratch EXCEPT ![h] = y]
    <3>1. CASE Entry(h)
      BY <1>1, <3>1 DEF Entry, Local, Labels, RomUses
    <3>2. CASE TestGo(h) \/ TestResume(h)
      BY <1>1, <1>2, <3>2 DEF TestGo, TestResume, Local, Labels, RomUses
    <3>3. CASE TellHalted(h)
      BY <1>1, <1>2, <3>3 DEF TellHalted, Labels, RomUses
    <3>4. CASE Going(h)
      BY <1>1, <1>2, <3>4 DEF Going, Labels, RomUses
    <3>5. CASE Resume(h)
      BY <1>1, <1>2, <3>5 DEF Resume, Labels, RomUses
    <3>6. CASE Exception(h)
      BY <1>1, <1>2, <3>6 DEF Exception, Labels, RomUses
    <3> QED
      BY <1>6, <3>1, <3>2, <3>3, <3>4, <3>5, <3>6 DEF RomStep
  <2>3. PICK p \in Labels, x \in Words, y \in Data :
           /\ p \notin RomUses => x \in Data
           /\ pc' = [pc EXCEPT ![h] = p] /\ s0' = [s0 EXCEPT ![h] = x]
           /\ dscratch' = [dscratch EXCEPT ![h] = y]
    BY <2>2
  <2> QED
    BY <1>0, <1>1, <1>5, <1>6, <2>1, <2>3, HartTypeKept DEF TypeInv
<1>7. CASE CommandStep(h)
  <2>1. pc[h] \in {"abstract", "progbuf"} /\ s0[h] \in Data
    BY <1>1, <1>7 DEF CommandStep, RomUses
  <2>2. WordAt(at[h]) # "zero" => at[h] + 1 \in 0..6
    <3>1. DOMAIN debug_abstract = 1 .. Len(debug_abstract) /\ Len(debug_abstract) \in Nat
      BY LenProperties DEF TypeInv, RegistersType
    <3> QED
      BY <1>1, <3>1 DEF WordAt, TypeInv, RegistersType
  <2>3. /\ \E p \in Labels \ RomUses : pc' = [pc EXCEPT ![h] = p]
        /\ \/ UNCHANGED at
           \/ at' = [at EXCEPT ![h] = at[h] + 1] /\ WordAt(at[h]) # "zero"
           \/ at' = [at EXCEPT ![h] = 0]
    <3>0. /\ "abstract" \in Labels \ RomUses /\ "progbuf" \in Labels \ RomUses
          /\ "entry" \in Labels \ RomUses /\ "exception" \in Labels \ RomUses
      BY DEF Labels, RomUses
    <3>1. CASE pc[h] = "abstract" /\ Word(h, WordAt(at[h]))
      <4>1. CASE Fault(h)
        <5>1. pc' = [pc EXCEPT ![h] = "exception"] /\ UNCHANGED at
          BY <4>1 DEF Fault
        <5> QED
          BY <3>0, <5>1, Zenon
      <4>2. CASE /\ pc' = [pc EXCEPT ![h] = "abstract"] /\ at' = [at EXCEPT ![h] = at[h] + 1]
                 /\ WordAt(at[h]) # "zero"
        BY <3>0, <4>2
      <4>3. CASE pc' = [pc EXCEPT ![h] = "progbuf"] /\ at' = [at EXCEPT ![h] = 0]
        BY <3>0, <4>3
      <4>4. CASE pc' = [pc EXCEPT ![h] = "entry"] /\ at' = [at EXCEPT ![h] = 0]
        BY <3>0, <4>4
      <4> QED
        BY <3>1, <4>1, <4>2, <4>3, <4>4 DEF Word
    <3>2. CASE pc[h] = "progbuf"
      <4>1. /\ UNCHANGED at
            /\ \/ pc' = [pc EXCEPT ![h] = "exception"]
               \/ pc' = [pc EXCEPT ![h] = "entry"]
        BY <1>7, <3>2 DEF CommandStep, Fault
      <4> QED
        BY <3>0, <4>1, Zenon
    <3> QED
      BY <1>7, <3>1, <3>2 DEF CommandStep
  <2>4. \E x \in Data : s0' = [s0 EXCEPT ![h] = x]
    BY <1>1, <1>2, <1>7, <2>1 DEF CommandStep, Word, Fault
  <2>5. \E y \in Data : dscratch' = [dscratch EXCEPT ![h] = y]
    BY <1>1, <1>2, <1>7, <2>1 DEF CommandStep, Word, Fault
  <2>6. \E z \in Data : owned' = [owned EXCEPT ![h] = z]
    BY <1>1, <1>2, <1>7, <2>1 DEF CommandStep, Word, Fault
  <2>7. at' \in [Harts -> 0..6]
    BY <2>2, <2>3 DEF TypeInv, HartType
  <2>8. PICK p \in Labels \ RomUses : pc' = [pc EXCEPT ![h] = p]
    BY <2>3
  <2>9. PICK x \in Data : s0' = [s0 EXCEPT ![h] = x]
    BY <2>4
  <2>10. PICK y \in Data : dscratch' = [dscratch EXCEPT ![h] = y]
    BY <2>5
  <2>11. PICK z \in Data : owned' = [owned EXCEPT ![h] = z]
    BY <2>6
  <2> QED
    BY <1>0, <1>1, <1>5, <1>7, <2>7, <2>8, <2>9, <2>10, <2>11, HartTypeKept DEF TypeInv
<1> QED
  BY <1>4, <1>6, <1>7 DEF Hart

LEMMA TypeInvariant == Spec => []TypeInv
<1>1. Init => TypeInv
  <2> SUFFICES ASSUME Init PROVE TypeInv
    OBVIOUS
  <2>1. RegistersType
    <3>1. debug_abstract \in Seq(AbstractWords) /\ Len(debug_abstract) = 0
      BY EmptySeq DEF Init, DmInit
    <3>2. require_authentication \in BOOLEAN
      <4>1. debugger \in Debuggers
        BY DEF Init
      <4> QED
        BY <4>1, DebuggersAssumption DEF Init
    <3>3. authenticated \in BOOLEAN /\ busy \in BOOLEAN /\ cmderr \in CmdErrs
      BY <3>2 DEF Init, DmInit, CmdErrs
    <3>4. halted \in [HartSels -> BOOLEAN] /\ havereset \in [HartSels -> BOOLEAN]
      BY DEF Init, DmInit
    <3>5. command \in Command /\ abstractauto \in SUBSET {"data", "progbuf"}
      BY DEF Init, DmInit, Command, NoCommand, Registers
    <3>6. dmdata \in Data /\ custom_base \in Data /\ program_buffer \in UserPrograms
      BY HartsAssumption DEF Init, DmInit
    <3> QED
      BY <3>1, <3>2, <3>3, <3>4, <3>5, <3>6 DEF RegistersType
  <2>2. s0 \in [Harts -> Data] /\ owned = s0 /\ dscratch = s0
    BY DEF Init
  <2>3. HartType
    BY <2>2 DEF Init, HartType, NoWord, NoStep, Steps, Labels, Words
  <2> QED
    BY <2>1, <2>3, AckInitially DEF TypeInv
<1>2. TypeInv /\ [Next]_vars => TypeInv'
  <2> SUFFICES ASSUME TypeInv, [Next]_vars PROVE TypeInv'
    OBVIOUS
  <2>1. AckInv'
    BY AckStep DEF TypeInv
  <2>2. CASE UNCHANGED vars
    BY <2>1, <2>2 DEF vars, dmVars, dmControls, dmMemory, dmHarts, hartVars, ghosts,
                      TypeInv, RegistersType, HartType
  <2> QED
    BY <2>1, <2>2, DmiTypes, HartRegisters, HartTypes DEF Next, TypeInv
<1> QED
  BY <1>1, <1>2, PTL DEF Spec

(* The registers of the module and of the harts keep their types: what the *)
(* ROM leaves in s0 never reaches the data word.                           *)
THEOREM TypeCorrect == Spec => []DebugTypeOK
<1>1. TypeInv => DebugTypeOK
  BY DEF TypeInv, AckInv, FlagsType, ControlType, RegistersType, HartType, DebugTypeOK, TypeOK, Words
<1> QED
  BY <1>1, TypeInvariant, PTL

-----------------------------------------------------------------------------
(* Authentication.                                                         *)

LEMMA LockedAccess ==
  ASSUME TypeInv, Dmi, ~authenticated', abstractauto = {}
  PROVE  LeavesHarts
<1>1. CASE UNCHANGED <<dmHarts, hartVars>>
  BY <1>1 DEF LeavesHarts, dmHarts
<1>2. ASSUME UNCHANGED hartVars, (\E d : TouchData(d)) \/ (\E p : TouchProgbuf(p))
      PROVE  LeavesHarts
  BY <1>2 DEF TouchData, TouchProgbuf, LeavesHarts
<1>3. ASSUME \/ \E c : WriteCommand(c)
             \/ \E d : WriteData(d)
             \/ \E p : WriteProgbuf(p)
             \/ WriteAbstractcs
             \/ \E a : WriteAbstractauto(a)
      PROVE  FALSE
  BY <1>3 DEF WriteCommand, WriteData, WriteProgbuf, TouchData, TouchProgbuf, WriteAbstractcs,
              WriteAbstractauto, dmControls
<1>4. ASSUME ReadDmcontrol \/ \E key : WriteAuthdata(key)
      PROVE  UNCHANGED dmHarts
  BY <1>4 DEF ReadDmcontrol, WriteAuthdata
<1>5. ASSUME NEW v, NEW ack, WriteDmcontrol(v, ack), ResetHarts(ResetBy(v))
      PROVE  LeavesHarts
  <2>1. ~Heard(v) /\ ResetBy(v) = {}
    BY <1>5 DEF WriteDmcontrol, Heard, ResetBy
  <2>2. \A h \in Harts : halt_request'[h] => halt_request[h]
    BY <1>5, <2>1 DEF WriteDmcontrol
  <2>3. UNCHANGED <<debug_rom_flags, resumeack>>
    BY <1>5, <2>1 DEF WriteDmcontrol
  <2>4. halted' = halted
    BY <1>5, <2>1 DEF WriteDmcontrol, TypeInv, RegistersType
  <2>5. ResetHarts({})
    BY <1>5, <2>1
  <2>6. UNCHANGED hartVars
    <3>1. UNCHANGED <<pc, at, cause, dpc>>
      BY <2>5 DEF ResetHarts, TypeInv, HartType
    <3>2. UNCHANGED <<step, single_step, s0, dscratch>>
      BY <2>5 DEF ResetHarts, TypeInv, HartType
    <3> QED
      BY <3>1, <3>2 DEF hartVars
  <2> QED
    BY <2>2, <2>3, <2>4, <2>6 DEF LeavesHarts
<1> QED
  BY <1>1, <1>2, <1>3, <1>4, <1>5 DEF Dmi, ReadData, ReadProgbuf

(* A debugger that has not authenticated halts, resumes and resets no hart *)
(* and starts no command, as long as no command is set to repeat itself.   *)
THEOREM LockedModule == Spec => LockedModuleLeavesHarts
<1>1. TypeInv /\ [Next]_vars =>
        [dmis' # dmis /\ ~authenticated' /\ abstractauto = {} => LeavesHarts]_vars
  <2>1. ASSUME NEW h \in Harts, Hart(h) PROVE dmis' = dmis
    BY <2>1 DEF Hart, ProgramStep, Ebreak, RomStep, Dret, CommandStep, ghosts
  <2> QED
    BY <2>1, LockedAccess DEF Next
<1> QED
  BY <1>1, TypeInvariant, PTL DEF Spec, LockedModuleLeavesHarts

-----------------------------------------------------------------------------
(* Abstract commands.  Where a hart is in a command, and what s0, dscratch *)
(* and the data word hold there, follows from the words of the command.    *)

Program(c) == Append(Access(c), IF c.postexec THEN "jal" ELSE "ebreak")

(* The words in debug_abstract while busy are those of the accepted        *)
(* command, one that is supported.                                         *)
Loaded ==
    LET c == accepted.command
    IN  /\ c \in Command /\ c.reg \in {"NONE", "S0", "FPR", "CSR", "BADCSR"}
        /\ \A i \in 1 .. Len(Program(c)) : WordAt(i) = Program(c)[i]

Places ==
    /\ \A h \in HartSels : halted[h] => h \in Harts /\ pc[h] \notin {"program", "dret"}
    /\ \A h \in Harts : dpc[h] \in {"program", "entry"}

(* One hart of a careful debugger: it has a command before it or runs one  *)
(* only when it is selected and the module is busy, and then no request to *)
(* resume.                                                                 *)
Pending(h) == "GO" \in debug_rom_flags[h] \/ Executing(h)

Turn(h) ==
    /\ busy /\ h = hartsel => halted[h] /\ (Pending(h) \/ pc[h] \in {"entry", "loop"})
    /\ Pending(h) => busy /\ h = hartsel
    /\ "GO" \in debug_rom_flags[h] => "RESUME" \notin debug_rom_flags[h]
    /\ pc[h] = "resume" => "RESUME" \in debug_rom_flags[h]
    /\ pc[h] = "going" => "GO" \in debug_rom_flags[h]
    /\ pc[h] \in {"abstract", "progbuf", "exception"} => "GO" \notin debug_rom_flags[h]

(* The commands are among those of the debugger: what it may ask for.      *)
Asked == {command, accepted.command} \subseteq debugger.commands \union {NoCommand}

(* The s0 of the program: in dscratch while the ROM uses s0 for itself.  A *)
(* debugger that spares s0 finds the one it gave the hart, or the program  *)
(* left there.                                                             *)
Held(h) == IF pc[h] \in RomUses THEN dscratch[h] ELSE s0[h]
Own(h, x) == SparesS0 => x = owned[h]

(* Before word at[h] of command c, that was given the data word d.         *)
Bit(b) == IF b THEN 1 ELSE 0
Csr(c) == c.reg \in {"CSR", "BADCSR"}

Progress(h, c, d) ==
    /\ at[h] \in 1 .. Len(Program(c))
    /\ ~Csr(c) \/ at[h] \in {1, 2, 5} => Own(h, s0[h])
    /\ Csr(c) /\ at[h] \in {2, 3, 4} => Own(h, dscratch[h])
    /\ Csr(c) /\ c.write =>
          /\ at[h] \in {1, 2} => dmdata = d
          /\ at[h] = 3 => s0[h] = d
          /\ at[h] \in {4, 5} => c.reg = "CSR" /\ (step[h] <=> d = 1)
    /\ Csr(c) /\ ~c.write =>
          /\ at[h] = 3 => c.reg = "CSR" /\ s0[h] = Bit(step[h])
          /\ at[h] \in {4, 5} => c.reg = "CSR" /\ dmdata = Bit(step[h])
    /\ c.reg = "S0" /\ c.write => IF at[h] = 1 THEN dmdata = d ELSE s0[h] = d
    /\ c.reg = "S0" /\ ~c.write /\ at[h] # 1 => dmdata = s0[h]

(* What the command leaves.                                                *)
Effects(h, c, d) ==
    /\ c.reg # "BADCSR"
    /\ c.reg = "S0" => IF c.write THEN Held(h) = d ELSE dmdata = Held(h)
    /\ c.reg = "CSR" => IF c.write THEN step[h] <=> d = 1 ELSE dmdata = Bit(step[h])

Stage(h) ==
    /\ "GO" \in debug_rom_flags[h] => dmdata = accepted.data
    /\ pc[h] = "abstract" => Progress(h, accepted.command, accepted.data)
    /\ pc[h] = "progbuf" => Effects(h, accepted.command, accepted.data)
    /\ /\ pc[h] \in {"entry", "loop"} /\ "GO" \notin debug_rom_flags[h]
       /\ busy /\ h = hartsel /\ cmderr = "NONE"
       => Effects(h, accepted.command, accepted.data)
    /\ pc[h] # "abstract" => Own(h, Held(h))

CommandInv ==
    /\ TypeInv /\ Places /\ Asked
    /\ busy => Loaded
    /\ careful => (busy => exists) /\ \A h \in Harts : Turn(h) /\ Stage(h)

(* The words of each command.                                              *)
LEMMA Written ==
  /\ \A a : Len(<<a>>) = 1 /\ <<a>>[1] = a
  /\ \A a, b, c, d : LET w == <<a, b, c, d>>
                     IN  Len(w) = 4 /\ w[1] = a /\ w[2] = b /\ w[3] = c /\ w[4] = d
OBVIOUS

LEMMA WordsLoaded ==
  ASSUME Loaded, NEW c, c = accepted.command
  PROVE  /\ Csr(c) => /\ Len(Program(c)) = 5 /\ WordAt(1) = "save" /\ WordAt(4) = "restore"
                      /\ c.write => WordAt(2) = "ld" /\ WordAt(3) = "csrw"
                      /\ ~c.write => WordAt(2) = "csrr" /\ WordAt(3) = "st"
                      /\ WordAt(5) \in {"jal", "ebreak"}
         /\ c.reg = "S0" => /\ Len(Program(c)) = 2 /\ WordAt(2) \in {"jal", "ebreak"}
                            /\ WordAt(1) = IF c.write THEN "ld" ELSE "st"
         /\ c.reg = "FPR" => /\ Len(Program(c)) = 2 /\ WordAt(1) = "float"
                             /\ WordAt(2) \in {"jal", "ebreak"}
         /\ c.reg = "NONE" => Len(Program(c)) = 1 /\ WordAt(1) \in {"jal", "ebreak"}
<1> DEFINE last == IF c.postexec THEN "jal" ELSE "ebreak"
           a == Access(c)
           p == Program(c)
           n == Len(a)
<1>1. /\ c \in Command /\ last \in {"jal", "ebreak"} /\ last \in AbstractWords
      /\ \A i \in 1 .. Len(p) : WordAt(i) = p[i]
  BY DEF Loaded, AbstractWords
<1>2. a \in Seq(AbstractWords) /\ p = Append(a, last) /\ n \in Nat
  BY <1>1, WordsOfCommand, LenProperties DEF Program
<1>3. Len(p) = n + 1 /\ p[n + 1] = last /\ \A i \in 1 .. n : p[i] = a[i]
  BY <1>1, <1>2, AppendProperties
<1>4. /\ Csr(c) /\ c.write => a = <<"save", "ld", "csrw", "restore">>
      /\ Csr(c) /\ ~c.write => a = <<"save", "csrr", "st", "restore">>
      /\ c.reg = "S0" /\ c.write => a = <<"ld">>
      /\ c.reg = "S0" /\ ~c.write => a = <<"st">>
      /\ c.reg = "FPR" => a = <<"float">>
      /\ c.reg = "NONE" => a = << >>
  BY DEF Access, Csr
<1> HIDE DEF last, p, a
<1>5. n = 4 => /\ Len(p) = 5 /\ WordAt(5) = last
               /\ \A i \in {1, 2, 3, 4} : WordAt(i) = a[i]
  BY <1>1, <1>3
<1>6. n = 1 => Len(p) = 2 /\ WordAt(2) = last /\ WordAt(1) = a[1]
  BY <1>1, <1>3
<1>7. n = 0 => Len(p) = 1 /\ WordAt(1) = last
  BY <1>1, <1>3
<1>8. Csr(c) => /\ n = 4 /\ a[1] = "save" /\ a[4] = "restore"
                /\ c.write => a[2] = "ld" /\ a[3] = "csrw"
                /\ ~c.write => a[2] = "csrr" /\ a[3] = "st"
  BY ONLY <1>4, Written
<1>9. /\ c.reg = "S0" => n = 1 /\ a[1] = IF c.write THEN "ld" ELSE "st"
      /\ c.reg = "FPR" => n = 1 /\ a[1] = "float"
      /\ c.reg = "NONE" => n = 0
  BY ONLY <1>4, Written
<1>10. Csr(c) => /\ Len(p) = 5 /\ WordAt(1) = "save" /\ WordAt(4) = "restore"
                 /\ c.write => WordAt(2) = "ld" /\ WordAt(3) = "csrw"
                 /\ ~c.write => WordAt(2) = "csrr" /\ WordAt(3) = "st"
                 /\ WordAt(5) = last
  BY ONLY <1>5, <1>8
<1>11. /\ c.reg = "S0" => /\ Len(p) = 2 /\ WordAt(2) = last
                          /\ WordAt(1) = IF c.write THEN "ld" ELSE "st"
       /\ c.reg = "FPR" => Len(p) = 2 /\ WordAt(1) = "float" /\ WordAt(2) = last
       /\ c.reg = "NONE" => Len(p) = 1 /\ WordAt(1) = last
  BY ONLY <1>6, <1>7, <1>9
<1> QED
  BY <1>1, <1>10, <1>11 DEF p

(* A command that is taken, and an access that is not one.                 *)
LEMMA OverwriteWords ==
  ASSUME TypeInv, NEW words \in Seq(AbstractWords)
  PROVE  \A i \in 1 .. Len(words) :
            i \in DOMAIN Overwrite(words) /\ Overwrite(words)[i] = words[i]
<1> DEFINE m == Len(words) + 1
           n == Len(debug_abstract)
           rest == SubSeq(debug_abstract, m, n)
<1>1. /\ debug_abstract \in Seq(AbstractWords) /\ m \in Nat /\ n \in Nat /\ m >= 1
      /\ Overwrite(words) = words \o rest
  BY LenProperties DEF TypeInv, RegistersType, Overwrite
<1>2. rest \in Seq(AbstractWords)
  <2>1. \A i \in m .. n : i \in 1 .. n
    BY <1>1
  <2> QED
    BY <1>1, <2>1, ElementOfSeq, SubSeqProperties
<1>3. /\ words \o rest \in Seq(AbstractWords)
      /\ Len(words \o rest) = Len(words) + Len(rest)
      /\ \A i \in 1 .. Len(words) : (words \o rest)[i] = words[i]
  BY <1>2, ConcatProperties
<1>4. DOMAIN (words \o rest) = 1 .. Len(words) + Len(rest) /\ Len(words) \in Nat /\ Len(rest) \in Nat
  BY <1>2, <1>3, LenProperties
<1> QED
  BY <1>1, <1>3, <1>4

KeptBusy ==
    /\ UNCHANGED <<busy, debug_rom_flags>>
    /\ busy => UNCHANGED <<debug_abstract, dmdata>> /\ (cmderr' = "NONE" => cmderr = "NONE")

Begins(c, d) ==
    /\ ~busy /\ busy' /\ halted[hartsel]
    /\ debug_rom_flags' = [debug_rom_flags EXCEPT ![hartsel] = @ \union {"GO"}]
    /\ dmdata' = d
    /\ c \in Command /\ c.reg \in {"NONE", "S0", "FPR", "CSR", "BADCSR"}
    /\ \A i \in 1 .. Len(Program(c)) :
          i \in DOMAIN debug_abstract' /\ debug_abstract'[i] = Program(c)[i]

LEMMA PerformCases ==
  ASSUME TypeInv, NEW c \in Command, NEW d, PerformAbstractCommand(c, d), busy => d = dmdata
  PROVE  KeptBusy \/ Begins(c, d)
<1>1. CASE Refusal(c) # "NONE"
  <2>1. /\ cmderr' # "NONE" /\ dmdata' = d /\ UNCHANGED <<busy, debug_rom_flags>>
        /\ (cmderr = "NONE" /\ Refusal(c) = "NOTSUP") \/ UNCHANGED debug_abstract
    BY <1>1 DEF PerformAbstractCommand
  <2>2. busy => ~(cmderr = "NONE" /\ Refusal(c) = "NOTSUP")
    BY DEF Refusal
  <2> QED
    BY <2>1, <2>2 DEF KeptBusy
<1>2. CASE Refusal(c) = "NONE"
  <2>1. ~busy /\ cmderr = "NONE"
    BY <1>2 DEF Refusal, TypeInv, RegistersType, CmdErrs
  <2>2. CASE c.reg = "CUSTOM"
    BY <1>2, <2>1, <2>2 DEF PerformAbstractCommand, KeptBusy
  <2>3. CASE c.reg # "CUSTOM"
    <3>1. halted[hartsel] /\ Supported(c) /\ c.reg # "OTHER"
      BY <1>2, <2>1 DEF Refusal
    <3>2. c.reg \in {"NONE", "S0", "FPR", "CSR", "BADCSR"}
      BY <2>3, <3>1 DEF Supported, Command, Registers
    <3>3. /\ debug_rom_flags' = [debug_rom_flags EXCEPT ![hartsel] = @ \union {"GO"}]
          /\ busy' = TRUE /\ dmdata' = d
          /\ debug_abstract' = Overwrite(Program(c))
      BY <1>2, <2>3 DEF PerformAbstractCommand, Program
    <3>4. Program(c) \in Seq(AbstractWords)
      <4> DEFINE w == IF c.postexec THEN "jal" ELSE "ebreak"
      <4>1. w \in AbstractWords /\ Program(c) = Append(Access(c), w)
        BY DEF Program, AbstractWords
      <4> HIDE DEF w
      <4> QED
        BY <4>1, WordsOfCommand, AppendProperties
    <3> QED
      BY <2>1, <3>1, <3>2, <3>3, <3>4, OverwriteWords DEF Begins
  <2> QED
    BY <2>2, <2>3
<1> QED
  BY <1>1, <1>2

LEMMA TouchCases ==
  ASSUME TypeInv, NEW d \in Data, NEW p,
         TouchData(d) \/ (TouchProgbuf(p) /\ d = dmdata)
  PROVE  KeptBusy \/ Begins(command, d)
<1>1. command \in Command
  BY DEF TypeInv, RegistersType
<1>2. CASE ~busy /\ PerformAbstractCommand(command, d)
  BY <1>1, <1>2, PerformCases
<1>3. CASE /\ UNCHANGED <<busy, debug_rom_flags>>
           /\ busy => UNCHANGED <<debug_abstract, dmdata>>
           /\ busy => cmderr' = cmderr \/ cmderr' = "BUSY"
  BY <1>3 DEF KeptBusy
<1>4. CASE TouchData(d)
  <2>1. CASE busy
    BY <1>3, <1>4, <2>1 DEF TouchData
  <2> QED
    BY <1>2, <1>3, <1>4, <2>1 DEF TouchData
<1>5. CASE TouchProgbuf(p) /\ d = dmdata
  BY <1>2, <1>3, <1>5 DEF TouchProgbuf
<1> QED
  BY <1>4, <1>5

(* The three kinds of access.                                              *)
Frozen == UNCHANGED <<hartVars, owned, halted, hartsel, debugger>>

Keeps ==
    /\ Frozen /\ UNCHANGED <<busy, debug_rom_flags, accepted>>
    /\ busy => UNCHANGED debug_abstract
    /\ careful /\ busy => UNCHANGED dmdata /\ (cmderr' = "NONE" => cmderr = "NONE")

Starts ==
    /\ Frozen /\ MayCommand
    /\ \E c \in Command, d \in Data : Begins(c, d) /\ accepted' = [command |-> c, data |-> d]

Controls ==
    \E v \in DmControls, ack \in BOOLEAN :
        /\ MayControl(v) /\ WriteDmcontrol(v, ack) /\ ResetHarts(ResetBy(v))
        /\ UNCHANGED <<accepted, debugger>>

LEMMA AccessCases ==
  ASSUME TypeInv, Dmi
  PROVE  Keeps \/ Starts \/ Controls
<1>1. /\ debugger.commands \subseteq Command /\ debugger.controls \subseteq DmControls
      /\ debugger.data \subseteq Data /\ debugger.programs \subseteq UserPrograms
      /\ debugger.acks \subseteq BOOLEAN /\ command \in Command /\ dmdata \in Data
  BY DebuggersAssumption DEF TypeInv, AckInv, ControlType, RegistersType
<1>2. debugger' = debugger
  BY DEF Dmi
<1>3. ASSUME NEW c \in Command, NEW d \in Data, KeptBusy \/ Begins(c, d), Accept(c, d),
             UNCHANGED <<hartVars, owned, halted, dmcontrol>>, MayCommand
      PROVE  Keeps \/ Starts
  <2>1. Frozen
    BY <1>2, <1>3 DEF Frozen, hartsel
  <2>2. CASE KeptBusy
    <3>1. UNCHANGED accepted
      BY <1>3, <2>2 DEF KeptBusy, Accept
    <3> QED
      BY <2>1, <2>2, <3>1 DEF KeptBusy, Keeps
  <2>3. CASE Begins(c, d)
    <3>1. accepted' = [command |-> c, data |-> d]
      BY <1>3, <2>3 DEF Begins, Accept
    <3> QED
      BY <1>3, <2>1, <2>3, <3>1 DEF Starts
  <2> QED
    BY <1>3, <2>2, <2>3
<1>4. ASSUME NEW c \in Command, WriteCommand(c), Accept(c, dmdata), MayCommand,
             UNCHANGED <<hartVars, owned>>
      PROVE  Keeps \/ Starts
  <2>1. UNCHANGED <<halted, dmcontrol>> /\ PerformAbstractCommand(c, dmdata)
    BY <1>4 DEF WriteCommand
  <2>2. KeptBusy \/ Begins(c, dmdata)
    BY <2>1, PerformCases
  <2> QED
    BY <1>1, <1>3, <1>4, <2>1, <2>2
<1>5. ASSUME NEW d \in Data, NEW p, TouchData(d) \/ (TouchProgbuf(p) /\ d = dmdata),
             Accept(command, d), MayCommand, UNCHANGED <<hartVars, owned>>
      PROVE  Keeps \/ Starts
  <2>1. UNCHANGED <<halted, dmcontrol>>
    BY <1>5 DEF TouchData, TouchProgbuf, dmControls
  <2>2. KeptBusy \/ Begins(command, d)
    BY <1>5, TouchCases
  <2> QED
    BY <1>1, <1>3, <1>5, <2>1, <2>2
<1>6. ASSUME careful => ~busy, WriteAbstractcs \/ \E a : WriteAbstractauto(a),
             UNCHANGED <<accepted, hartVars, owned>>
      PROVE  Keeps
  BY <1>2, <1>6 DEF WriteAbstractcs, WriteAbstractauto, Keeps, Frozen, hartsel, dmControls,
                    dmMemory, dmHarts
<1>7. ASSUME ReadDmcontrol \/ \E key : WriteAuthdata(key), UNCHANGED <<accepted, hartVars, owned>>
      PROVE  Keeps
  <2>1. UNCHANGED <<dmMemory, dmHarts, busy, cmderr>>
    BY <1>7 DEF ReadDmcontrol, WriteAuthdata
  <2>2. hartsel' = hartsel
    BY <1>7 DEF ReadDmcontrol, WriteAuthdata, hartsel, TypeInv, AckInv, ControlType, DmControls
  <2> QED
    BY <1>2, <1>7, <2>1, <2>2 DEF Keeps, Frozen, dmMemory, dmHarts
<1>8. ASSUME NEW v \in DmControls, NEW ack \in BOOLEAN, MayControl(v), WriteDmcontrol(v, ack),
             ResetHarts(ResetBy(v)), UNCHANGED accepted
      PROVE  Controls
  BY <1>2, <1>8 DEF Controls
<1>9. CASE \E v \in debugger.controls, ack \in debugger.acks :
              MayControl(v) /\ WriteDmcontrol(v, ack) /\ ResetHarts(ResetBy(v)) /\ UNCHANGED accepted
  BY <1>1, <1>8, <1>9
<1>10. CASE /\ UNCHANGED <<hartVars, owned>> /\ MayCommand
            /\ \/ \E c \in debugger.commands : WriteCommand(c) /\ Accept(c, dmdata)
               \/ ReadData /\ Accept(command, dmdata)
               \/ \E d \in debugger.data : WriteData(d) /\ Accept(command, d)
               \/ ReadProgbuf /\ Accept(command, dmdata)
               \/ \E p \in debugger.programs : WriteProgbuf(p) /\ Accept(command, dmdata)
  BY <1>1, <1>4, <1>5, <1>10 DEF ReadData, WriteData, ReadProgbuf, WriteProgbuf
<1> QED
  BY <1>6, <1>7, <1>9, <1>10 DEF Dmi

LEMMA Frees ==
  ASSUME TypeInv
  PROVE  /\ hartsel \in HartSels
         /\ \A h \in Harts : h \in HartSels /\ ("GO" \in debug_rom_flags[h] => Pending(h))
BY DEF TypeInv, AckInv, ControlType, DmControls, hartsel, Pending

LEMMA SparesKept == UNCHANGED debugger => (SparesS0' <=> SparesS0)
BY DEF SparesS0

LEMMA AskedStep == Asked /\ [Next]_vars => Asked'
<1> SUFFICES ASSUME Asked, [Next]_vars PROVE Asked'
  OBVIOUS
<1>1. CASE UNCHANGED <<debugger, accepted, command>>
  BY <1>1 DEF Asked
<1>2. ASSUME UNCHANGED debugger, NEW c \in debugger.commands \union {NoCommand}, command' = c,
             NEW d, Accept(c, d)
      PROVE  Asked'
  <2>1. accepted' \in {accepted, [command |-> c, data |-> d]}
    BY <1>2 DEF Accept
  <2> QED
    BY <1>2, <2>1 DEF Asked
<1>3. ASSUME NEW h \in Harts, Hart(h) PROVE UNCHANGED <<debugger, accepted, command>>
  BY <1>3 DEF Hart, ProgramStep, Ebreak, RomStep, Dret, CommandStep, Word, Fault, Local, Entry,
              TellHalted, TestGo, TestResume, Going, Resume, Exception, StoreHalted, StoreGoing,
              StoreResuming, StoreException, StoreData, dmVars, dmControls, ghosts
<1>4. CASE Dmi
  <2>1. debugger' = debugger /\ command \in debugger.commands \union {NoCommand}
    BY <1>4 DEF Dmi, Asked
  <2>2. ASSUME NEW c \in debugger.commands, WriteCommand(c), Accept(c, dmdata)
        PROVE  Asked'
    BY <1>2, <2>1, <2>2 DEF WriteCommand
  <2>3. ASSUME NEW d, NEW p, TouchData(d) \/ TouchProgbuf(p), NEW e, Accept(command, e)
        PROVE  Asked'
    BY <1>2, <2>1, <2>3 DEF TouchData, TouchProgbuf, dmControls
  <2>4. ASSUME \/ WriteAbstractcs \/ \E a : WriteAbstractauto(a)
               \/ ReadDmcontrol \/ \E key : WriteAuthdata(key)
               \/ \E v, ack : WriteDmcontrol(v, ack)
        PROVE  command' = command
    BY <2>4 DEF WriteAbstractcs, WriteAbstractauto, ReadDmcontrol, WriteAuthdata, WriteDmcontrol,
                dmControls
  <2> QED
    BY <1>1, <1>4, <2>1, <2>2, <2>3, <2>4 DEF Dmi, ReadData, WriteData, ReadProgbuf, WriteProgbuf
<1> QED
  BY <1>1, <1>3, <1>4 DEF Next, vars, dmVars, dmControls, ghosts

LEMMA KeepsCommands ==
  ASSUME CommandInv, Keeps, TypeInv', Asked'
  PROVE  CommandInv'
<1>1. UNCHANGED <<pc, at, step, s0, dscratch, owned, dpc, halted, hartsel, debugger, busy,
                  debug_rom_flags, accepted>>
  BY DEF Keeps, Frozen, hartVars
<1>2. Places'
  BY <1>1 DEF CommandInv, Places
<1>3. busy' => Loaded'
  BY <1>1 DEF CommandInv, Loaded, WordAt, Keeps
<1>4. ASSUME careful' PROVE (busy' => exists') /\ \A h \in Harts : Turn(h)' /\ Stage(h)'
  <2>1. careful /\ exists' = exists
    BY <1>1, <1>4 DEF careful, exists
  <2>2. ASSUME NEW h \in Harts PROVE Turn(h)' /\ Stage(h)'
    <3>1. Turn(h) /\ Stage(h) /\ (SparesS0' <=> SparesS0)
      BY <1>1, <2>1, SparesKept DEF CommandInv
    <3>2. Turn(h)' /\ Pending(h)' = Pending(h)
      BY <1>1, <3>1 DEF Turn, Pending, Executing
    <3>3. CASE busy
      <4>1. UNCHANGED dmdata /\ (cmderr' = "NONE" => cmderr = "NONE")
        BY <2>1, <3>3 DEF Keeps
      <4> QED
        BY <1>1, <3>1, <3>2, <4>1 DEF Stage, Progress, Effects, Own, Held
    <3>4. CASE ~busy
      <4>1. ~Pending(h)
        BY <3>1, <3>4 DEF Turn
      <4> QED
        BY <1>1, <3>1, <3>2, <3>4, <4>1 DEF Stage, Pending, Executing, Own, Held
    <3> QED
      BY <3>3, <3>4
  <2> QED
    BY <2>1, <2>2, <1>1 DEF CommandInv
<1> QED
  BY <1>2, <1>3, <1>4 DEF CommandInv

LEMMA StartsCommands ==
  ASSUME CommandInv, Starts, TypeInv', Asked'
  PROVE  CommandInv'
<1>1. PICK c \in Command, d \in Data : Begins(c, d) /\ accepted' = [command |-> c, data |-> d]
  BY DEF Starts
<1>2. UNCHANGED <<pc, at, step, s0, dscratch, owned, dpc, halted, hartsel, debugger>>
  BY DEF Starts, Frozen, hartVars
<1>3. Places' /\ halted[hartsel] /\ exists
  BY <1>1, <1>2, Frees DEF CommandInv, Places, Begins, exists
<1>4. Loaded'
  <2>1. accepted.command' = c
    BY <1>1
  <2> QED
    BY <1>1, <2>1 DEF Begins, Loaded, WordAt
<1>5. ASSUME careful' PROVE (busy' => exists') /\ \A h \in Harts : Turn(h)' /\ Stage(h)'
  <2>1. careful /\ ~busy /\ busy' /\ exists' /\ "RESUME" \notin debug_rom_flags[hartsel]
    BY <1>1, <1>2, <1>3, <1>5 DEF careful, exists, Begins, Starts, MayCommand, Resuming
  <2>2. /\ "GO" \in debug_rom_flags'[hartsel] /\ "RESUME" \notin debug_rom_flags'[hartsel]
        /\ \A h \in Harts \ {hartsel} : debug_rom_flags'[h] = debug_rom_flags[h]
        /\ dmdata' = accepted'.data
    BY <1>1, <2>1, Frees DEF Begins, TypeInv, AckInv, FlagsType, CommandInv
  <2>3. ASSUME NEW h \in Harts PROVE Turn(h)' /\ Stage(h)'
    <3>1. Turn(h) /\ Stage(h) /\ ~Pending(h) /\ (SparesS0' <=> SparesS0)
      BY <1>2, <2>1, SparesKept DEF CommandInv, Turn
    <3>2. CASE h = hartsel
      BY <1>2, <1>3, <2>1, <2>2, <3>1, <3>2 DEF Turn, Stage, Pending, Executing, Own, Held
    <3>3. CASE h # hartsel
      BY <1>2, <2>2, <3>1, <3>3 DEF Turn, Stage, Pending, Executing, Own, Held
    <3> QED
      BY <3>2, <3>3
  <2> QED
    BY <2>1, <2>3
<1> QED
  BY <1>3, <1>4, <1>5 DEF CommandInv

LEMMA ControlsCommands ==
  ASSUME CommandInv, Controls, TypeInv', Asked'
  PROVE  CommandInv'
<1>1. PICK v \in DmControls, ack \in BOOLEAN :
         /\ MayControl(v) /\ WriteDmcontrol(v, ack) /\ ResetHarts(ResetBy(v))
         /\ UNCHANGED <<accepted, debugger>>
  BY DEF Controls
<1> DEFINE hs == ResetBy(v)
<1>2. /\ halted' = [h \in HartSels |-> halted[h] /\ h \notin hs]
      /\ UNCHANGED <<debug_abstract, dmdata>> /\ (busy' => busy)
      /\ \A h \in Harts : "GO" \in debug_rom_flags'[h] <=> "GO" \in debug_rom_flags[h]
      /\ \A h \in Harts : "RESUME" \in debug_rom_flags[h] => "RESUME" \in debug_rom_flags'[h]
  <2> DEFINE sel == ControlAfter(v).hartsel
  <2>1. \/ UNCHANGED debug_rom_flags
        \/ debug_rom_flags' = [debug_rom_flags EXCEPT ![sel] = @ \union {"RESUME"}]
    BY <1>1 DEF WriteDmcontrol
  <2>2. /\ halted' = [h \in HartSels |-> halted[h] /\ h \notin hs]
        /\ UNCHANGED <<debug_abstract, dmdata>> /\ (busy' => busy)
    BY <1>1 DEF WriteDmcontrol, dmMemory
  <2> HIDE DEF sel, hs
  <2>3. \A h \in Harts : debug_rom_flags'[h] \in {debug_rom_flags[h], debug_rom_flags[h] \union {"RESUME"}}
    BY <2>1 DEF CommandInv, TypeInv, AckInv, FlagsType
  <2> QED
    BY <2>2, <2>3
<1> HIDE DEF hs
<1>3. /\ \A h \in Harts : h \in hs => /\ pc'[h] = "program" /\ dpc'[h] = "program"
                                      /\ s0'[h] = owned'[h] /\ dscratch'[h] = owned'[h]
      /\ \A h \in Harts : h \notin hs =>
            UNCHANGED <<pc[h], dpc[h], at[h], step[h], s0[h], dscratch[h], owned[h]>>
  BY <1>1 DEF ResetHarts, hs
<1>4. Places'
  BY <1>2, <1>3 DEF CommandInv, Places
<1>5. busy' => Loaded'
  BY <1>1, <1>2 DEF CommandInv, Loaded, WordAt
<1>6. ASSUME careful' PROVE (busy' => exists') /\ \A h \in Harts : Turn(h)' /\ Stage(h)'
  <2>1. careful /\ ~busy /\ ~busy'
    BY <1>1, <1>2, <1>6 DEF careful, MayControl
  <2>2. ASSUME NEW h \in Harts PROVE Turn(h)' /\ Stage(h)'
    <3>1. Turn(h) /\ Stage(h) /\ ~Pending(h) /\ (SparesS0' <=> SparesS0)
      BY <1>1, <2>1, SparesKept DEF CommandInv, Turn
    <3>2. "GO" \notin debug_rom_flags'[h]
      BY <1>2, <3>1 DEF Pending
    <3>3. CASE h \in hs
      BY <1>3, <2>1, <3>2, <3>3 DEF Turn, Stage, Pending, Executing, RomUses, Own, Held
    <3>4. CASE h \notin hs
      <4>1. UNCHANGED <<pc[h], s0[h], dscratch[h], owned[h]>>
        BY <1>3, <3>4
      <4> QED
        BY <1>2, <2>1, <3>1, <3>2, <4>1 DEF Turn, Stage, Pending, Executing, Own, Held
    <3> QED
      BY <3>3, <3>4
  <2> QED
    BY <2>1, <2>2
<1> QED
  BY <1>4, <1>5, <1>6 DEF CommandInv

(* A step of hart h.  What it leaves alone: the other harts, and what the  *)
(* module remembers of the command.                                        *)
Others(h) ==
    \A g \in Harts \ {h} :
        UNCHANGED <<halted[g], pc[g], at[g], step[g], dpc[g], s0[g], dscratch[g], owned[g]>>

LEMMA HartLeaves ==
  ASSUME TypeInv, NEW h \in Harts, Hart(h)
  PROVE  /\ UNCHANGED <<hartsel, debugger, accepted, debug_abstract>>
         /\ cmderr' = "NONE" => cmderr = "NONE"
         /\ busy' => busy
         /\ busy /\ ~busy' => TellHalted(h) /\ hartsel = h /\ "GO" \notin debug_rom_flags[h]
         /\ pc[h] = "abstract" \/ UNCHANGED dmdata
         /\ Others(h)
<1>1. CASE ProgramStep(h) \/ Ebreak(h) \/ Dret(h)
  BY <1>1 DEF ProgramStep, Ebreak, EnterDebugMode, Dret, dmVars, dmControls, dmMemory, dmHarts,
              ghosts, hartsel, Others, TypeInv, HartType
<1>2. CASE Entry(h) \/ TestGo(h) \/ TestResume(h)
  <2>1. UNCHANGED <<dmVars, at, cause, dpc, step>>
    BY <1>2 DEF Entry, TestGo, TestResume, Local
  <2>2. \A g \in Harts \ {h} : UNCHANGED <<pc[g], s0[g], dscratch[g]>>
    BY <1>2 DEF Entry, TestGo, TestResume, Local, TypeInv, HartType
  <2>3. UNCHANGED ghosts
    BY <1>2 DEF Hart, RomStep, ProgramStep, Ebreak, Dret, CommandStep, Entry, TestGo, TestResume, Local
  <2> QED
    BY <2>1, <2>2, <2>3 DEF dmVars, dmControls, dmMemory, dmHarts, ghosts, hartsel, Others
<1>3. CASE TellHalted(h) /\ UNCHANGED ghosts
  <2>1. /\ busy' = (busy /\ ~(hartsel = h /\ "GO" \notin debug_rom_flags[h]))
        /\ UNCHANGED <<dmControls, dmMemory, cmderr>>
        /\ halted' = [halted EXCEPT ![h] = TRUE]
    BY <1>3 DEF TellHalted, StoreHalted
  <2>2. \A g \in Harts \ {h} :
           UNCHANGED <<halted[g], pc[g], at[g], step[g], dpc[g], s0[g], dscratch[g], owned[g]>>
    BY <1>3, <2>1 DEF TellHalted, TypeInv, HartType, RegistersType, ghosts
  <2> QED
    BY <1>3, <2>1, <2>2 DEF dmControls, dmMemory, ghosts, hartsel, Others
<1>4. CASE (Going(h) \/ Resume(h)) /\ UNCHANGED ghosts
  <2>1. /\ UNCHANGED <<dmControls, dmMemory, busy, cmderr>>
        /\ UNCHANGED halted \/ halted' = [halted EXCEPT ![h] = FALSE]
    BY <1>4 DEF Going, Resume, StoreGoing, StoreResuming
  <2>2. \A g \in Harts \ {h} : UNCHANGED <<halted[g], pc[g], s0[g], at[g]>>
    BY <1>4, <2>1 DEF Going, Resume, TypeInv, HartType, RegistersType
  <2>3. UNCHANGED <<dpc, step, dscratch>>
    BY <1>4 DEF Going, Resume
  <2> QED
    BY <1>4, <2>1, <2>2, <2>3 DEF dmControls, dmMemory, ghosts, hartsel, Others
<1>5. CASE Exception(h) /\ UNCHANGED ghosts
  <2>1. UNCHANGED <<dmControls, dmMemory, dmHarts, busy, at, dpc, step, s0, dscratch, ghosts>>
    BY <1>5 DEF Exception, StoreException
  <2>2. cmderr' = "NONE" => cmderr = "NONE"
    BY <1>5 DEF Exception, StoreException
  <2>3. \A g \in Harts \ {h} : UNCHANGED pc[g]
    BY <1>5 DEF Exception, TypeInv, HartType
  <2> QED
    BY <2>1, <2>2, <2>3 DEF dmControls, dmMemory, dmHarts, ghosts, hartsel, Others
<1>6. CASE CommandStep(h)
  <2>1. UNCHANGED dmVars \/ (pc[h] = "abstract" /\ \E d : StoreData(d))
    BY <1>6 DEF CommandStep, Word, Fault
  <2>2. /\ UNCHANGED <<dmControls, debug_abstract, dmHarts, busy, cmderr>>
        /\ pc[h] = "abstract" \/ UNCHANGED dmdata
    BY <2>1 DEF StoreData, dmVars, dmMemory
  <2>3. /\ UNCHANGED pc \/ \E x : pc' = [pc EXCEPT ![h] = x]
        /\ UNCHANGED at \/ \E x : at' = [at EXCEPT ![h] = x]
    BY <1>6 DEF CommandStep, Word, Fault
  <2>4. /\ UNCHANGED step \/ \E x : step' = [step EXCEPT ![h] = x]
        /\ UNCHANGED s0 \/ \E x : s0' = [s0 EXCEPT ![h] = x]
    BY <1>6 DEF CommandStep, Word, Fault
  <2>5. /\ UNCHANGED dscratch \/ \E x : dscratch' = [dscratch EXCEPT ![h] = x]
        /\ UNCHANGED owned \/ \E x : owned' = [owned EXCEPT ![h] = x]
    BY <1>6 DEF CommandStep, Word, Fault
  <2>6. \A g \in Harts \ {h} :
           UNCHANGED <<pc[g], at[g], step[g], s0[g], dscratch[g], owned[g]>>
    BY <2>3, <2>4, <2>5 DEF TypeInv, HartType
  <2>7. UNCHANGED <<dpc, debugger, accepted>>
    BY <1>6 DEF CommandStep
  <2> QED
    BY <2>2, <2>6, <2>7 DEF dmControls, dmHarts, hartsel, Others
<1> QED
  BY <1>1, <1>2, <1>3, <1>4, <1>5, <1>6 DEF Hart, RomStep

LEMMA OthersKept ==
  ASSUME CommandInv, TypeInv', careful, NEW h \in Harts, Hart(h), NEW g \in Harts \ {h}
  PROVE  Turn(g)' /\ Stage(g)'
<1>1. Turn(h) /\ Turn(g) /\ Stage(g) /\ (SparesS0' <=> SparesS0)
  BY HartLeaves, SparesKept DEF CommandInv
<1>2. /\ UNCHANGED <<hartsel, accepted>>
      /\ cmderr' = "NONE" => cmderr = "NONE"
      /\ busy' => busy
      /\ busy /\ ~busy' => hartsel = h
      /\ pc[h] = "abstract" => hartsel = h
      /\ pc[h] = "abstract" \/ UNCHANGED dmdata
      /\ UNCHANGED <<halted[g], pc[g], at[g], step[g], s0[g], dscratch[g], owned[g]>>
  BY <1>1, HartLeaves DEF CommandInv, Others, Turn, Pending, Executing
<1>3. debug_rom_flags'[g] = debug_rom_flags[g]
  <2>1. CASE Going(h)
    <3>1. hartsel = h
      BY <1>1, <2>1 DEF Going, Turn, Pending, Executing
    <3> QED
      BY <2>1, <3>1 DEF Going, StoreGoing, CommandInv, TypeInv, AckInv, FlagsType
  <2>2. CASE UNCHANGED debug_rom_flags \/ StoreResuming(h)
    BY <2>2 DEF StoreResuming, CommandInv, TypeInv, AckInv, FlagsType
  <2> QED
    BY <2>1, <2>2 DEF Hart, ProgramStep, Ebreak, RomStep, Dret, CommandStep, Word, Fault, StoreData,
                      Entry, TellHalted, TestGo, TestResume, Resume, Exception, Local,
                      StoreHalted, StoreException, dmVars, dmHarts
<1>4. CASE pc[h] = "abstract"
  <2>1. hartsel # g /\ ~Pending(g)
    BY <1>1, <1>2, <1>4 DEF Turn
  <2> QED
    BY <1>1, <1>2, <1>3, <2>1 DEF Turn, Stage, Pending, Executing, Own, Held
<1>5. CASE UNCHANGED dmdata
  <2>1. Turn(g)'
    BY <1>1, <1>2, <1>3 DEF Turn, Pending, Executing
  <2> QED
    BY <1>1, <1>2, <1>3, <1>5, <2>1 DEF Stage, Progress, Effects, Own, Held
<1> QED
  BY <1>2, <1>4, <1>5

(* Hart h itself, one action after the other: the debugger stays the same. *)
Ready(h) ==
    /\ TypeInv /\ Places /\ Asked /\ (busy => Loaded)
    /\ Turn(h) /\ Stage(h) /\ (SparesS0' <=> SparesS0)

Mine(h) == busy /\ h = hartsel

LEMMA ProgramTurn ==
  ASSUME NEW h \in Harts, Ready(h), TypeInv', ProgramStep(h) \/ Ebreak(h) \/ Dret(h)
  PROVE  Turn(h)' /\ Stage(h)'
<1>1. /\ UNCHANGED <<debug_rom_flags, halted, busy, hartsel, accepted, s0, owned>>
      /\ pc[h] \in {"program", "dret"} /\ pc'[h] \in {"program", "entry"}
  BY DEF ProgramStep, Ebreak, Dret, EnterDebugMode, dmVars, dmControls, dmMemory, dmHarts, ghosts,
         hartsel, Ready, Places, TypeInv, HartType
<1>2. ~halted[h]
  BY <1>1, Frees DEF Ready, Places
<1>3. ~Mine(h) /\ ~Pending(h)
  BY <1>2 DEF Ready, Turn, Mine
<1>4. ~Pending(h)' /\ "GO" \notin debug_rom_flags'[h]
  BY <1>1, <1>3 DEF Pending, Executing
<1>5. Own(h, Held(h))' /\ pc'[h] \notin RomUses
  BY <1>1 DEF Ready, Stage, RomUses, Own, Held
<1> QED
  BY <1>1, <1>3, <1>4, <1>5 DEF Turn, Stage, Mine

LEMMA LocalTurn ==
  ASSUME NEW h \in Harts, Ready(h), TypeInv', UNCHANGED ghosts,
         Entry(h) \/ TestGo(h) \/ TestResume(h)
  PROVE  Turn(h)' /\ Stage(h)'
<1>1. /\ UNCHANGED <<debug_rom_flags, halted, busy, hartsel, accepted, owned, dmdata, cmderr, step>>
  BY DEF Entry, TestGo, TestResume, Local, dmVars, dmControls, dmMemory, dmHarts, ghosts, hartsel
<1>2. CASE Entry(h)
  <2>1. pc[h] = "entry" /\ pc'[h] = "loop" /\ s0'[h] = s0[h] /\ dscratch'[h] = s0[h]
    BY <1>2 DEF Entry, Local, Ready, TypeInv, HartType
  <2>2. Held(h)' = Held(h) /\ Own(h, Held(h))'
    BY <1>1, <2>1 DEF Ready, Stage, RomUses, Own, Held
  <2> QED
    BY <1>1, <2>1, <2>2 DEF Ready, Turn, Stage, Pending, Executing, Effects
<1>3. CASE TestGo(h)
  <2>1. /\ pc[h] = "test_go" /\ dscratch'[h] = dscratch[h]
        /\ pc'[h] = IF "GO" \in debug_rom_flags[h] THEN "going" ELSE "test_resume"
    BY <1>3 DEF TestGo, Local, Ready, TypeInv, HartType
  <2>2. Own(h, Held(h))'
    BY <1>1, <2>1 DEF Ready, Stage, RomUses, Own, Held, Labels, TypeInv, HartType
  <2> QED
    BY <1>1, <2>1, <2>2 DEF Ready, Turn, Stage, Pending, Executing
<1>4. CASE TestResume(h)
  <2>1. /\ pc[h] = "test_resume" /\ dscratch'[h] = dscratch[h]
        /\ pc'[h] = IF "RESUME" \in debug_rom_flags[h] THEN "resume" ELSE "loop"
    BY <1>4 DEF TestResume, Local, Ready, TypeInv, HartType
  <2>2. Own(h, Held(h))'
    BY <1>1, <2>1 DEF Ready, Stage, RomUses, Own, Held, Labels, TypeInv, HartType
  <2>3. Mine(h) => "GO" \in debug_rom_flags[h]
    BY <2>1 DEF Ready, Turn, Mine, Pending, Executing
  <2> QED
    BY <1>1, <2>1, <2>2, <2>3 DEF Ready, Turn, Stage, Pending, Executing, Mine
<1> QED
  BY <1>2, <1>3, <1>4

LEMMA MailboxTurn ==
  ASSUME NEW h \in Harts, Ready(h), TypeInv', UNCHANGED ghosts,
         TellHalted(h) \/ Going(h) \/ Resume(h) \/ Exception(h)
  PROVE  Turn(h)' /\ Stage(h)'
<1>0. hartsel \in HartSels /\ h \in HartSels
  BY Frees DEF Ready
<1>1. UNCHANGED <<hartsel, accepted, owned, dmdata, step>>
  BY DEF TellHalted, Going, Resume, Exception, StoreHalted, StoreGoing, StoreResuming, StoreException,
         dmControls, dmMemory, ghosts, hartsel
<1>2. CASE TellHalted(h)
  <2>1. /\ pc[h] = "loop" /\ pc'[h] = "test_go" /\ halted'[h]
        /\ UNCHANGED <<debug_rom_flags, dscratch>>
        /\ busy' = (busy /\ ~(hartsel = h /\ "GO" \notin debug_rom_flags[h]))
    BY <1>0, <1>2 DEF TellHalted, StoreHalted, Ready, TypeInv, HartType, RegistersType
  <2>2. Own(h, Held(h))'
    BY <1>1, <2>1 DEF Ready, Stage, RomUses, Own, Held, Labels, TypeInv, HartType
  <2>3. Pending(h)' <=> "GO" \in debug_rom_flags[h]
    BY <2>1 DEF Pending, Executing
  <2> QED
    BY <1>1, <2>1, <2>2, <2>3 DEF Ready, Turn, Stage, Pending, Executing
<1>3. CASE Going(h)
  <2>1. /\ pc[h] = "going" /\ pc'[h] = "abstract" /\ at'[h] = 1 /\ s0'[h] = dscratch[h]
        /\ UNCHANGED <<busy, halted, dscratch>>
        /\ debug_rom_flags' = [debug_rom_flags EXCEPT ![hartsel] = @ \ {"GO"}]
    BY <1>3 DEF Going, StoreGoing, Ready, TypeInv, HartType
  <2>2. busy /\ h = hartsel /\ halted[h] /\ "GO" \in debug_rom_flags[h] /\ Loaded
    BY <2>1 DEF Ready, Turn, Pending, Executing
  <2>3. /\ "GO" \notin debug_rom_flags'[h] /\ Own(h, s0[h])'
        /\ dmdata' = accepted'.data /\ accepted'.command = accepted.command
    BY <1>0, <1>1, <2>1, <2>2 DEF Ready, Stage, RomUses, Own, Held, TypeInv, AckInv, FlagsType
  <2>4. Turn(h)'
    BY <1>1, <2>1, <2>2, <2>3 DEF Turn, Pending, Executing
  <2>5. Progress(h, accepted.command, accepted.data)'
    <3> DEFINE c == accepted.command
    <3>0. c.reg \in {"NONE", "S0", "FPR"} \/ Csr(c)
      BY <2>2 DEF Loaded, Csr
    <3>1. Len(Program(c)) \in {1, 2, 5}
      BY <2>2, <3>0, WordsLoaded
    <3>2. accepted' = accepted
      BY <1>1
    <3>3. 1 \in 1 .. Len(Program(c))
      <4>1. \A n \in {1, 2, 5} : 1 \in 1 .. n
        OBVIOUS
      <4> QED
        BY <3>1, <4>1, Zenon
    <3> QED
      BY <2>1, <2>3, <3>2, <3>3 DEF Progress
  <2> QED
    BY <2>1, <2>3, <2>4, <2>5 DEF Stage, RomUses
<1>4. CASE Resume(h)
  <2>1. /\ pc[h] = "resume" /\ pc'[h] = "dret" /\ s0'[h] = dscratch[h]
        /\ debug_rom_flags' = [debug_rom_flags EXCEPT ![h] = @ \ {"RESUME"}] /\ UNCHANGED busy
    BY <1>4 DEF Resume, StoreResuming, Ready, TypeInv, HartType
  <2>2. ~Pending(h) /\ ~Mine(h)
    BY <2>1 DEF Ready, Turn, Pending, Executing, Mine
  <2>3. "GO" \notin debug_rom_flags'[h] /\ Own(h, Held(h))'
    BY <1>0, <1>1, <2>1, <2>2 DEF Ready, Stage, RomUses, Own, Held, Pending, TypeInv, AckInv, FlagsType
  <2> QED
    BY <1>1, <2>1, <2>2, <2>3 DEF Turn, Stage, Pending, Executing, Mine, RomUses
<1>5. CASE Exception(h)
  <2>1. /\ pc[h] = "exception" /\ pc'[h] = "entry" /\ cmderr' # "NONE"
        /\ UNCHANGED <<debug_rom_flags, halted, busy, s0>>
    BY <1>5 DEF Exception, StoreException, dmHarts, Ready, TypeInv, HartType
  <2>2. "GO" \notin debug_rom_flags[h] /\ Mine(h) /\ halted[h]
    BY <2>1 DEF Ready, Turn, Pending, Executing, Mine
  <2>3. Own(h, Held(h))'
    BY <1>1, <2>1 DEF Ready, Stage, RomUses, Own, Held
  <2> QED
    BY <1>1, <2>1, <2>2, <2>3 DEF Turn, Stage, Pending, Executing, Mine, RomUses
<1> QED
  BY <1>2, <1>3, <1>4, <1>5

(* What each word does to the hart that runs it.                           *)
Advances(h) == pc'[h] = "abstract" /\ at'[h] = at[h] + 1
Fails(h) == pc'[h] = "exception" /\ UNCHANGED <<s0[h], owned[h]>>

LEMMA WordDoes ==
  ASSUME TypeInv, NEW h \in Harts, pc[h] = "abstract", NEW op, Word(h, op),
         NEW c, c = accepted.command
  PROVE  /\ op = "save" => /\ Advances(h) /\ dscratch'[h] = s0[h]
                           /\ UNCHANGED <<dmdata, step[h], s0[h], owned[h]>>
         /\ op = "restore" => /\ Advances(h) /\ s0'[h] = dscratch[h]
                              /\ UNCHANGED <<dmdata, step[h], dscratch[h], owned[h]>>
         /\ op = "ld" => /\ Advances(h) /\ s0'[h] = dmdata
                         /\ owned'[h] = IF c.reg = "S0" THEN dmdata ELSE owned[h]
                         /\ UNCHANGED <<dmdata, step[h], dscratch[h]>>
         /\ op = "st" => /\ Advances(h) /\ dmdata' = s0[h]
                         /\ UNCHANGED <<step[h], s0[h], dscratch[h], owned[h]>>
         /\ op = "csrw" => \/ c.reg = "BADCSR" /\ Fails(h)
                           \/ /\ c.reg = "CSR" /\ Advances(h) /\ (step'[h] <=> s0[h] = 1)
                              /\ UNCHANGED <<dmdata, s0[h], dscratch[h], owned[h]>>
         /\ op = "csrr" => \/ Fails(h)
                           \/ /\ c.reg = "CSR" /\ Advances(h) /\ s0'[h] = Bit(step[h])
                              /\ UNCHANGED <<dmdata, step[h], dscratch[h], owned[h]>>
         /\ op = "float" => Fails(h) \/ (Advances(h) /\ UNCHANGED <<step[h], s0[h], owned[h]>>)
         /\ op \in {"jal", "ebreak"} => /\ pc'[h] \in {"progbuf", "entry"}
                                        /\ UNCHANGED <<dmdata, step[h], s0[h], owned[h]>>
<1>0. /\ h \in DOMAIN pc /\ h \in DOMAIN at /\ h \in DOMAIN s0 /\ h \in DOMAIN dscratch
      /\ h \in DOMAIN step /\ h \in DOMAIN owned /\ pc \in [Harts -> Labels]
      /\ at \in [Harts -> 0..6] /\ s0 \in [Harts -> Words] /\ dscratch \in [Harts -> Data]
      /\ owned \in [Harts -> Data] /\ step \in [Harts -> BOOLEAN]
  BY DEF TypeInv, HartType
<1>1. ASSUME UNCHANGED dmVars PROVE UNCHANGED dmdata
  BY <1>1 DEF dmVars, dmMemory
<1>2. ASSUME Fault(h) PROVE Fails(h)
  BY <1>0, <1>2 DEF Fault, Fails
<1>3. CASE op = "save"
  BY <1>0, <1>1, <1>3 DEF Word, Advances
<1>4. CASE op = "restore"
  BY <1>0, <1>1, <1>4 DEF Word, Advances
<1>5. CASE op = "ld"
  BY <1>0, <1>1, <1>5 DEF Word, Advances
<1>6. CASE op = "st"
  BY <1>0, <1>6 DEF Word, Advances, StoreData
<1>7. CASE op = "csrw"
  <2>1. CASE /\ c.reg = "CSR" /\ pc' = [pc EXCEPT ![h] = "abstract"] /\ at' = [at EXCEPT ![h] = at[h] + 1]
             /\ step' = [step EXCEPT ![h] = s0[h] = 1]
             /\ UNCHANGED <<dmVars, s0, dscratch, owned>>
    BY <1>0, <1>1, <1>7, <2>1 DEF Advances
  <2> QED
    BY <1>2, <1>7, <2>1 DEF Word
<1>8. CASE op = "csrr"
  <2>1. CASE /\ c.reg = "CSR" /\ pc' = [pc EXCEPT ![h] = "abstract"] /\ at' = [at EXCEPT ![h] = at[h] + 1]
             /\ s0' = [s0 EXCEPT ![h] = IF step[h] THEN 1 ELSE 0]
             /\ UNCHANGED <<dmVars, step, dscratch, owned>>
    BY <1>0, <1>1, <1>8, <2>1 DEF Advances, Bit
  <2> QED
    BY <1>2, <1>8, <2>1 DEF Word
<1>9. CASE op = "float"
  <2>1. CASE /\ pc' = [pc EXCEPT ![h] = "abstract"] /\ at' = [at EXCEPT ![h] = at[h] + 1]
             /\ UNCHANGED <<step, s0, owned>>
    BY <1>0, <1>9, <2>1 DEF Advances
  <2> QED
    BY <1>2, <1>9, <2>1 DEF Word
<1>10. CASE op \in {"jal", "ebreak"}
  BY <1>0, <1>1, <1>10 DEF Word
<1> QED
  BY <1>3, <1>4, <1>5, <1>6, <1>7, <1>8, <1>9, <1>10

(* After one word: the next one, the end or an exception.                  *)
After(h, c, d) ==
    \/ pc'[h] = "abstract" /\ Progress(h, c, d)'
    \/ pc'[h] \in {"progbuf", "entry"} /\ Effects(h, c, d)' /\ Own(h, s0[h])'
    \/ pc'[h] = "exception" /\ Own(h, s0[h])'

LEMMA WordAfter ==
  ASSUME TypeInv, Asked, Loaded, (SparesS0' <=> SparesS0), NEW h \in Harts, pc[h] = "abstract", Word(h, WordAt(at[h])),
         NEW c, c = accepted.command, NEW d, Progress(h, c, d)
  PROVE  After(h, c, d)
<1>1. /\ c \in Command /\ c.reg \in {"NONE", "S0", "FPR", "CSR", "BADCSR"}
      /\ at[h] \in 1 .. Len(Program(c)) /\ at[h] \in 0..6
  BY DEF Loaded, Progress, TypeInv, HartType
<1>2. ASSUME Fails(h), Own(h, s0[h]) PROVE After(h, c, d)
  BY <1>2 DEF Fails, After, Own
<1>3. CASE Csr(c) /\ c.write
  <2>1. /\ at[h] \in 1 .. 5 /\ Len(Program(c)) = 5
        /\ WordAt(1) = "save" /\ WordAt(2) = "ld" /\ WordAt(3) = "csrw" /\ WordAt(4) = "restore"
        /\ WordAt(5) \in {"jal", "ebreak"} /\ c.reg # "S0" /\ c.reg # "FPR"
    BY <1>1, <1>3, WordsLoaded DEF Csr
  <2>2. CASE at[h] = 1
    BY <1>3, <2>1, <2>2, WordDoes DEF Advances, Progress, After, Own
  <2>3. CASE at[h] = 2
    BY <1>3, <2>1, <2>3, WordDoes DEF Advances, Progress, After, Own
  <2>4. CASE at[h] = 3
    <3>1. c.reg = "BADCSR" => ~SparesS0
      BY <1>3 DEF Asked, NoCommand, SparesS0
    <3> QED
      BY <1>2, <1>3, <2>1, <2>4, <3>1, WordDoes DEF Advances, Progress, After, Own
  <2>5. CASE at[h] = 4
    BY <1>3, <2>1, <2>5, WordDoes DEF Advances, Progress, After, Own
  <2>6. CASE at[h] = 5
    BY <1>3, <2>1, <2>6, WordDoes DEF Progress, Effects, After, Own, Held, RomUses
  <2> QED
    BY <2>1, <2>2, <2>3, <2>4, <2>5, <2>6
<1>4. CASE Csr(c) /\ ~c.write
  <2>1. /\ at[h] \in 1 .. 5 /\ Len(Program(c)) = 5
        /\ WordAt(1) = "save" /\ WordAt(2) = "csrr" /\ WordAt(3) = "st" /\ WordAt(4) = "restore"
        /\ WordAt(5) \in {"jal", "ebreak"} /\ c.reg # "S0" /\ c.reg # "FPR"
    BY <1>1, <1>4, WordsLoaded DEF Csr
  <2>2. CASE at[h] = 1
    BY <1>4, <2>1, <2>2, WordDoes DEF Advances, Progress, After, Own
  <2>3. CASE at[h] = 2
    BY <1>2, <1>4, <2>1, <2>3, WordDoes DEF Advances, Progress, After, Own
  <2>4. CASE at[h] = 3
    BY <1>4, <2>1, <2>4, WordDoes DEF Advances, Progress, After, Own
  <2>5. CASE at[h] = 4
    BY <1>4, <2>1, <2>5, WordDoes DEF Advances, Progress, After, Own
  <2>6. CASE at[h] = 5
    BY <1>4, <2>1, <2>6, WordDoes DEF Progress, Effects, After, Own, Held, RomUses
  <2> QED
    BY <2>1, <2>2, <2>3, <2>4, <2>5, <2>6
<1>5. CASE c.reg = "S0"
  <2>1. /\ at[h] \in 1 .. 2 /\ Len(Program(c)) = 2 /\ ~Csr(c)
        /\ WordAt(1) = IF c.write THEN "ld" ELSE "st"
        /\ WordAt(2) \in {"jal", "ebreak"}
    BY <1>1, <1>5, WordsLoaded DEF Csr
  <2>2. CASE at[h] = 1 /\ c.write
    BY <1>5, <2>1, <2>2, WordDoes DEF Advances, Progress, After, Own
  <2>3. CASE at[h] = 1 /\ ~c.write
    <3>1. WordAt(at[h]) = "st" /\ Own(h, s0[h])
      BY <2>1, <2>3 DEF Progress
    <3>2. Advances(h) /\ dmdata' = s0'[h] /\ Own(h, s0[h])'
      BY <3>1, WordDoes DEF Own
    <3> QED
      BY <1>5, <2>1, <2>3, <3>2 DEF Advances, Progress, After, Own
  <2>4. CASE at[h] = 2
    BY <1>5, <2>1, <2>4, WordDoes DEF Progress, Effects, After, Own, Held, RomUses
  <2> QED
    BY <2>1, <2>2, <2>3, <2>4
<1>6. CASE c.reg = "FPR"
  <2>1. /\ at[h] \in 1 .. 2 /\ Len(Program(c)) = 2 /\ ~Csr(c)
        /\ WordAt(1) = "float" /\ WordAt(2) \in {"jal", "ebreak"}
    BY <1>1, <1>6, WordsLoaded DEF Csr
  <2>2. CASE at[h] = 1
    BY <1>2, <1>6, <2>1, <2>2, WordDoes DEF Advances, Progress, After, Own
  <2>3. CASE at[h] = 2
    BY <1>6, <2>1, <2>3, WordDoes DEF Progress, Effects, After, Own, Held, RomUses
  <2> QED
    BY <2>1, <2>2, <2>3
<1>7. CASE c.reg = "NONE"
  <2>1. Len(Program(c)) = 1 /\ WordAt(1) \in {"jal", "ebreak"} /\ ~Csr(c)
    BY <1>7, WordsLoaded DEF Csr
  <2>2. at[h] = 1
    BY ONLY <1>1, <2>1
  <2> QED
    BY <1>7, <2>1, <2>2, WordDoes DEF Progress, Effects, After, Own, Held, RomUses
<1> QED
  BY <1>1, <1>3, <1>4, <1>5, <1>6, <1>7 DEF Csr

LEMMA CommandTurn ==
  ASSUME NEW h \in Harts, Ready(h), TypeInv', CommandStep(h)
  PROVE  Turn(h)' /\ Stage(h)'
<1>1. /\ UNCHANGED <<debug_rom_flags, halted, busy, hartsel, accepted, cmderr>>
      /\ pc[h] \in {"abstract", "progbuf"}
  BY DEF CommandStep, Word, Fault, StoreData, dmVars, dmControls, dmHarts, hartsel
<1>2. Mine(h) /\ halted[h] /\ "GO" \notin debug_rom_flags[h] /\ Loaded
  BY <1>1 DEF Ready, Turn, Pending, Executing, Mine
<1> PICK c, d : c = accepted.command /\ d = accepted.data
  OBVIOUS
<1>3. After(h, c, d)
  <2>1. CASE pc[h] = "abstract"
    <3>1. Word(h, WordAt(at[h])) /\ Progress(h, c, d)
      BY <2>1 DEF CommandStep, Ready, Stage
    <3> QED
      BY <1>2, <2>1, <3>1, WordAfter DEF Ready
  <2>2. CASE pc[h] = "progbuf"
    <3>1. /\ pc'[h] \in {"exception", "entry"}
          /\ UNCHANGED <<dmdata, step, s0, owned>>
      BY <2>2 DEF CommandStep, Fault, dmVars, dmMemory, Ready, TypeInv, HartType
    <3>2. Effects(h, c, d) /\ Own(h, s0[h])
      BY <2>2 DEF Ready, Stage, Held, RomUses
    <3>3. Effects(h, c, d)' /\ Own(h, s0[h])'
      BY <2>2, <3>1, <3>2 DEF Effects, Own, Held, RomUses, Ready
    <3> QED
      BY <3>1, <3>3 DEF After
  <2> QED
    BY <1>1, <2>1, <2>2
<1>4. pc'[h] \in {"abstract", "progbuf", "entry", "exception"}
  BY <1>3 DEF After
<1>5. Turn(h)'
  BY <1>1, <1>2, <1>4 DEF Turn, Pending, Executing, Mine
<1>6. accepted'.command = c /\ accepted'.data = d
  BY <1>1
<1>7. Stage(h)'
  BY <1>1, <1>2, <1>3, <1>6 DEF Stage, After, RomUses, Held
<1> QED
  BY <1>5, <1>7

LEMMA PlacesStep ==
  ASSUME TypeInv, Places, NEW h \in Harts, Hart(h)
  PROVE  Places'
<1>1. Others(h)
  BY HartLeaves
<1>2. /\ \A g \in HartSels \ {h} : halted'[g] = halted[g]
      /\ halted'[h] => pc'[h] \notin {"program", "dret"}
      /\ dpc'[h] \in {"program", "entry"}
  <2>0. h \in HartSels /\ (halted[h] => pc[h] \notin {"program", "dret"}) /\ dpc[h] \in {"program", "entry"}
    BY DEF Places
  <2>1. CASE ProgramStep(h) \/ Ebreak(h) \/ Dret(h)
    BY <2>0, <2>1 DEF ProgramStep, Ebreak, EnterDebugMode, Dret, dmVars, dmHarts, TypeInv, HartType
  <2>2. CASE Entry(h) \/ TestGo(h) \/ TestResume(h)
    BY <2>0, <2>2 DEF Entry, TestGo, TestResume, Local, dmVars, dmHarts, TypeInv, HartType
  <2>3. CASE TellHalted(h) \/ Going(h) \/ Resume(h) \/ Exception(h)
    BY <2>0, <2>3 DEF TellHalted, Going, Resume, Exception, StoreHalted, StoreGoing, StoreResuming,
                      StoreException, dmHarts, TypeInv, HartType, RegistersType
  <2>4. CASE CommandStep(h)
    <3>1. UNCHANGED <<halted, dpc>>
      BY <2>4 DEF CommandStep, Word, Fault, StoreData, dmVars, dmHarts
    <3>2. pc'[h] \in {"abstract", "progbuf", "entry", "exception"}
      BY <2>4 DEF CommandStep, Word, Fault, TypeInv, HartType
    <3> QED
      BY <2>0, <3>1, <3>2
  <2> QED
    BY <2>1, <2>2, <2>3, <2>4 DEF Hart, RomStep
<1> QED
  BY <1>1, <1>2 DEF Places, Others

LEMMA HartsCommands ==
  ASSUME CommandInv, TypeInv', Asked', NEW h \in Harts, Hart(h)
  PROVE  CommandInv'
<1>1. Places'
  BY PlacesStep DEF CommandInv
<1>2. /\ UNCHANGED <<hartsel, debugger, accepted, debug_abstract>>
      /\ busy' => busy
  BY HartLeaves DEF CommandInv
<1>3. busy' => Loaded'
  BY <1>2 DEF CommandInv, Loaded, WordAt
<1>4. ASSUME careful' PROVE (busy' => exists') /\ \A g \in Harts : Turn(g)' /\ Stage(g)'
  <2>1. careful /\ (busy' => exists')
    BY <1>2, <1>4 DEF careful, exists, CommandInv
  <2>2. Ready(h)
    BY <1>2, <2>1, SparesKept DEF CommandInv, Ready
  <2>3. Turn(h)' /\ Stage(h)'
    BY <2>2, ProgramTurn, LocalTurn, MailboxTurn, CommandTurn DEF Hart, RomStep
  <2>4. \A g \in Harts \ {h} : Turn(g)' /\ Stage(g)'
    BY <2>1, OthersKept
  <2> QED
    BY <2>1, <2>3, <2>4
<1> QED
  BY <1>1, <1>3, <1>4 DEF CommandInv

LEMMA CommandInvariant == Spec => []CommandInv
<1>1. Init /\ TypeInv => CommandInv
  <2> SUFFICES ASSUME Init, TypeInv PROVE CommandInv
    OBVIOUS
  <2>1. ~busy /\ \A h \in HartSels : ~halted[h] /\ debug_rom_flags[h] = {}
    BY DEF Init, DmInit
  <2>2. /\ \A h \in Harts : pc[h] = "program" /\ dpc[h] = "program" /\ s0[h] = owned[h]
        /\ Asked
    BY DEF Init, DmInit, Asked
  <2>3. Places
    BY <2>1, <2>2 DEF Places
  <2>4. \A h \in Harts : Turn(h) /\ Stage(h)
    BY <2>1, <2>2 DEF Turn, Stage, Pending, Executing, RomUses, Own, Held
  <2> QED
    BY <2>1, <2>2, <2>3, <2>4 DEF CommandInv
<1>2. CommandInv /\ TypeInv' /\ [Next]_vars => CommandInv'
  <2> SUFFICES ASSUME CommandInv, TypeInv', [Next]_vars PROVE CommandInv'
    OBVIOUS
  <2>0. Asked'
    BY AskedStep DEF CommandInv
  <2>1. CASE Dmi
    BY <2>0, <2>1, AccessCases, KeepsCommands, StartsCommands, ControlsCommands DEF CommandInv
  <2>2. CASE UNCHANGED vars
    <3>1. Keeps
      BY <2>2 DEF vars, dmVars, dmControls, dmMemory, dmHarts, hartVars, ghosts, hartsel, Keeps, Frozen
    <3> QED
      BY <2>0, <3>1, KeepsCommands
  <2> QED
    BY <2>0, <2>1, <2>2, HartsCommands DEF Next
<1>3. Spec => []TypeInv
  BY TypeInvariant
<1> QED
  BY <1>1, <1>2, <1>3, PTL DEF Spec

(* For a debugger that follows the protocol, busy means that the selected  *)
(* hart has the command still to run or runs it, and only that one.        *)
THEOREM BusyMeansRunning == Spec => []BusyWhileCommandRuns
<1>1. CommandInv => BusyWhileCommandRuns
  BY DEF CommandInv, BusyWhileCommandRuns, Turn, Pending, exists
<1> QED
  BY <1>1, CommandInvariant, PTL

(* The ROM and the commands it runs, those that raise an exception too,    *)
(* give the program back its s0, and each command finds it there, for a    *)
(* debugger that follows the protocol and writes no CSR that does not      *)
(* exist: the fault of such a write loses the program's s0.                *)
THEOREM RomPreservesS0 == Spec => []S0Preserved
<1>1. CommandInv => S0Preserved
  BY DEF CommandInv, S0Preserved, Stage, RomUses, Own, Held
<1> QED
  BY <1>1, CommandInvariant, PTL

(* When busy falls with no error, the command has had its effect: the      *)
(* register has the value, or the data word the register's.                *)
THEOREM CommandsHaveEffect == Spec => CommandsTakeEffect
<1>1. CommandInv /\ [Next]_vars => [careful /\ busy /\ ~busy' /\ cmderr' = "NONE" => Effect']_vars
  <2> SUFFICES ASSUME CommandInv, Next, careful, busy, ~busy', cmderr' = "NONE" PROVE Effect'
    OBVIOUS
  <2>1. PICK h \in Harts : Hart(h)
    <3>1. CASE Dmi
      BY <3>1, AccessCases DEF CommandInv, Keeps, Starts, Begins, Controls, MayControl
    <3> QED
      BY <3>1 DEF Next
  <2>2. TellHalted(h) /\ hartsel = h /\ "GO" \notin debug_rom_flags[h] /\ cmderr = "NONE"
    BY <2>1, HartLeaves DEF CommandInv
  <2>3. Effects(h, accepted.command, accepted.data) /\ Held(h) = dscratch[h]
    BY <2>2 DEF CommandInv, Stage, TellHalted, Held, RomUses
  <2>4. UNCHANGED <<hartsel, accepted, dscratch, step, dmdata>>
    <3>1. UNCHANGED <<hartsel, accepted, step>>
      BY <2>1, <2>2, HartLeaves DEF CommandInv, TellHalted
    <3>2. UNCHANGED <<dscratch, dmdata>>
      BY <2>1, <2>2 DEF Hart, ProgramStep, Ebreak, RomStep, Dret, CommandStep, TellHalted,
                        StoreHalted, ghosts, dmMemory
    <3> QED
      BY <3>1, <3>2
  <2> QED
    BY <2>2, <2>3, <2>4 DEF Effects, Effect, Bit
<1> QED
  BY <1>1, CommandInvariant, PTL DEF Spec, CommandsTakeEffect

=============================================================================
