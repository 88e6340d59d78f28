------------------------------ MODULE MCDebug ------------------------------
(* The debuggers TLC considers for Debug, each exercising one part of it. *)
EXTENDS Debug

Cmd(reg, write) == [reg |-> reg, write |-> write, sized |-> TRUE, postexec |-> FALSE]
RunProgbuf == [reg |-> "NONE", write |-> FALSE, sized |-> TRUE, postexec |-> TRUE]

Control(sel, halt, resume) ==
    [haltreq |-> halt, resumereq |-> resume, hartreset |-> FALSE,
     ndmreset |-> FALSE, dmactive |-> TRUE, hartsel |-> sel]
Reset == [Control(0, FALSE, FALSE) EXCEPT !.hartreset = TRUE]
Halts(sels) == {Control(s, TRUE, FALSE) : s \in sels}
Resumes(sels) == {Control(s, FALSE, TRUE) : s \in sels}

MCDebuggers ==
    {\* registers read and written, on a hart that is resumed
     [careful |-> TRUE, locked |-> FALSE, accesses |-> 4, data |-> {1}, programs |-> {},
      autos |-> {}, acks |-> {FALSE}, controls |-> Halts({0}) \union Resumes({0}),
      commands |-> {Cmd("S0", FALSE), Cmd("S0", TRUE), Cmd("CSR", TRUE), Cmd("CSR", FALSE)}],
     \* the other commands, repeated by accesses to the data word and the program buffer
     [careful |-> TRUE, locked |-> FALSE, accesses |-> 4, data |-> {1}, programs |-> {"nop"},
      autos |-> {{"data"}, {"progbuf"}}, acks |-> {FALSE}, controls |-> Halts({0}),
      commands |-> {Cmd("S0", TRUE), Cmd("BADCSR", FALSE), Cmd("CUSTOM", TRUE), RunProgbuf}],
     \* commands that raise an exception, one of them with s0 in use
     [careful |-> TRUE, locked |-> FALSE, accesses |-> 4, data |-> {1}, programs |-> {},
      autos |-> {}, acks |-> {FALSE}, controls |-> Halts({0}),
      commands |-> {Cmd("S0", FALSE), Cmd("FPR", FALSE), Cmd("FPR", TRUE), Cmd("BADCSR", TRUE)}],
     \* two harts halted, resumed and reset
     [careful |-> TRUE, locked |-> FALSE, accesses |-> 4, data |-> {}, programs |-> {},
      autos |-> {}, acks |-> {FALSE}, commands |-> {Cmd("S0", TRUE)},
      controls |-> Halts({0, 1}) \union Resumes({0, 1}) \union {Reset, ZeroControl}],
     \* the same with no regard for the protocol
     [careful |-> FALSE, locked |-> FALSE, accesses |-> 4, data |-> {}, programs |-> {},
      autos |-> {}, acks |-> {FALSE}, commands |-> {Cmd("S0", FALSE)},
      controls |-> Halts({0, 1}) \union Resumes({0}) \union {Reset, ZeroControl}],
     [careful |-> FALSE, locked |-> FALSE, accesses |-> 4, data |-> {}, programs |-> {},
      autos |-> {}, acks |-> BOOLEAN, commands |-> {Cmd("FPR", FALSE)},
      controls |-> Halts({0}) \union {Reset}],
     \* a locked module, a hart that does not exist and commands it refuses
     [careful |-> FALSE, locked |-> TRUE, accesses |-> 6, data |-> {}, programs |-> {},
      autos |-> {}, acks |-> {FALSE},
      commands |-> {Cmd("OTHER", FALSE), [Cmd("CSR", TRUE) EXCEPT !.sized = FALSE]},
      controls |-> Halts({0, 2}) \union {ZeroControl}]}

=============================================================================
