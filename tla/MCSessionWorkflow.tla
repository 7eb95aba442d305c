------------------------- MODULE MCSessionWorkflow -------------------------
(* SessionWorkflow for TLC: enough commands for every rehost command in    *)
(* order, and for a plan, an experiment and one repair in async mode.      *)
EXTENDS SessionWorkflow

MCMaxCommands == [async |-> 3, rehost |-> 10]
MCMaxInterrupts == [async |-> 2, rehost |-> 1]

RehostCommands == [rehost |-> 3]
RehostInterrupts == [rehost |-> 1]
=============================================================================
