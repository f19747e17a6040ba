---------------------------- MODULE MCScriptHost ----------------------------
\* Two forms and two stubs; the first three commands meet the same DAC.
EXTENDS ScriptHost, TLC

CONSTANTS scriptit1, scriptit2, threads, dumpmd, dacA, dacB

SharedDac == [c \in Commands |-> IF c = dumpmd THEN dacB ELSE dacA]
=============================================================================
