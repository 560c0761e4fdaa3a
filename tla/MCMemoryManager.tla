--------------------------- MODULE MCMemoryManager ---------------------------
(* The constants of Memory.h and Memory.cpp.                               *)
EXTENDS MemoryManager
MCLimits == <<1024, 2048, 4096>>
MCSteps  == <<32, 128, 256>>
=============================================================================
