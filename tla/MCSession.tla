------------------------------ MODULE MCSession ------------------------------
(***************************************************************************)
(* Session with the real sizes of config.c, a short int and a short long   *)
(* long, and a copy buffer of 16 KiB.  64 KiB of memory make a table of    *)
(* 4093 slots and chunks of some 16 KB, so that the inputs fall into one,  *)
(* two and three chunks.                                                   *)
(***************************************************************************)
EXTENDS Session

Option(opt, n, unit) == [opt |-> opt, n |-> n, unit |-> unit]
m64K == Option("memlimit", 64, "K")
Flag(opt) == Option(opt, 0, "")

MC_CommandLines ==
    {<<Flag("dupfile")>>, << >>,
     <<Option("memlimit", 1048576 + 64, "K"), Flag("dupfile")>>,   \* wraps around to 64K
     <<Option("memlimit", 524288, "K")>>,                          \* wraps around to less than 0
     <<Option("memlimit", 1048576, "K")>>,                         \* wraps around to 0
     <<Option("memlimit", -1, "B")>>, <<Option("memlimit", 1, "bad")>>,
     <<Option("threads", 1, ""), Flag("dupfile")>>, <<Option("threads", 0, "")>>,
     <<Option("threads", 65537, "")>>,                             \* an int of 1
     <<Option("threads", 3, "")>>, <<Option("threads", 1, "x")>>,
     <<Option("line-max-size", 4096, "")>>, <<m64K, Option("line-max-size", 4095, "")>>,
     <<Flag("lowercase"), Flag("uppercase")>>,
     <<Flag("version"), Flag("unknown")>>, <<Flag("unknown"), Flag("version")>>}

MC_Inputs ==
    {[pipe |-> FALSE, size |-> 0, tail |-> 0],
     [pipe |-> FALSE, size |-> 20000, tail |-> 20000],
     [pipe |-> FALSE, size |-> 40000, tail |-> 7],
     [pipe |-> FALSE, size |-> 45000, tail |-> 0],
     [pipe |-> TRUE, size |-> 40000, tail |-> 0]}

MC_Memories == {[MemAvailable |-> 65536, MemFree |-> 80000],
                [MemAvailable |-> -1, MemFree |-> 65535],
                [MemAvailable |-> -1, MemFree |-> 120000]}

MC_Overshoots == {1, 5000}

\* Three make up the largest input.
MC_Batches == {15000}

=============================================================================
