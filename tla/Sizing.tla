------------------------------- MODULE Sizing -------------------------------
(***************************************************************************)
(* The numbers duplicut works with: what the command line makes of sizes   *)
(* and counts (src/optparse.c, src/bytesize.c), the memory it may use      *)
(* (src/memstate.c, src/meminfo.c), and from these the sizes of the table  *)
(* and of a chunk (src/config.c).  Operators only; Session uses them.      *)
(*                                                                         *)
(* config.c computes with doubles.  The quotients are taken as exact here: *)
(* sizes below 2^53 are.                                                   *)
(***************************************************************************)
EXTENDS Integers

CONSTANTS
    INT_MAX,
    LLONG_MAX     \* the largest long long; a long is as wide

ASSUME WidthAssumption == INT_MAX \in Nat \ {0} /\ LLONG_MAX \in Nat \ {0}

\* const.h
AVG_LINE_BYTES == 8
MIN_MEMORY == 65536
MAX_MAX_LINE_SIZE == 4095
sizeof_t_line == 8

Lesser(x, y) == IF x < y THEN x ELSE y
Greater(x, y) == IF x > y THEN x ELSE y

\* Two's complement: what is left of x in an integer type with that maximum.
Wrap(max, x) == ((x + max + 1) % (2 * (max + 1))) - (max + 1)

-----------------------------------------------------------------------------
(* bytesize.c, and the numeric options of optparse.c.  A value is a number *)
(* that strtol() read and what follows it; unit "bad" is anything that is  *)
(* no unit, or no number at all.                                           *)

\* result *= 1024, once per step from bytes to the unit
bytesize(n, unit) ==
    LET Kilo(r) == Wrap(LLONG_MAX, 1024 * r)
    IN  IF n < 0 THEN -1
        ELSE CASE unit = "B" -> n
               [] unit = "K" -> Kilo(n)
               [] unit = "M" -> Kilo(Kilo(n))
               [] unit = "G" -> Kilo(Kilo(Kilo(n)))
               [] unit = "T" -> Kilo(Kilo(Kilo(Kilo(n))))
               [] OTHER -> -1

\* (int) strtol(), for options that take nothing behind the number.
AsInt(n) == Wrap(INT_MAX, n)

\* What makes bad_argument() end the program.
BadArgument(o) ==
    CASE o.opt = "threads" -> o.unit # "" \/ AsInt(o.n) < 1
      [] o.opt = "memlimit" -> bytesize(o.n, o.unit) < 0
      [] o.opt = "line-max-size" -> o.unit # "" \/ AsInt(o.n) \notin 1 .. MAX_MAX_LINE_SIZE
      [] OTHER -> o.opt = "unknown"

-----------------------------------------------------------------------------
(* memstate.c and meminfo.c                                                *)

\* MemAvailable, or MemFree on kernels that do not have it; -1 is absent.
meminfo_memavailable(m) == IF m.MemAvailable < 0 THEN m.MemFree ELSE m.MemAvailable

get_mem_available(m, memlimit) == Lesser(meminfo_memavailable(m), memlimit)

-----------------------------------------------------------------------------
(* config.c                                                                *)

\* What the comments of config.c mean by a prime.
IsPrime(n) == n > 1 /\ \A i \in 2 .. n - 1 : n % i # 0

\* What the trial divisions let through; 1 among them.
PassesTrials(n) == \A i \in 3 .. n : (i % 2 = 1 /\ i * i <= n) => n % i # 0

\* Mutant: numbers are not tried.
get_prev_prime_Odd(n) == n - 1 + (n % 2)

\* The first odd number that passes, going down from n.
get_prev_prime(n) ==
    LET odd == n - 1 + (n % 2)
        down == CHOOSE d \in 0 .. n :
                    /\ 2 * d < odd
                    /\ PassesTrials(odd - 2 * d)
                    /\ \A e \in 0 .. d - 1 : ~ PassesTrials(odd - 2 * e)
    IN  odd - 2 * down

\* The slots a file and a memory budget call for.
SlotsWanted(st_size, mem) ==
    Lesser(Greater((2 * st_size) \div AVG_LINE_BYTES, 10000),
           mem \div (2 * sizeof_t_line))

config_hmap_size(st_size, mem) == get_prev_prime(SlotsWanted(st_size, mem))

\* The bytes of a chunk that fill half of the slots with average lines.
TargetBytes(hmap_size) == (hmap_size * AVG_LINE_BYTES) \div 2

\* round(file_size / chunk_size), but at least 1.
Portions(st_size, hmap_size) ==
    LET target == TargetBytes(hmap_size)
    IN  Greater((2 * st_size + target) \div (2 * target), 1)

\* ceil(file_size / portions), the fallback to the whole file included.
config_chunk_size(st_size, hmap_size) ==
    LET portions == Portions(st_size, hmap_size)
        chunk_size == (st_size + portions - 1) \div portions
    IN  IF chunk_size = 0 \/ chunk_size > st_size THEN st_size ELSE chunk_size

\* g_conf.threads, 0 if the option is not given; more than there are is an error.
config_threads(threads, max_threads) == IF threads = 0 THEN max_threads ELSE threads

-----------------------------------------------------------------------------
(* line.h: an entry of the table packs the address and the length of a     *)
(* line into a word of 52 + 12 bits.                                       *)

CONSTANT AddressSpace     \* 2^52: what is left of a shifted address

ASSUME AddressAssumption == AddressSpace \in Nat \ {0}

MAKE_LINE(ptr, sz) == ((ptr * 4096) + (sz % 4096)) % (AddressSpace * 4096)
LINE_SIZE(ln) == ln % 4096
LINE_ADDR(ln) == ln \div 4096
LINE_ISSET(ln) == ln # 0

=============================================================================
