---------------------------- MODULE SizingProofs -----------------------------
(***************************************************************************)
(* The sizes that config.c computes, for a file and a memory of any size:  *)
(* get_prev_prime finds a prime and passes none over, the table keeps to   *)
(* the memory it may use, and a chunk is a part of the file that average   *)
(* lines cannot fill the table with.                                       *)
(***************************************************************************)
EXTENDS Sizing, WellFoundedInduction, TLAPS

-----------------------------------------------------------------------------
(* Division                                                                *)

\* Quotient and remainder.
LEMMA DivMod ==
    ASSUME NEW a \in Nat, NEW d \in Nat \ {0}
    PROVE  /\ a = (d * (a \div d)) + (a % d)
           /\ a \div d \in Nat /\ a % d \in 0 .. d - 1
OBVIOUS

\* A multiple leaves nothing.
LEMMA MultipleMod ==
    ASSUME NEW q \in Nat, NEW d \in Nat \ {0}
    PROVE  (q * d) % d = 0
<1> DEFINE r == (q * d) % d
           k == (q * d) \div d
<1>1. q * d = (d * k) + r /\ r \in 0 .. d - 1 /\ k \in Int /\ q * d \in Int
  OBVIOUS
<1> HIDE DEF r, k
<1>2. d * (q - k) = r
  BY <1>1
<1>3. CASE q - k <= 0
  <2>1. d * (q - k) <= 0
    BY <1>1, <1>3
  <2> QED BY <1>1, <1>2, <2>1 DEF r
<1>4. CASE q - k >= 1
  <2>1. d * (q - k) >= d
    BY <1>1, <1>4
  <2> QED BY <1>1, <1>2, <2>1
<1> QED BY <1>1, <1>3, <1>4

\* What leaves nothing is a multiple.
LEMMA ModMultiple ==
    ASSUME NEW n \in Nat, NEW d \in Nat \ {0}, n % d = 0
    PROVE  n = (n \div d) * d /\ n \div d \in Nat
<1>1. n = (d * (n \div d)) + (n % d) /\ n \div d \in Nat
  OBVIOUS
<1>2. d * (n \div d) = (n \div d) * d
  BY <1>1
<1> QED BY <1>1, <1>2

-----------------------------------------------------------------------------
(* get_prev_prime                                                          *)

\* Of two factors of an odd number the smaller one is among the trials, so
\* that an odd number the trials let through is a prime, but for 1.
LEMMA PassedArePrime ==
    ASSUME NEW n \in Nat, n > 1, n % 2 = 1, PassesTrials(n)
    PROVE  IsPrime(n)
<1> SUFFICES ASSUME NEW i \in 2 .. n - 1, n % i = 0 PROVE FALSE
  BY DEF IsPrime
<1> DEFINE q == n \div i
<1>1. n = q * i /\ q \in Nat
  BY ModMultiple
<1> HIDE DEF q
<1>2. q >= 2
  <2>1. q # 0 /\ q # 1
    BY <1>1
  <2> QED BY <1>1, <2>1
<1>3. n % q = 0
  <2>1. n = i * q
    BY <1>1
  <2> QED BY <1>1, <1>2, <2>1, MultipleMod
<1>4. ASSUME NEW m \in Nat, m >= 2, m * m <= n, n % m = 0
      PROVE  FALSE
  <2>1. m % 2 = 1
    <3> SUFFICES ASSUME m % 2 = 0 PROVE FALSE
      OBVIOUS
    <3>1. m = (m \div 2) * 2 /\ m \div 2 \in Nat
      BY <1>4, ModMultiple
    <3>2. n = (n \div m) * m /\ n \div m \in Nat
      BY <1>4, ModMultiple
    <3> DEFINE a == n \div m
               b == m \div 2
    <3> HIDE DEF a, b
    <3>3. n = a * (b * 2) /\ a \in Nat /\ b \in Nat
      BY <3>1, <3>2 DEF a, b
    <3>4. a * (b * 2) = (a * b) * 2
      BY <3>3
    <3>5. n = ((n \div m) * (m \div 2)) * 2
      BY <3>3, <3>4 DEF a, b
    <3>6. (n \div m) * (m \div 2) \in Nat
      BY <3>1, <3>2
    <3>7. n % 2 = 0
      BY <3>5, <3>6, MultipleMod
    <3> QED BY <3>7
  <2>2. m >= 3 /\ m <= n
    <3>1. m # 2
      BY <2>1
    <3>2. m <= m * m
      BY <1>4
    <3> QED BY <1>4, <3>1, <3>2
  <2> QED BY <1>4, <2>1, <2>2 DEF PassesTrials
<1>5. i * i <= n \/ q * q <= n
  <2>1. CASE i <= q
    BY <1>1, <2>1
  <2>2. CASE q <= i
    BY <1>1, <1>2, <2>2
  <2> QED BY <1>1, <2>1, <2>2
<1> QED BY <1>1, <1>2, <1>3, <1>4, <1>5

\* And no prime is stopped by a trial, nor an even number greater than 2 one.
LEMMA PrimesPass ==
    ASSUME NEW n \in Nat, IsPrime(n)
    PROVE  PassesTrials(n) /\ (n > 2 => n % 2 = 1)
<1>1. n > 1
  BY DEF IsPrime
<1>2. ASSUME NEW i \in 3 .. n, i * i <= n PROVE n % i # 0
  <2>1. i * i >= 3 * i
    OBVIOUS
  <2>2. i \in 2 .. n - 1
    BY <1>2, <2>1
  <2> QED BY <2>2 DEF IsPrime
<1>3. ASSUME n > 2 PROVE n % 2 # 0
  BY <1>3 DEF IsPrime
<1> QED BY <1>2, <1>3 DEF PassesTrials

\* The loop ends, at the last odd number that passes; 3 does.
LEMMA TrialsStop ==
    ASSUME NEW n \in Nat, n >= 3
    PROVE  LET odd == n - 1 + (n % 2)
           IN  \E d \in 0 .. n :
                  /\ 2 * d < odd - 1
                  /\ PassesTrials(odd - 2 * d)
                  /\ \A e \in 0 .. d - 1 : ~ PassesTrials(odd - 2 * e)
<1> DEFINE odd == n - 1 + (n % 2)
           S == {d \in 0 .. n : PassesTrials(odd - 2 * d)}
           three == (odd - 3) \div 2
<1>1. odd \in Nat /\ odd >= 3 /\ odd <= n /\ odd - 2 * three = 3 /\ three \in 0 .. n
  OBVIOUS
<1>2. PassesTrials(3)
  BY DEF PassesTrials
<1>3. three \in S
  BY <1>1, <1>2
<1> HIDE DEF odd
<1>4. S \subseteq Nat
  OBVIOUS
<1>5. \E d \in S : \A e \in S : ~ (<<e, d>> \in OpToRel(<, Nat))
  BY <1>3, <1>4, NatLessThanWellFounded, WFMin
<1>6. PICK d \in S : \A e \in S : ~ (<<e, d>> \in OpToRel(<, Nat))
  BY <1>5
<1>7. \A e \in S : d <= e
  <2> TAKE e \in S
  <2>1. e \in Nat /\ d \in Nat /\ ~ (e < d)
    BY <1>4, <1>6 DEF OpToRel
  <2> QED BY <2>1
<1>8. d <= three /\ 2 * d < odd - 1
  BY <1>1, <1>3, <1>7
<1>9. \A e \in 0 .. d - 1 : e \notin S /\ e \in 0 .. n
  BY <1>7
<1> QED BY <1>8, <1>9 DEF odd

\* The greatest prime up to n.
THEOREM PrevPrime ==
    ASSUME NEW n \in Nat, n >= 3
    PROVE  /\ get_prev_prime(n) \in 2 .. n
           /\ IsPrime(get_prev_prime(n))
           /\ \A m \in get_prev_prime(n) + 1 .. n : ~ IsPrime(m)
<1> DEFINE odd == n - 1 + (n % 2)
           Stops(d) == /\ 2 * d < odd
                       /\ PassesTrials(odd - 2 * d)
                       /\ \A e \in 0 .. d - 1 : ~ PassesTrials(odd - 2 * e)
           down == CHOOSE d \in 0 .. n : Stops(d)
<1>1. odd \in Nat /\ odd >= 3 /\ odd % 2 = 1 /\ odd <= n /\ n <= odd + 1
  OBVIOUS
<1>2. PICK d \in 0 .. n : Stops(d) /\ 2 * d < odd - 1
  <2>1. PICK d \in 0 .. n : /\ 2 * d < odd - 1
                            /\ PassesTrials(odd - 2 * d)
                            /\ \A e \in 0 .. d - 1 : ~ PassesTrials(odd - 2 * e)
    BY TrialsStop
  <2>2. 2 * d < odd
    BY <1>1, <2>1
  <2> QED BY <2>1, <2>2
<1> HIDE DEF odd
<1>3. down \in 0 .. n /\ Stops(down)
  BY <1>2
<1> HIDE DEF down
<1>4. down = d
  BY <1>2, <1>3
<1>5. get_prev_prime(n) = odd - 2 * down
  BY DEF get_prev_prime, odd, down
<1> DEFINE p == odd - 2 * down
<1>6. p \in Nat /\ p > 1 /\ p <= n /\ p % 2 = 1
  BY <1>1, <1>2, <1>3, <1>4
<1>7. IsPrime(p)
  BY <1>3, <1>6, PassedArePrime
<1>8. ASSUME NEW m \in p + 1 .. n, IsPrime(m)
      PROVE  FALSE
  <2>1. m \in Nat /\ m > 2
    BY <1>6
  <2>2. PassesTrials(m) /\ m % 2 = 1
    BY <1>8, <2>1, PrimesPass
  <2> DEFINE e == (odd - m) \div 2
  <2>3. m <= odd /\ m = odd - 2 * e /\ e \in 0 .. down - 1
    BY <1>1, <1>3, <2>1, <2>2
  <2> QED BY <1>3, <2>2, <2>3
<1> QED BY <1>5, <1>6, <1>7, <1>8

-----------------------------------------------------------------------------
(* The table and the chunk                                                 *)

\* The memory limit leaves 4096 slots at least, of which the table has the
\* greatest prime, and it takes no more than half of the memory.
THEOREM HmapSize ==
    ASSUME NEW st_size \in Nat, NEW mem \in Nat, mem >= MIN_MEMORY
    PROVE  LET hmap_size == config_hmap_size(st_size, mem)
               wanted == SlotsWanted(st_size, mem)
           IN  /\ IsPrime(hmap_size) /\ hmap_size \in 2 .. wanted
               /\ \A n \in hmap_size + 1 .. wanted : ~ IsPrime(n)
               /\ 2 * hmap_size * sizeof_t_line <= mem
<1> DEFINE wanted == SlotsWanted(st_size, mem)
<1>1. wanted \in Nat /\ wanted >= 4096 /\ wanted * 16 <= mem
  BY DEF SlotsWanted, Lesser, Greater, AVG_LINE_BYTES, sizeof_t_line, MIN_MEMORY
<1> HIDE DEF wanted
<1>2. /\ get_prev_prime(wanted) \in 2 .. wanted
      /\ IsPrime(get_prev_prime(wanted))
      /\ \A m \in get_prev_prime(wanted) + 1 .. wanted : ~ IsPrime(m)
  BY <1>1, PrevPrime
<1>3. config_hmap_size(st_size, mem) = get_prev_prime(wanted)
  BY DEF config_hmap_size, wanted
<1>4. 2 * get_prev_prime(wanted) * sizeof_t_line <= mem
  BY <1>1, <1>2 DEF sizeof_t_line
<1> QED BY <1>2, <1>3, <1>4 DEF wanted

\* The file is cut into equal portions of at most one and a half times the
\* bytes aimed at, rounded up.
LEMMA Portion ==
    ASSUME NEW st_size \in Nat \ {0}, NEW T \in Nat, T >= 4, NEW p \in Nat \ {0},
           p = Greater((2 * st_size + T) \div (2 * T), 1)
    PROVE  LET chunk_size == (st_size + p - 1) \div p
           IN  chunk_size \in 1 .. st_size /\ chunk_size < 2 * T
<1> DEFINE c == (st_size + p - 1) \div p
           w == (2 * st_size + T) \div (2 * T)
<1>1. c \in Nat /\ p * c <= st_size + p - 1 /\ st_size + p - 1 < (p * c) + p
  <2> DEFINE a == st_size + p - 1
  <2>1. a \in Nat
    OBVIOUS
  <2> HIDE DEF a
  <2>2. a = (p * (a \div p)) + (a % p) /\ a \div p \in Nat /\ a % p \in 0 .. p - 1
    BY <2>1, DivMod
  <2>3. a = (p * c) + (a % p) /\ c \in Nat
    BY <2>2 DEF a
  <2> DEFINE r == a % p
             y == p * c
  <2> HIDE DEF c, r
  <2>4. y \in Nat /\ r \in 0 .. p - 1 /\ a = y + r
    <3>1. r \in 0 .. p - 1
      BY <2>2 DEF r
    <3>2. a = y + r
      BY <2>3 DEF r
    <3>3. y \in Nat
      BY <2>3
    <3> QED BY <3>1, <3>2, <3>3
  <2> HIDE DEF y
  <2>5. y <= a /\ a < y + p
    BY <2>1, <2>4
  <2> QED BY <2>3, <2>5 DEF a, y
<1>2. w \in Nat /\ 2 * st_size + T < ((2 * T) * w) + (2 * T) /\ w <= p
  <2> DEFINE a == 2 * st_size + T
             b == 2 * T
  <2>1. a \in Nat /\ b \in Nat \ {0}
    OBVIOUS
  <2> HIDE DEF a, b
  <2>2. a = (b * (a \div b)) + (a % b) /\ a \div b \in Nat /\ a % b \in 0 .. b - 1
    BY <2>1, DivMod
  <2>3. a = (b * w) + (a % b) /\ w \in Nat
    BY <2>2 DEF a, b
  <2>4. w <= p
    BY <2>3 DEF Greater
  <2> HIDE DEF w
  <2>5. b * w \in Nat
    BY <2>1, <2>3
  <2>6. a < (b * w) + b
    BY <2>1, <2>2, <2>3, <2>5
  <2> QED BY <2>3, <2>4, <2>6 DEF a, b
<1> HIDE DEF c, w
<1>3. c >= 1
  <2> SUFFICES ASSUME c = 0 PROVE FALSE
    BY <1>1
  <2> QED BY <1>1
<1>4. c <= st_size
  <2> SUFFICES ASSUME c >= st_size + 1 PROVE FALSE
    BY <1>1
  <2>1. p * c >= p * (st_size + 1)
    BY <1>1
  <2>2. p * (st_size + 1) = (p * st_size) + p
    OBVIOUS
  <2>3. p * st_size >= st_size
    OBVIOUS
  <2> QED BY <1>1, <2>1, <2>2, <2>3
<1>5. c < 2 * T
  <2> SUFFICES ASSUME c >= 2 * T PROVE FALSE
    BY <1>1
  <2>1. p * c >= p * (2 * T)
    BY <1>1
  <2>2. (2 * T) * w <= (2 * T) * p
    BY <1>2
  <2> DEFINE y == p * T
  <2>3. p * (2 * T) = 2 * y /\ (2 * T) * p = 2 * y /\ y \in Nat
    OBVIOUS
  <2>4. y \in Nat /\ y >= 4 * p /\ y >= T
    OBVIOUS
  <2> HIDE DEF y
  <2>5. 2 * y <= st_size + p - 1
    BY <1>1, <2>1, <2>3
  <2>6. 2 * st_size < (2 * y) + T
    BY <1>2, <2>2, <2>3
  <2> QED BY <2>4, <2>5, <2>6
<1> QED BY <1>3, <1>4, <1>5 DEF c

\* A chunk is a part of the file, and average lines leave slots free in it.
THEOREM ChunkSize ==
    ASSUME NEW st_size \in Nat \ {0}, NEW hmap_size \in Nat \ {0}
    PROVE  LET chunk_size == config_chunk_size(st_size, hmap_size)
           IN  chunk_size \in 1 .. st_size /\ chunk_size \div AVG_LINE_BYTES < hmap_size
<1> DEFINE T == TargetBytes(hmap_size)
           p == Portions(st_size, hmap_size)
           c == (st_size + p - 1) \div p
<1>1. T = 4 * hmap_size
  BY DEF TargetBytes, AVG_LINE_BYTES
<1>2. T \in Nat /\ T >= 4
  BY <1>1
<1> HIDE DEF T
<1>3. p = Greater((2 * st_size + T) \div (2 * T), 1)
  BY DEF Portions, T
<1>4. p \in Nat \ {0}
  <2>1. (2 * st_size + T) \div (2 * T) \in Nat
    BY <1>2
  <2> QED BY <1>3, <2>1 DEF Greater
<1> HIDE DEF p
<1>5. c \in 1 .. st_size /\ c < 2 * T
  BY <1>2, <1>3, <1>4, Portion
<1> HIDE DEF c
<1>6. config_chunk_size(st_size, hmap_size) = IF c = 0 \/ c > st_size THEN st_size ELSE c
  BY DEF config_chunk_size, c, p
<1>7. config_chunk_size(st_size, hmap_size) = c
  BY <1>5, <1>6
<1>8. c \div 8 < hmap_size
  BY <1>1, <1>5
<1> QED BY <1>5, <1>7, <1>8 DEF AVG_LINE_BYTES

-----------------------------------------------------------------------------
(* Widths                                                                  *)

\* What is left of a number is in the type, and is the number if that was.
LEMMA WrapRange ==
    ASSUME NEW max \in Nat, NEW x \in Int
    PROVE  /\ Wrap(max, x) \in - (max + 1) .. max
           /\ x \in - (max + 1) .. max => Wrap(max, x) = x
<1> DEFINE w == 2 * (max + 1)
           y == x + max + 1
<1>1. y % w \in 0 .. w - 1
  OBVIOUS
<1>2. y \in 0 .. w - 1 => y % w = y
  OBVIOUS
<1>3. Wrap(max, x) = (y % w) - (max + 1)
  BY DEF Wrap
<1> QED BY <1>1, <1>2, <1>3

\* An entry of the table gives back the address and the length packed into it,
\* and is not taken for an unused slot: no line is empty.
THEOREM LineRoundTrip ==
    ASSUME NEW ptr \in 0 .. AddressSpace - 1, NEW sz \in 1 .. MAX_MAX_LINE_SIZE
    PROVE  /\ LINE_ADDR(MAKE_LINE(ptr, sz)) = ptr
           /\ LINE_SIZE(MAKE_LINE(ptr, sz)) = sz
           /\ LINE_ISSET(MAKE_LINE(ptr, sz))
<1>1. sz % 4096 = sz
  BY DEF MAX_MAX_LINE_SIZE
<1>2. (ptr * 4096) + sz \in 0 .. (AddressSpace * 4096) - 1
  BY AddressAssumption DEF MAX_MAX_LINE_SIZE
<1>3. MAKE_LINE(ptr, sz) = (ptr * 4096) + sz
  BY <1>1, <1>2, AddressAssumption DEF MAKE_LINE
<1> QED BY <1>2, <1>3, AddressAssumption DEF LINE_ADDR, LINE_SIZE, LINE_ISSET, MAX_MAX_LINE_SIZE

=============================================================================
