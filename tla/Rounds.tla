------------------------------- MODULE Rounds -------------------------------
(***************************************************************************)
(* What tag_duplicates of src/dedupe.c promises of the order of its work,  *)
(* whatever the number of threads: the file is cut into chunks; in round c *)
(* the table is filled from chunk c, which checks c against itself, and    *)
(* then every later chunk is checked against the table, in any order; a    *)
(* round begins when the one before is over, as there is one table; each   *)
(* pair of chunks is checked once, and the result is delivered when all    *)
(* were.  Dedupe and Session implement it.                                 *)
(***************************************************************************)
EXTENDS Naturals

VARIABLES
    chunks,       \* how many chunks the file was cut into so far
    round,        \* the chunk the table is filled from, 0 before the first
    checked,      \* the pairs <<c, k>>: chunk k was checked against chunk c
    delivered     \* whether the rounds are over

vars == <<chunks, round, checked, delivered>>

Pairs == {p \in (1 .. chunks) \X (1 .. chunks) : p[1] <= p[2]}

Init ==
    /\ chunks \in Nat
    /\ round = 0
    /\ checked = {}
    /\ delivered = FALSE

Cut ==
    /\ round = 0
    /\ chunks' = chunks + 1
    /\ UNCHANGED <<round, checked, delivered>>

NextRound ==
    /\ round < chunks
    /\ \A p \in Pairs : p[1] <= round => p \in checked
    /\ round' = round + 1
    /\ UNCHANGED <<chunks, checked, delivered>>

Check(p) ==
    /\ p \in Pairs \ checked
    /\ p[1] = round
    /\ p[2] # round => <<round, round>> \in checked
    /\ checked' = checked \cup {p}
    /\ UNCHANGED <<chunks, round, delivered>>

Deliver ==
    /\ ~ delivered
    /\ checked = Pairs
    /\ delivered' = TRUE
    /\ UNCHANGED <<chunks, round, checked>>

Next == Cut \/ NextRound \/ Deliver \/ \E p \in Pairs : Check(p)

Spec == Init /\ [][Next]_vars

=============================================================================
