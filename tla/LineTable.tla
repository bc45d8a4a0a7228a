----------------------------- MODULE LineTable ------------------------------
(***************************************************************************)
(* What the rest of duplicut sees of the hash table: a set of lines, which *)
(* populate_hmap fills and cleanout_chunk looks lines up in.  The number   *)
(* of used slots decides which answers are possible; which one it is       *)
(* depends on where the lines hash to.  HashMap implements this module and *)
(* Dedupe builds on the same answers.                                      *)
(***************************************************************************)
EXTENDS Naturals, FiniteSets

CONSTANTS
    Words,        \* the texts of lines
    Slots         \* the size of the table

VARIABLES
    stored,       \* the lines in the table
    reply         \* the line asked about and its outcome, empty until there is one

Budget == (Slots * 7) \div 10
Used == Cardinality(stored)

Init == stored = {} /\ reply = << >>

Clear == stored' = {} /\ reply' = << >>

Call == reply' = << >> /\ UNCHANGED stored

\* populate_hmap's outcomes for one line.
Duplicate(w) ==
    /\ w \in stored
    /\ reply' = <<w, "duplicate">>
    /\ UNCHANGED stored

Store(w) ==
    /\ w \notin stored
    /\ Used < Slots
    /\ stored' = stored \cup {w}
    /\ reply' = <<w, "stored">>

GiveUp(w) ==
    /\ w \notin stored
    /\ Used >= Budget
    /\ reply' = <<w, "given up">>
    /\ UNCHANGED stored

\* The program ends, after a line was found or stored.
Fail ==
    /\ Used >= Budget
    /\ reply # << >>
    /\ reply' = <<reply[1], "error">>
    /\ UNCHANGED stored

\* cleanout_chunk's outcomes for one line.
Found(w) ==
    /\ w \in stored
    /\ reply' = <<w, "found">>
    /\ UNCHANGED stored

Absent(w) ==
    /\ w \notin stored
    /\ Used < Slots
    /\ reply' = <<w, "absent">>
    /\ UNCHANGED stored

Next ==
    \/ Clear \/ Call \/ Fail
    \/ \E w \in Words :
          Duplicate(w) \/ Store(w) \/ GiveUp(w) \/ Found(w) \/ Absent(w)

Spec == Init /\ [][Next]_<<stored, reply>>

=============================================================================
