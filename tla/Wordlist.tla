------------------------------ MODULE Wordlist ------------------------------
(***************************************************************************)
(* What duplicut promises of a wordlist, whatever its chunks, its hash     *)
(* table and its threads: a line may only be removed while an equal line   *)
(* before it stays, junk is never mistaken for a duplicate, and the work   *)
(* is over only when no line equals an earlier one.  When it was given too *)
(* little memory it may miss lines or stop, but the first rule holds.      *)
(* Dedupe and FileScan implement it.                                       *)
(***************************************************************************)
EXTENDS Naturals

CONSTANTS NumLines, Words, Junk

VARIABLES
    exact,        \* whether there is memory enough
    text,         \* the content of each line, Junk if the options filter it
    removed,      \* the lines tagged for removal
    finished      \* whether the result has been delivered

vars == <<exact, text, removed, finished>>

Line == 1 .. NumLines

Redundant(i) ==
    /\ i \in Line \ removed
    /\ text[i] # Junk
    /\ \E j \in 1 .. i - 1 : j \notin removed /\ text[j] = text[i]

Init ==
    /\ exact \in BOOLEAN
    /\ text \in [Line -> Words \cup {Junk}]
    /\ removed = {}
    /\ finished = FALSE

Remove(i) ==
    /\ ~ finished
    /\ Redundant(i)
    /\ removed' = removed \cup {i}
    /\ UNCHANGED <<exact, text, finished>>

Finish ==
    /\ ~ finished
    /\ exact => \A i \in Line : ~ Redundant(i)
    /\ finished' = TRUE
    /\ UNCHANGED <<exact, text, removed>>

Next == Finish \/ \E i \in Line : Remove(i)

Spec == Init /\ [][Next]_vars

\* With memory enough the work gets done.
FairSpec == Spec /\ WF_vars(exact /\ Next)

=============================================================================
