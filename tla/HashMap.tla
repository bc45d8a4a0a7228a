------------------------------ MODULE HashMap -------------------------------
(***************************************************************************)
(* The hash table: populate_hmap (src/hmap.c) fills it from one chunk,     *)
(* cleanout_chunk (src/chunk.c) looks the lines of other chunks up in it.  *)
(* Open addressing with linear probing; nothing is ever taken out, except  *)
(* by the memset that begins the next round.                               *)
(*                                                                         *)
(* A slot holds the text of the line it points to (lines are compared by   *)
(* length and content), or Empty.  The hash function is external: any      *)
(* function will do, and a behaviour keeps the one it starts with.  The    *)
(* lookups of the pool's threads do not write, so one reader stands for    *)
(* them all.                                                               *)
(***************************************************************************)
EXTENDS Naturals, FiniteSets

CONSTANTS
    Words,        \* the texts of lines
    Empty,        \* an unused slot, the t_line 0
    Size,         \* g_hmap.size
    SIZE_MAX      \* the largest size_t

ASSUME SizeAssumption == Size \in Nat \ {0, 1} /\ SIZE_MAX \in Nat /\ SIZE_MAX >= Size
ASSUME WordsAssumption == Empty \notin Words

VARIABLES
    hash,         \* HASH(line) % g_hmap.size
    hmap,         \* g_hmap.ptr
    pc,           \* where populate_hmap or cleanout_chunk is
    line,         \* the line at hand
    slot,         \* the slot at hand
    has_slots,    \* populate_hmap's countdown of probes, a size_t
    outcome       \* what has become of it, "none" while that is open

vars == <<hash, hmap, pc, line, slot, has_slots, outcome>>

Slot == 0 .. Size - 1
Used == {s \in Slot : hmap[s] # Empty}
Budget == (Size * 7) \div 10

\* Mutant: no wrap around.
Successor_NoWrap(s) == s + 1

Successor(s) == (s + 1) % Size

Init ==
    /\ hash \in [Words -> Slot]
    /\ hmap = [s \in Slot |-> Empty]
    /\ pc = "fill"
    /\ line = Empty
    /\ slot = 0
    /\ has_slots = 0
    /\ outcome = "none"

-----------------------------------------------------------------------------
(* populate_hmap                                                           *)

\* The local variables of one function are not those of the other.
NewLocals ==
    /\ line' = Empty
    /\ slot' = 0
    /\ has_slots' = 0
    /\ outcome' = "none"

\* Mutant: the size in slots where the size in bytes was meant.
Memset_Short ==
    /\ pc = "check"
    /\ hmap' = [s \in Slot |-> IF s < Size \div 2 THEN Empty ELSE hmap[s]]
    /\ pc' = "fill"
    /\ NewLocals
    /\ UNCHANGED hash

Memset ==
    /\ pc = "check"
    /\ hmap' = [s \in Slot |-> Empty]
    /\ pc' = "fill"
    /\ NewLocals
    /\ UNCHANGED hash

\* Mutant: the probing goes on where it ended for the line before.
PopulateLine_OldSlot(w) ==
    /\ pc = "fill"
    /\ line' = w
    /\ has_slots' = Budget
    /\ pc' = "while"
    /\ outcome' = "none"
    /\ UNCHANGED <<hash, hmap, slot>>

\* Mutant: one probe fewer.
PopulateLine_OneLess(w) ==
    /\ pc = "fill"
    /\ line' = w
    /\ slot' = hash[w]
    /\ has_slots' = Budget - 1
    /\ pc' = "while"
    /\ outcome' = "none"
    /\ UNCHANGED <<hash, hmap>>

PopulateLine(w) ==
    /\ pc = "fill"
    /\ line' = w
    /\ slot' = hash[w]
    /\ has_slots' = Budget
    /\ pc' = "while"
    /\ outcome' = "none"
    /\ UNCHANGED <<hash, hmap>>

\* while (has_slots--): the countdown is decremented when it ends the loop
\* too, and a size_t wraps around.
While ==
    /\ pc = "while"
    /\ has_slots' = IF has_slots = 0 THEN SIZE_MAX ELSE has_slots - 1
    /\ IF has_slots = 0
       THEN pc' = "after" /\ outcome' = "given up"
       ELSE pc' = "probe" /\ UNCHANGED outcome
    /\ UNCHANGED <<hash, hmap, line, slot>>

ProbeFree ==
    /\ pc = "probe"
    /\ hmap[slot] = Empty
    /\ hmap' = [hmap EXCEPT ![slot] = line]
    /\ outcome' = "stored"
    /\ pc' = "after"
    /\ UNCHANGED <<hash, line, slot, has_slots>>

ProbeEqual ==
    /\ pc = "probe"
    /\ hmap[slot] = line
    /\ outcome' = "duplicate"
    /\ pc' = "after"
    /\ UNCHANGED <<hash, hmap, line, slot, has_slots>>

\* Mutant: every other slot is left out.
ProbeOther_Two ==
    /\ pc = "probe"
    /\ hmap[slot] \notin {line, Empty}
    /\ slot' = Successor(Successor(slot))
    /\ pc' = "while"
    /\ UNCHANGED <<hash, hmap, line, has_slots, outcome>>

ProbeOther ==
    /\ pc = "probe"
    /\ hmap[slot] \notin {line, Empty}
    /\ slot' = Successor(slot)
    /\ pc' = "while"
    /\ UNCHANGED <<hash, hmap, line, has_slots, outcome>>

\* if (!has_slots) error(...)
After ==
    /\ pc = "after"
    /\ IF has_slots = 0
       THEN pc' = "error" /\ outcome' = "error"
       ELSE pc' = "fill" /\ UNCHANGED outcome
    /\ UNCHANGED <<hash, hmap, line, slot, has_slots>>

\* The chunk is in the table; other chunks are checked against it.
Populated ==
    /\ pc = "fill"
    /\ pc' = "check"
    /\ NewLocals
    /\ UNCHANGED <<hash, hmap>>

-----------------------------------------------------------------------------
(* cleanout_chunk                                                          *)

CheckLine(w) ==
    /\ pc = "check"
    /\ line' = w
    /\ slot' = hash[w]
    /\ pc' = "chain"
    /\ outcome' = "none"
    /\ UNCHANGED <<hash, hmap, has_slots>>

ChainEnd ==
    /\ pc = "chain"
    /\ hmap[slot] = Empty
    /\ outcome' = "absent"
    /\ pc' = "check"
    /\ UNCHANGED <<hash, hmap, line, slot, has_slots>>

ChainEqual ==
    /\ pc = "chain"
    /\ hmap[slot] = line
    /\ outcome' = "found"
    /\ pc' = "check"
    /\ UNCHANGED <<hash, hmap, line, slot, has_slots>>

\* Mutant: every other slot is left out.
ChainOther_Two ==
    /\ pc = "chain"
    /\ hmap[slot] \notin {line, Empty}
    /\ slot' = Successor(Successor(slot))
    /\ UNCHANGED <<hash, hmap, pc, line, has_slots, outcome>>

\* Mutant: the probing does not get beyond the last slot.
ChainOther_Clamped ==
    /\ pc = "chain"
    /\ hmap[slot] \notin {line, Empty}
    /\ slot' = IF slot = Size - 1 THEN slot ELSE slot + 1
    /\ UNCHANGED <<hash, hmap, pc, line, has_slots, outcome>>

ChainOther ==
    /\ pc = "chain"
    /\ hmap[slot] \notin {line, Empty}
    /\ slot' = Successor(slot)
    /\ UNCHANGED <<hash, hmap, pc, line, has_slots, outcome>>

-----------------------------------------------------------------------------

\* The steps of the two loops, and what starts them.
Loop ==
    \/ While \/ ProbeFree \/ ProbeEqual \/ ProbeOther \/ After
    \/ ChainEnd \/ ChainEqual \/ ChainOther

Ended == pc = "error" /\ UNCHANGED vars

Next ==
    \/ \E w \in Words : PopulateLine(w) \/ CheckLine(w)
    \/ Loop \/ Populated \/ Memset \/ Ended

Spec == Init /\ [][Next]_vars

\* A thread that has begun a loop keeps at it.
FairSpec == Spec /\ WF_vars(Loop)

-----------------------------------------------------------------------------

TypeOK ==
    /\ hash \in [Words -> Slot]
    /\ hmap \in [Slot -> Words \cup {Empty}]
    /\ pc \in {"fill", "while", "probe", "after", "check", "chain", "error"}
    /\ line \in Words \cup {Empty}
    /\ slot \in Slot
    /\ has_slots \in 0 .. SIZE_MAX
    /\ outcome \in {"none", "stored", "duplicate", "given up", "error", "absent", "found"}

(***************************************************************************)
(* A line is in the table once: probing finds an equal line before it      *)
(* comes to a free slot.                                                   *)
(***************************************************************************)
StoredOnce == \A s, u \in Used : hmap[s] = hmap[u] => s = u

\* How far slot s is from where word w hashes to.
Distance(w, s) == (s + Size - hash[w]) % Size

(***************************************************************************)
(* What makes the lookups right: from the slot a line hashes to, up to the *)
(* slot it is in, every slot is used and holds another line; and it is     *)
(* never farther away than populate_hmap may probe.                        *)
(***************************************************************************)
Reachable ==
    \A s \in Used :
        /\ Distance(hmap[s], s) < Budget
        /\ \A d \in 0 .. Distance(hmap[s], s) - 1 : (hash[hmap[s]] + d) % Size \in Used

(***************************************************************************)
(* So every line is where it is looked for, and nowhere else.              *)
(***************************************************************************)
TableSound == StoredOnce /\ Reachable

(***************************************************************************)
(* The answers are right: a line is called absent only if it is in no      *)
(* slot.  The chain of used slots may be the merger of several.            *)
(***************************************************************************)
AbsentIsRight ==
    outcome = "absent" => \A s \in Slot : hmap[s] # line

(***************************************************************************)
(* A line is given up only when Budget slots are used, and it is in none   *)
(* of them: whatever the hash function, a table that is at most 70% full   *)
(* loses nothing.                                                          *)
(***************************************************************************)
GivenUpWhenCrowded ==
    outcome = "given up" =>
        /\ Cardinality(Used) >= Budget
        /\ \A s \in Slot : hmap[s] # line

(***************************************************************************)
(* Whatever a thread is told of a line, it can rely on.                    *)
(***************************************************************************)
AnswersRight == AbsentIsRight /\ GivenUpWhenCrowded

(***************************************************************************)
(* Why the loops end: with fewer different lines than slots a slot stays   *)
(* free; and while one is free, each probe of either loop is one slot      *)
(* farther from where the line hashes to than the one before, around the   *)
(* end of the table too, so that no slot is looked at twice.               *)
(***************************************************************************)
FewWords == IsFiniteSet(Words) /\ Cardinality(Words) < Size

ProbesAdvance ==
    /\ [](FewWords => Used # Slot)
    /\ [][Used # Slot /\ pc \in {"probe", "chain"} /\ pc' \in {"while", "chain"}
             => Distance(line, slot') = Distance(line, slot) + 1]_vars

(***************************************************************************)
(* Lookups and insertions come to an end, if there are fewer different     *)
(* lines than slots.                                                       *)
(***************************************************************************)
LoopsEnd == pc \in {"while", "chain"} ~> pc \in {"fill", "check", "error"}

(***************************************************************************)
(* The table implements LineTable, the set of lines that Dedupe relies on. *)
(***************************************************************************)
Table == INSTANCE LineTable WITH
    Slots <- Size,
    stored <- {hmap[s] : s \in Used},
    reply <- IF outcome = "none" THEN << >> ELSE <<line, outcome>>

ImplementsLineTable == Table!Spec

-----------------------------------------------------------------------------
(* Two things the program's comments and README.md say of the table.       *)

(***************************************************************************)
(* hmap.c ends the program with "too much slots in use" when populate_hmap *)
(* runs out of probes: so it never goes on after giving a line up.         *)
(***************************************************************************)
GivenUpIsReported == pc = "fill" => outcome # "given up"

(***************************************************************************)
(* README.md: "Subsequent chunks are then checked against that table": the *)
(* check of a line comes to an end.                                        *)
(***************************************************************************)
ChecksEnd == pc = "chain" ~> pc = "check"

=============================================================================
