------------------------ MODULE FileScanResultProofs ------------------------
(***************************************************************************)
(* That FileScan removes every duplicate, and what it leaves in the file:  *)
(* byte for byte what the Python reference makes of it; and that it checks *)
(* every chunk against every one before it.                                *)
(***************************************************************************)
EXTENDS FileScanProofs, FiniteSetTheorems

-----------------------------------------------------------------------------
(* No duplicate is missed                                                  *)

\* The lines that no earlier line equals.
First == {u \in 1 .. N : text[u] # NoLine /\ \A w \in 1 .. u - 1 : text[w] # text[u]}

\* The lines that are left.
Left == {s \in 1 .. N : text[s] # NoLine /\ s \notin tagged}

\* Before address e there is no line that s repeats.
Checked(s, e) == \A u \in First : u < e /\ u < s => text[u] # text[s]

\* Lines before address e that are not in the table need not be.
TableCovers(e) ==
    \A u \in First : u < e =>
        \/ \E ln \in hmap : ln.addr = u
        \/ \A s \in Left : u < s => text[u] # text[s]

\* How far the tasks of the round have been handed out.
HandedOut == IF main = "subchunks" THEN chunk.endptr ELSE N + 1

\* What has been checked against what: a line that was read in this round has
\* been compared with all the lines up to the end of the round's chunk.
Complete ==
    /\ main = "next" => \A s \in Left : Checked(s, main_chunk.endptr)
    /\ main = "populate" =>
          /\ TableCovers(main_chunk.ptr)
          /\ \A s \in Left : s < main_chunk.ptr => Checked(s, main_chunk.ptr)
    /\ main \in {"subchunks", "wait"} =>
          /\ TableCovers(main_chunk.endptr)
          /\ \A s \in Left : s < HandedOut => \/ \E t \in tasks : s \in t.ptr .. t.endptr - 1
                                              \/ Checked(s, main_chunk.endptr)
    /\ ~ Tagging => \A s \in Left : Checked(s, N + 1)

\* Every line equals a first one, and that one is never tagged.
LEMMA FirstOf ==
    ASSUME IInv
    PROVE  /\ \A s \in 1 .. N : text[s] # NoLine => \E u \in First : u <= s /\ text[u] = text[s]
           /\ First \subseteq Left
           /\ \A s \in Left : Checked(s, N + 1) => s \in First
           /\ \A s \in tagged : s \in 1 .. N /\ s \notin First
<1>1. ASSUME NEW s \in 1 .. N, text[s] # NoLine
      PROVE  \E u \in First : u <= s /\ text[u] = text[s]
  <2> DEFINE S == {w \in 1 .. s : text[w] = text[s]}
  <2>1. S \subseteq Nat /\ s \in S
    OBVIOUS
  <2>2. Least(S) \in S /\ \A w \in S : Least(S) <= w
    <3> HIDE DEF S
    <3> QED BY <2>1, LeastOf
  <2> DEFINE u == Least(S)
  <2>3. u \in 1 .. s /\ text[u] = text[s] /\ \A w \in S : u <= w
    BY <2>2
  <2> HIDE DEF u
  <2>4. \A w \in 1 .. u - 1 : w \notin S /\ w \in 1 .. s
    BY <2>1, <2>3
  <2>5. u \in 1 .. N
    BY <2>3, SizeOK DEF IInv
  <2>6. u \in First
    BY <1>1, <2>3, <2>4, <2>5 DEF First
  <2> QED BY <2>3, <2>6
<1>2. First \subseteq Left
  BY DEF First, Left, IInv, TaggedDupes
<1>3. ASSUME NEW s \in Left, Checked(s, N + 1)
      PROVE  s \in First
  <2>1. s \in 1 .. N /\ text[s] # NoLine
    BY DEF Left
  <2>2. PICK u \in First : u <= s /\ text[u] = text[s]
    BY <1>1, <2>1
  <2>3. u \in 1 .. N /\ N \in Nat
    BY SizeOK DEF First, IInv
  <2>4. ~ (u < s)
    BY <1>3, <2>1, <2>2, <2>3 DEF Checked
  <2>5. u = s
    BY <2>1, <2>2, <2>3, <2>4
  <2> QED BY <2>2, <2>5
<1>4. \A s \in tagged : s \in 1 .. N /\ s \notin First
  BY DEF IInv, MemoryOK, TaggedReal, TaggedDupes, First
<1> QED BY <1>1, <1>2, <1>3, <1>4

\* What is not tagged now was not tagged before.
LEMMA LessLeft ==
    ASSUME InputOK, UNCHANGED input, tagged \subseteq tagged'
    PROVE  /\ N' = N /\ text' = text /\ First' = First /\ Left' \subseteq Left
           /\ \A s, e : Checked(s, e)' <=> Checked(s, e)
<1>1. N' = N /\ text' = text
  BY Frame DEF input
<1>2. First' = First
  BY <1>1 DEF First
<1>3. Left' \subseteq Left
  BY <1>1 DEF Left
<1>4. \A s, e : Checked(s, e)' <=> Checked(s, e)
  BY <1>1, <1>2 DEF Checked
<1> QED BY <1>1, <1>2, <1>3, <1>4

\* Nothing is left to be checked when there is nothing before.
LEMMA InitComplete == Init => Complete
BY DEF Init, Complete, Checked, First, NoChunk, NULL, Tagging

\* A line that is not in the table repeats none before the chunk's end.
LEMMA NotInTable ==
    ASSUME IInv, Tagging, NEW e, TableCovers(e), NEW s \in Left, ~ InTable(text[s])
    PROVE  Checked(s, e)
<1>1. \A ln \in hmap : text[ln.addr] # text[s]
  BY TableHolds
<1> QED BY <1>1 DEF TableCovers, Checked

\* A new round: the table is empty, and the rounds before have done the rest.
LEMMA NextMainChunkComplete ==
    ASSUME IInv, Complete, NextMainChunk
    PROVE  Complete'
<1>1. /\ main = "next" /\ main' = "populate" /\ UNCHANGED <<input, tagged>>
      /\ main_chunk' = get_next_chunk(main_chunk) /\ HasNextChunk(main_chunk)
  BY DEF NextMainChunk
<1>2. /\ N' = N /\ text' = text /\ First' = First /\ Left' \subseteq Left
      /\ \A s, e : Checked(s, e)' <=> Checked(s, e)
  BY <1>1, LessLeft DEF IInv
<1>3. \A s \in Left : Checked(s, main_chunk.endptr)
  BY <1>1 DEF Complete
<1>4. main_chunk'.ptr = IF main_chunk = NoChunk THEN 1 ELSE main_chunk.endptr
  <2>1. Tagging /\ TaggedReal /\ MemoryFrom(1)
    BY <1>1 DEF IInv, MemoryOK, ReadFrom, Tagging
  <2> QED BY <1>1, <2>1, NextChunkOK DEF IInv, ChunksOK, RewriteOK
<1>5. \A s \in Left : Checked(s, main_chunk'.ptr)
  BY <1>3, <1>4, SizeOK DEF Checked, First, IInv
<1>6. TableCovers(main_chunk.ptr)'
  BY <1>2, <1>5 DEF TableCovers, Checked
<1> QED BY <1>1, <1>2, <1>5, <1>6 DEF Complete, Tagging

\* A line that was read is in the table, or tagged.
LEMMA PopulateComplete ==
    ASSUME IInv, Complete, Populate
    PROVE  Complete'
<1> DEFINE c == main_chunk
           r == get_next_line(bytes, main_chunk)
           l == r.line
<1>1. Tagging /\ main = "populate" /\ main' = main /\ r.found /\ UNCHANGED input
      /\ main_chunk' = [c EXCEPT !.ptr = r.ptr]
  BY DEF Populate, Tagging
<1>2. \/ InTable(r.str) /\ Tag(r) /\ UNCHANGED hmap
      \/ /\ ~ InTable(r.str)
         /\ hmap' = hmap \cup {[addr |-> l, size |-> Len(r.str)]} /\ UNCHANGED <<bytes, tagged>>
  BY DEF Populate
<1>3. ChunkOK(c)
  BY <1>1 DEF IInv, ChunksOK
<1>4. GetLineOK(c, r)
  BY <1>1, <1>3, ReadChunk
<1>5. IInv'
  BY PopulateStep
<1> HIDE DEF r, c
<1>6. tagged \subseteq tagged'
  BY <1>2 DEF Tag
<1>7. /\ N' = N /\ text' = text /\ First' = First /\ Left' \subseteq Left
      /\ \A s, e : Checked(s, e)' <=> Checked(s, e)
  BY <1>1, <1>6, LessLeft DEF IInv
<1>8. main_chunk'.ptr = r.ptr /\ r.ptr \in Nat /\ c.ptr \in Nat /\ c.ptr <= r.ptr /\ N \in Nat
  <2>1. InputOK
    BY DEF IInv
  <2> QED BY <1>1, <1>3, <1>4, <2>1, RestOfChunk, FileEnds, SizeOK DEF ChunkOK
<1>9. /\ l \in c.ptr .. r.ptr - 1 /\ l \in Left /\ r.str = text[l]
      /\ \A s \in c.ptr .. r.ptr - 1 : s \in Left => s = l
  <2>1. r.ptr \in 1 .. N + 1 /\ c.ptr \in 1 .. N + 1
    BY <1>3, <1>4, FileEnds DEF IInv, GetLineOK, ChunkOK
  <2>2. /\ l \in c.ptr .. r.ptr - 1 /\ l \notin tagged /\ text[l] # NoLine /\ r.str = text[l]
        /\ \A s \in c.ptr .. r.ptr - 1 : text[s] # NoLine => s = l \/ s \in tagged
    BY <1>1, <1>4 DEF GetLineOK
  <2>3. l \in 1 .. N
    BY <1>8, <2>1, <2>2
  <2> QED BY <2>2, <2>3 DEF Left
<1>10. TableCovers(c.ptr) /\ \A s \in Left : s < c.ptr => Checked(s, c.ptr)
  BY <1>1 DEF Complete, c
<1>11. \A s \in Left : s \in Nat
  BY DEF Left
<1>12. \A s \in Left : s < c.ptr \/ s = l \/ ~ (s < r.ptr)
  <2>1. \A s \in Nat : s < c.ptr \/ s \in c.ptr .. r.ptr - 1 \/ ~ (s < r.ptr)
    BY <1>8
  <2> QED BY <1>9, <1>11, <2>1
<1>13. \A u \in First : u \in Left /\ u \in Nat
  BY <1>11, FirstOf
<1>14. CASE InTable(r.str) /\ Tag(r) /\ UNCHANGED hmap
  <2>1. l \in tagged' /\ l \notin Left' /\ l \notin First
    <3>1. l \in tagged'
      BY <1>14 DEF Tag
    <3>2. l \notin Left'
      BY <3>1 DEF Left
    <3>3. l \notin First'
      BY <1>5, <3>1 DEF IInv, TaggedDupes, First
    <3> QED BY <1>7, <3>1, <3>2, <3>3
  <2>2. \A u \in First : u < r.ptr => u < c.ptr
    BY <1>12, <1>13, <2>1
  <2>3. TableCovers(main_chunk.ptr)'
    BY <1>7, <1>8, <1>10, <1>14, <2>2 DEF TableCovers
  <2>4. \A s \in Left' : s < r.ptr => Checked(s, r.ptr)
    BY <1>7, <1>10, <1>12, <2>1, <2>2 DEF Checked
  <2> QED BY <1>1, <1>7, <1>8, <2>3, <2>4 DEF Complete, Tagging
<1>15. CASE /\ ~ InTable(r.str)
            /\ hmap' = hmap \cup {[addr |-> l, size |-> Len(r.str)]} /\ UNCHANGED <<bytes, tagged>>
  <2>1. \E ln \in hmap' : ln.addr = l
    <3>1. [addr |-> l, size |-> Len(r.str)] \in hmap'
      BY <1>15
    <3>2. [addr |-> l, size |-> Len(r.str)].addr = l
      OBVIOUS
    <3> QED BY <3>1, <3>2
  <2>2. TableCovers(main_chunk.ptr)'
    BY <1>7, <1>8, <1>10, <1>12, <1>13, <1>15, <2>1 DEF TableCovers
  <2>3. Checked(l, c.ptr)
    BY <1>1, <1>9, <1>10, <1>15, NotInTable
  <2>4. \A u \in First : u < r.ptr => u < c.ptr \/ u = l
    BY <1>12, <1>13
  <2>5. \A s \in Left : s < r.ptr => Checked(s, r.ptr)
    <3> SUFFICES ASSUME NEW s \in Left, s < r.ptr, NEW u \in First, u < r.ptr, u < s
                 PROVE  text[u] # text[s]
      BY DEF Checked
    <3>1. s < c.ptr \/ s = l
      BY <1>12
    <3>2. u \in Nat /\ s \in Nat /\ l \in Nat
      BY <1>9, <1>11, <1>13
    <3>3. u < c.ptr
      BY <1>8, <1>9, <2>4, <3>1, <3>2
    <3> QED BY <1>10, <2>3, <3>1, <3>3 DEF Checked
  <2> QED BY <1>1, <1>7, <1>8, <2>2, <2>5 DEF Complete, Tagging
<1> QED BY <1>2, <1>14, <1>15

\* Chunks are handed over: nothing is missed between them.
LEMMA QuietComplete ==
    ASSUME IInv, Complete, Populated \/ AddTask \/ ChunkDone \/ WaitReturns
    PROVE  Complete'
<1>1. Tagging /\ Tagging' /\ UNCHANGED <<input, tagged, hmap>>
  BY DEF Populated, AddTask, ChunkDone, WaitReturns, Tagging
<1>2. /\ N' = N /\ text' = text /\ First' = First /\ Left' \subseteq Left
      /\ \A s, e : Checked(s, e)' <=> Checked(s, e)
  BY <1>1, LessLeft DEF IInv
<1>3. \A e : TableCovers(e) => TableCovers(e)'
  BY <1>1, <1>2 DEF TableCovers
<1>4. N \in Nat /\ \A s \in Left : s \in 1 .. N
  BY SizeOK DEF IInv, Left
<1>5. CASE Populated
  <2> DEFINE c == main_chunk
             r == get_next_line(bytes, main_chunk)
  <2>1. /\ main = "populate" /\ main' = "subchunks" /\ ~ r.found /\ UNCHANGED tasks
        /\ main_chunk' = [c EXCEPT !.ptr = r.ptr] /\ chunk' = main_chunk'
    BY <1>5 DEF Populated
  <2>2. ChunkOK(c)
    BY <2>1 DEF IInv, ChunksOK, Tagging
  <2>3. GetLineOK(c, r)
    BY <1>1, <2>2, ReadChunk
  <2> HIDE DEF r, c
  <2>4. \A s \in c.ptr .. c.endptr - 1 : s \notin Left
    BY <2>1, <2>3 DEF GetLineOK, Left
  <2>5. c.ptr \in Nat /\ c.endptr \in Nat /\ main_chunk'.endptr = c.endptr
        /\ chunk'.endptr = c.endptr
    BY <2>1, <2>2 DEF ChunkOK
  <2>6. \A s \in Left : s < c.endptr => s < c.ptr
    BY <1>4, <2>4, <2>5
  <2>7. TableCovers(c.ptr) /\ \A s \in Left : s < c.ptr => Checked(s, c.ptr)
    BY <2>1 DEF Complete, c
  <2>8. TableCovers(c.endptr)
    BY <2>6, <2>7, FirstOf DEF TableCovers
  <2>9. \A s \in Left : s < c.endptr => Checked(s, c.endptr)
    BY <2>6, <2>7, FirstOf DEF Checked
  <2> QED BY <1>1, <1>2, <1>3, <2>1, <2>5, <2>8, <2>9 DEF Complete, HandedOut
<1>6. CASE AddTask
  <2> DEFINE n == get_next_chunk(chunk)
  <2>1. main = "subchunks" /\ main' = main /\ HasNextChunk(chunk) /\ chunk' = n
        /\ tasks' = tasks \cup {n} /\ UNCHANGED main_chunk
    BY <1>6 DEF AddTask
  <2>2. ChunkOK(chunk) /\ st_size = N /\ TaggedReal /\ MemoryFrom(1)
    BY <1>1, <2>1 DEF IInv, ChunksOK, RewriteOK, MemoryOK, ReadFrom
  <2>3. chunk # NoChunk
    BY <2>2, FileEnds DEF IInv, ChunkOK, NoChunk, NULL
  <2>4. ChunkOK(n) /\ n.ptr = chunk.endptr
    BY <2>1, <2>2, <2>3, NextChunkOK DEF IInv
  <2> HIDE DEF n
  <2>5. n.ptr \in Nat /\ n.endptr \in Nat
    BY <2>4 DEF ChunkOK
  <2>6. \A s \in Left : s < n.endptr => s < chunk.endptr \/ s \in n.ptr .. n.endptr - 1
    BY <1>4, <2>4, <2>5
  <2>7. TableCovers(main_chunk.endptr)
        /\ \A s \in Left : s < chunk.endptr => \/ \E t \in tasks : s \in t.ptr .. t.endptr - 1
                                               \/ Checked(s, main_chunk.endptr)
    BY <2>1 DEF Complete, HandedOut
  <2>8. \A s \in Left : s < n.endptr => \/ \E t \in tasks' : s \in t.ptr .. t.endptr - 1
                                        \/ Checked(s, main_chunk.endptr)
    BY <2>1, <2>6, <2>7
  <2>9. TableCovers(main_chunk.endptr)'
    BY <1>3, <2>1, <2>7
  <2> QED BY <1>1, <1>2, <2>1, <2>8, <2>9 DEF Complete, HandedOut
<1>7. CASE ChunkDone
  <2>1. main = "subchunks" /\ main' = "wait" /\ UNCHANGED <<main_chunk, tasks>> /\ chunk.endptr = N + 1
    <3>1. FileEnd = N + 1
      BY <1>1, <1>4 DEF FileEnd, IInv, RewriteOK
    <3> QED BY <1>7, <3>1 DEF ChunkDone, HasNextChunk
  <2> QED BY <1>1, <1>2, <1>3, <2>1 DEF Complete, HandedOut
<1>8. CASE WaitReturns
  <2>1. main = "wait" /\ main' = "next" /\ UNCHANGED main_chunk /\ tasks = {}
    BY <1>8 DEF WaitReturns, chunks
  <2>2. \A s \in Left : s < N + 1
    BY <1>4
  <2> QED BY <1>1, <1>2, <2>1, <2>2 DEF Complete, HandedOut
<1> QED BY <1>5, <1>6, <1>7, <1>8

\* A line that a task has read is tagged, or repeats none of the table.
LEMMA CleanLineComplete ==
    ASSUME IInv, Complete, NEW t \in tasks, CleanLine(t)
    PROVE  Complete'
<1> DEFINE r == get_next_line(bytes, t)
           l == r.line
           v == [t EXCEPT !.ptr = r.ptr]
<1>1. main \in {"subchunks", "wait"} /\ Tagging /\ ChunkOK(t)
  BY DEF IInv, ChunksOK, Tagging
<1>2. r.found /\ tasks' = (tasks \ {t}) \cup {v}
      /\ (IF InTable(r.str) THEN Tag(r) ELSE UNCHANGED <<bytes, tagged>>)
  BY DEF CleanLine
<1>3. UNCHANGED input /\ UNCHANGED <<main, main_chunk, chunk, hmap>>
  BY DEF CleanLine, chunks
<1>4. GetLineOK(t, r)
  BY <1>1, ReadChunk
<1> HIDE DEF r
<1>5. tagged \subseteq tagged'
  BY <1>2 DEF Tag
<1>6. /\ N' = N /\ text' = text /\ First' = First /\ Left' \subseteq Left
      /\ \A s, e : Checked(s, e)' <=> Checked(s, e)
  BY <1>3, <1>5, LessLeft DEF IInv
<1>7. v.ptr = r.ptr /\ v.endptr = t.endptr
      /\ r.ptr \in 1 .. N + 1 /\ t.ptr \in 1 .. N + 1 /\ t.endptr \in 1 .. N + 1 /\ N \in Nat
  BY <1>1, <1>4, FileEnds, SizeOK DEF ChunkOK, IInv, GetLineOK
<1>8. /\ l \in Left /\ r.str = text[l]
      /\ \A s \in t.ptr .. r.ptr - 1 : s \in Left => s = l
  <2>1. /\ l \in t.ptr .. r.ptr - 1 /\ l \notin tagged /\ text[l] # NoLine /\ r.str = text[l]
        /\ \A s \in t.ptr .. r.ptr - 1 : text[s] # NoLine => s = l \/ s \in tagged
    BY <1>2, <1>4 DEF GetLineOK
  <2>2. l \in 1 .. N
    BY <1>7, <2>1
  <2> QED BY <2>1, <2>2 DEF Left
<1>9. TableCovers(main_chunk.endptr)
      /\ \A s \in Left : s < HandedOut => \/ \E d \in tasks : s \in d.ptr .. d.endptr - 1
                                          \/ Checked(s, main_chunk.endptr)
  BY <1>1 DEF Complete
<1>10. l \in Left' => Checked(l, main_chunk.endptr)
  <2>1. CASE InTable(r.str)
    BY <1>2, <2>1 DEF Left, Tag
  <2>2. CASE ~ InTable(r.str)
    BY <1>1, <1>8, <1>9, <2>2, NotInTable
  <2> QED BY <2>1, <2>2
<1> HIDE DEF v
<1>11. \A s \in Left' : s \in t.ptr .. t.endptr - 1 =>
           s \in v.ptr .. v.endptr - 1 \/ Checked(s, main_chunk.endptr)
  <2> SUFFICES ASSUME NEW s \in Left', s \in t.ptr .. t.endptr - 1, s \notin v.ptr .. v.endptr - 1
               PROVE  Checked(s, main_chunk.endptr)
    OBVIOUS
  <2>1. s \in t.ptr .. r.ptr - 1
    BY <1>7
  <2> QED BY <1>6, <1>8, <1>10, <2>1
<1>12. \A s \in Left' : s < HandedOut => \/ \E d \in tasks' : s \in d.ptr .. d.endptr - 1
                                         \/ Checked(s, main_chunk.endptr)
  <2> SUFFICES ASSUME NEW s \in Left', s < HandedOut, ~ Checked(s, main_chunk.endptr)
               PROVE  \E d \in tasks' : s \in d.ptr .. d.endptr - 1
    OBVIOUS
  <2>1. PICK d \in tasks : s \in d.ptr .. d.endptr - 1
    BY <1>6, <1>9
  <2>2. CASE d = t
    BY <1>2, <1>11, <2>1, <2>2
  <2>3. CASE d # t
    BY <1>2, <2>1, <2>3
  <2> QED BY <2>2, <2>3
<1>13. TableCovers(main_chunk.endptr)'
  BY <1>3, <1>6, <1>9 DEF TableCovers
<1>14. HandedOut' = HandedOut
  BY <1>3, <1>6 DEF HandedOut
<1> QED BY <1>1, <1>3, <1>6, <1>12, <1>13, <1>14 DEF Complete, Tagging

\* A task that ends has left nothing unread.
LEMMA TaskDoneComplete ==
    ASSUME IInv, Complete, NEW t \in tasks, TaskDone(t)
    PROVE  Complete'
<1>1. main \in {"subchunks", "wait"} /\ Tagging /\ ChunkOK(t)
  BY DEF IInv, ChunksOK, Tagging
<1>2. ~ get_next_line(bytes, t).found /\ tasks' = tasks \ {t} /\ UNCHANGED input
      /\ UNCHANGED <<main, main_chunk, chunk, hmap, tagged>>
  BY DEF TaskDone, chunks
<1>3. \A s \in t.ptr .. t.endptr - 1 : s \notin Left
  BY <1>1, <1>2, ReadChunk DEF GetLineOK, Left
<1>4. /\ N' = N /\ text' = text /\ First' = First /\ Left' \subseteq Left
      /\ \A s, e : Checked(s, e)' <=> Checked(s, e)
  BY <1>2, LessLeft DEF IInv
<1>5. TableCovers(main_chunk.endptr)
      /\ \A s \in Left : s < HandedOut => \/ \E d \in tasks : s \in d.ptr .. d.endptr - 1
                                          \/ Checked(s, main_chunk.endptr)
  BY <1>1 DEF Complete
<1>6. \A s \in Left' : s < HandedOut => \/ \E d \in tasks' : s \in d.ptr .. d.endptr - 1
                                        \/ Checked(s, main_chunk.endptr)
  BY <1>2, <1>3, <1>4, <1>5
<1>7. TableCovers(main_chunk.endptr)' /\ HandedOut' = HandedOut
  BY <1>2, <1>4, <1>5 DEF TableCovers, HandedOut
<1> QED BY <1>1, <1>2, <1>4, <1>6, <1>7 DEF Complete, Tagging

\* When the file is rewritten everything has been checked, and nothing is
\* tagged any more.
LEMMA RewritingComplete ==
    ASSUME IInv, Complete, Rewrite \/ MoveLine \/ Rewritten
    PROVE  Complete'
<1>1. UNCHANGED <<input, tagged>> /\ ~ Tagging'
  BY DEF Rewrite, MoveLine, Rewritten, Tagging
<1>2. /\ N' = N /\ Left' \subseteq Left
      /\ \A s, e : Checked(s, e)' <=> Checked(s, e)
  BY <1>1, LessLeft DEF IInv
<1>3. \A s \in Left : Checked(s, N + 1)
  <2>1. CASE Rewrite
    <3>1. main = "next" /\ main_chunk.endptr = FileEnd /\ Tagging
      BY <2>1 DEF Rewrite, HasNextChunk, Tagging
    <3>2. FileEnd = N + 1
      BY <3>1, SizeOK DEF FileEnd, IInv, RewriteOK
    <3> QED BY <3>1, <3>2 DEF Complete
  <2>2. CASE MoveLine \/ Rewritten
    BY <2>2 DEF Complete, MoveLine, Rewritten, Tagging
  <2> QED BY <2>1, <2>2
<1> QED BY <1>1, <1>2, <1>3 DEF Complete, Tagging

\* Every step preserves it.
LEMMA NextComplete == IInv /\ Complete /\ [Next]_vars => Complete'
<1> SUFFICES ASSUME IInv, Complete, [Next]_vars PROVE Complete'
  OBVIOUS
<1>1. CASE MainStep
  BY <1>1, NextMainChunkComplete, PopulateComplete, QuietComplete, RewritingComplete DEF MainStep
<1>2. CASE TaskStep
  BY <1>2, CleanLineComplete, TaskDoneComplete DEF TaskStep
<1>3. CASE Terminated \/ UNCHANGED vars
  <2>1. UNCHANGED <<input, tagged, main, main_chunk, chunk, hmap, tasks>>
    BY <1>3 DEF Terminated, vars, chunks
  <2>2. /\ N' = N /\ text' = text /\ First' = First /\ Left' \subseteq Left
        /\ \A s, e : Checked(s, e)' <=> Checked(s, e)
    BY <2>1, LessLeft DEF IInv
  <2>3. Tagging' = Tagging /\ HandedOut' = HandedOut /\ \A e : TableCovers(e) => TableCovers(e)'
    BY <2>1, <2>2 DEF Tagging, HandedOut, TableCovers
  <2> QED BY <2>1, <2>2, <2>3 DEF Complete
<1> QED BY <1>1, <1>2, <1>3 DEF Next

\* So it is in every state.
LEMMA AllComplete == Spec => [](IInv /\ Complete)
<1> QED BY InitIInv, InitComplete, NextIInv, NextComplete, PTL DEF Spec

\* In the end the tagged lines are the duplicates, and the first ones are left.
LEMMA TaggedAll ==
    ASSUME IInv, Complete, ~ Tagging
    PROVE  /\ tagged = ReferenceDupes
           /\ \A s \in 1 .. MaxLen : s \in First <=> text[s] # NoLine /\ s \notin tagged
<1>1. N \in Nat /\ 1 <= N /\ N <= MaxLen /\ MaxLen \in Nat
  BY SizeOK DEF IInv
<1>2. \A s \in 1 .. MaxLen : text[s] # NoLine => s \in 1 .. N
  BY RealLine DEF IInv
<1>3. \A s \in Left : s \in First
  BY FirstOf DEF Complete
<1>4. \A s \in tagged : s \in 1 .. N /\ text[s] # NoLine /\ s \notin First
  BY FirstOf DEF IInv, MemoryOK, TaggedReal
<1>5. \A s \in 1 .. MaxLen : s \in First <=> text[s] # NoLine /\ s \notin tagged
  BY <1>2, <1>3, <1>4 DEF Left, First
<1>6. \A s \in 1 .. N : s \in 1 .. MaxLen
  BY <1>1
<1>7. ASSUME NEW s \in ReferenceDupes
      PROVE  s \in tagged
  <2>1. s \in 1 .. MaxLen /\ text[s] # NoLine /\ \E u \in 1 .. s - 1 : text[u] = text[s]
    BY DEF ReferenceDupes
  <2> QED BY <1>5, <2>1 DEF First
<1>8. ASSUME NEW s \in tagged
      PROVE  s \in ReferenceDupes
  BY <1>4, <1>6 DEF IInv, TaggedDupes, ReferenceDupes
<1> QED BY <1>5, <1>7, <1>8

-----------------------------------------------------------------------------
(* The result of the reference                                             *)

\* The lines up to s that the reference joins, each with its newline.
Joined ==
    LET unique(s) == text[s] # NoLine /\ s \notin ReferenceDupes
        joined[s \in 0 .. MaxLen] ==
            IF s = 0 THEN << >>
            ELSE IF unique(s) THEN joined[s - 1] \o Append(text[s], NL)
            ELSE joined[s - 1]
    IN  joined

\* They are joined one by one.
LEMMA JoinedIs ==
    ASSUME InputOK
    PROVE  /\ Joined[0] = << >>
           /\ \A s \in 1 .. MaxLen :
                  Joined[s] = IF text[s] # NoLine /\ s \notin ReferenceDupes
                              THEN Joined[s - 1] \o Append(text[s], NL) ELSE Joined[s - 1]
           /\ \A s \in 0 .. MaxLen : Joined[s] \in Seq(Byte)
<1> DEFINE unique(s) == text[s] # NoLine /\ s \notin ReferenceDupes
           step(f, s) ==
               IF s = 0 THEN << >>
               ELSE IF unique(s) THEN f[s - 1] \o Append(text[s], NL)
               ELSE f[s - 1]
           Solves(f) == f = [s \in 0 .. MaxLen |-> step(f, s)]
           Upto(n) == \E f : f = [s \in 0 .. n |-> step(f, s)]
           Wrong == {n \in 0 .. MaxLen : ~ Upto(n)}
<1>1. MaxLen \in Nat
  BY SizesAssumption
<1>2. Joined = CHOOSE f : Solves(f)
  BY DEF Joined
<1>3. Wrong = {}
  <2> SUFFICES ASSUME Wrong # {} PROVE FALSE
    OBVIOUS
  <2>1. Wrong \subseteq Nat
    <3> HIDE DEF Upto
    <3> QED BY <1>1
  <2>2. PICK n \in Wrong : \A i \in Wrong : n <= i
    <3> HIDE DEF Wrong
    <3> QED BY <2>1, LeastOf
  <2>3. n \in 0 .. MaxLen /\ ~ \E f : f = [s \in 0 .. n |-> step(f, s)]
    BY <2>2
  <2>4. CASE n = 0
    <3> DEFINE f == [s \in 0 .. 0 |-> << >>]
    <3>1. f = [s \in 0 .. 0 |-> step(f, s)]
      OBVIOUS
    <3> HIDE DEF f
    <3> QED BY <2>3, <2>4, <3>1
  <2>5. CASE n # 0
    <3>1. n - 1 \in 0 .. MaxLen /\ ~ (n <= n - 1) /\ n \in Nat
      BY <1>1, <2>3, <2>5
    <3>2. n - 1 \notin Wrong
      BY <2>2, <3>1
    <3>3. PICK f : f = [s \in 0 .. n - 1 |-> step(f, s)]
      BY <3>1, <3>2
    <3> DEFINE g == [s \in 0 .. n |-> IF s = n THEN step(f, n) ELSE f[s]]
    <3>4. \A s \in 0 .. n : s # 0 => s - 1 \in 0 .. n /\ s - 1 # n
      BY <3>1
    <3>5. \A s \in 0 .. n : s # 0 => g[s - 1] = f[s - 1]
      BY <3>4
    <3>6. \A s \in 0 .. n : step(g, s) = step(f, s)
      <4> HIDE DEF g, unique
      <4> QED BY <3>5
    <3>7. \A s \in 0 .. n : s = n \/ s \in 0 .. n - 1
      BY <3>1
    <3>8. \A s \in 0 .. n - 1 : f[s] = step(f, s)
      <4> HIDE DEF step
      <4> QED BY <3>3
    <3>9. \A s \in 0 .. n : g[s] = step(g, s)
      <4> HIDE DEF step
      <4>1. \A s \in 0 .. n : g[s] = IF s = n THEN step(f, n) ELSE f[s]
        OBVIOUS
      <4> HIDE DEF g
      <4> QED BY <3>6, <3>7, <3>8, <4>1
    <3>10. g = [s \in 0 .. n |-> step(g, s)]
      <4>1. g = [s \in 0 .. n |-> g[s]]
        OBVIOUS
      <4> HIDE DEF g, step
      <4> QED BY <3>9, <4>1
    <3> HIDE DEF g, step
    <3> QED BY <2>3, <3>10
  <2> QED BY <2>4, <2>5
<1>4. \E f : Solves(f)
  <2>1. MaxLen \in 0 .. MaxLen
    BY <1>1
  <2> HIDE DEF step
  <2> QED BY <1>3, <2>1
<1>5. Solves(Joined)
  <2> HIDE DEF Solves
  <2> QED BY <1>2, <1>4
<1>6. \A s \in 0 .. MaxLen : Joined[s] = step(Joined, s)
  <2> HIDE DEF step
  <2> QED BY <1>5
<1>7. Joined[0] = << >> /\ \A s \in 1 .. MaxLen :
          Joined[s] = IF unique(s) THEN Joined[s - 1] \o Append(text[s], NL) ELSE Joined[s - 1]
  <2>1. 0 \in 0 .. MaxLen /\ \A s \in 1 .. MaxLen : s \in 0 .. MaxLen /\ s # 0
    BY <1>1
  <2> HIDE DEF unique
  <2> QED BY <1>6, <2>1
<1> DEFINE Bad == {s \in 0 .. MaxLen : Joined[s] \notin Seq(Byte)}
<1>8. Bad = {}
  <2> SUFFICES ASSUME Bad # {} PROVE FALSE
    OBVIOUS
  <2>1. Bad \subseteq Nat
    BY <1>1
  <2>2. PICK n \in Bad : \A i \in Bad : n <= i
    <3> HIDE DEF Bad
    <3> QED BY <2>1, LeastOf
  <2>3. n \in 0 .. MaxLen /\ Joined[n] \notin Seq(Byte)
    BY <2>2
  <2>4. n # 0
    BY <1>7, <2>3, EmptySeq
  <2>5. n \in 1 .. MaxLen /\ n - 1 \in 0 .. MaxLen /\ ~ (n <= n - 1)
    BY <1>1, <2>3, <2>4
  <2>6. Joined[n - 1] \in Seq(Byte)
    BY <2>2, <2>5
  <2>7. unique(n) => Append(text[n], NL) \in Seq(Byte)
    <3>1. unique(n) => text[n] \in Seq(Byte)
      BY <2>5, RealLine
    <3>2. NL \in Byte
      BY DEF Byte
    <3> QED BY <3>1, <3>2, AppendProperties
  <2>8. unique(n) => Joined[n - 1] \o Append(text[n], NL) \in Seq(Byte)
    <3> HIDE DEF unique
    <3> QED BY <2>6, <2>7, ConcatProperties
  <2> HIDE DEF unique
  <2> QED BY <1>7, <2>3, <2>5, <2>6, <2>8
<1> QED BY <1>7, <1>8

\* Where no line is joined, nothing is added.
LEMMA JoinedStays ==
    ASSUME InputOK, NEW a \in 0 .. MaxLen, NEW b \in a .. MaxLen,
           \A s \in a + 1 .. b : text[s] = NoLine \/ s \in ReferenceDupes
    PROVE  Joined[b] = Joined[a]
<1> DEFINE Wrong == {s \in a .. b : Joined[s] # Joined[a]}
<1>1. MaxLen \in Nat /\ a \in Nat /\ b \in Nat /\ a <= b
  BY SizesAssumption
<1>2. \A s \in 1 .. MaxLen :
          Joined[s] = IF text[s] # NoLine /\ s \notin ReferenceDupes
                      THEN Joined[s - 1] \o Append(text[s], NL) ELSE Joined[s - 1]
  BY JoinedIs
<1>3. CASE Wrong = {}
  BY <1>1, <1>3
<1>4. CASE Wrong # {}
  <2>1. Wrong \subseteq Nat
    BY <1>1
  <2>2. PICK n \in Wrong : \A i \in Wrong : n <= i
    <3> HIDE DEF Wrong
    <3> QED BY <1>4, <2>1, LeastOf
  <2>3. n \in a .. b /\ Joined[n] # Joined[a]
    BY <2>2
  <2>4. n # a
    BY <2>3
  <2>5. n \in 1 .. MaxLen /\ n \in a + 1 .. b /\ n - 1 \in a .. b /\ ~ (n <= n - 1)
    BY <1>1, <2>3, <2>4
  <2>6. Joined[n - 1] = Joined[a]
    BY <2>2, <2>5
  <2>7. Joined[n] = Joined[n - 1]
    BY <1>2, <2>5
  <2> QED BY <2>3, <2>6, <2>7
<1> QED BY <1>3, <1>4

-----------------------------------------------------------------------------
(* What is written                                                         *)

\* The memory before dst holds the lines up to n that the reference joins,
\* but for the last newline if the file has no room for it.
Written(n) ==
    /\ dst - 1 = IF Len(Joined[n]) < N THEN Len(Joined[n]) ELSE N
    /\ \A i \in 1 .. dst - 1 : bytes[i] = Joined[n][i]

OutputOK ==
    /\ main = "rewrite" => Written(file_chunk.ptr - 1)
    /\ main = "done" => Written(MaxLen)

\* What the reference makes of the file does not change.
LEMMA JoinedSame ==
    ASSUME InputOK, UNCHANGED input
    PROVE  N' = N /\ text' = text /\ Joined' = Joined /\ ReferenceDupes' = ReferenceDupes
<1>1. N' = N /\ text' = text
  BY Frame DEF input
<1>2. ReferenceDupes' = ReferenceDupes
  BY <1>1 DEF ReferenceDupes
<1>3. Joined' = Joined
  BY <1>1, <1>2 DEF Joined
<1> QED BY <1>1, <1>2, <1>3

\* One more line is joined where one is moved.
LEMMA JoinedMoves ==
    ASSUME IInv, Complete, MoveLine
    PROVE  LET r == get_next_line(bytes, file_chunk)
           IN  /\ Joined[r.ptr - 1] = Joined[file_chunk.ptr - 1] \o Append(r.str, NL)
               /\ Joined[file_chunk.ptr - 1] \in Seq(Byte)
<1> DEFINE r == get_next_line(bytes, file_chunk)
           q == file_chunk.ptr
           l == r.line
<1>1. main = "rewrite" /\ ~ Tagging /\ r.found
  BY DEF MoveLine, Tagging
<1>2. /\ GetLineOK(file_chunk, r)
      /\ q \in 1 .. N + 1 /\ N \in Nat /\ N <= MaxLen /\ MaxLen \in Nat
  BY <1>1, ReadFile
<1> HIDE DEF r, q
<1>3. /\ r.ptr \in 1 .. N + 1 /\ l \in q .. r.ptr - 1
      /\ l \notin tagged /\ text[l] # NoLine /\ r.str = text[l]
      /\ \A s \in q .. r.ptr - 1 : text[s] # NoLine => s = l \/ s \in tagged
  BY <1>1, <1>2, FileEnds DEF GetLineOK, IInv, q
<1>4. tagged = ReferenceDupes
  BY <1>1, TaggedAll
<1> HIDE DEF l
<1>5. /\ q - 1 \in 0 .. MaxLen /\ l \in 1 .. MaxLen /\ l \in 0 .. MaxLen
      /\ l - 1 \in q - 1 .. MaxLen /\ r.ptr - 1 \in l .. MaxLen
      /\ \A s \in (q - 1) + 1 .. l - 1 : s \in q .. r.ptr - 1 /\ s # l
      /\ \A s \in l + 1 .. r.ptr - 1 : s \in q .. r.ptr - 1 /\ s # l
  BY <1>2, <1>3
<1>6. InputOK
  BY DEF IInv
<1>7. Joined[l - 1] = Joined[q - 1]
  BY <1>3, <1>4, <1>5, <1>6, JoinedStays
<1>8. Joined[l] = Joined[l - 1] \o Append(text[l], NL)
  BY <1>3, <1>4, <1>5, <1>6, JoinedIs
<1>9. Joined[r.ptr - 1] = Joined[l]
  BY <1>3, <1>4, <1>5, <1>6, JoinedStays
<1>10. Joined[q - 1] \in Seq(Byte)
  BY <1>5, <1>6, JoinedIs
<1> QED BY <1>3, <1>7, <1>8, <1>9, <1>10 DEF r, q

\* Nothing is written before the first line is read.
LEMMA RewriteOutput ==
    ASSUME IInv, Rewrite
    PROVE  OutputOK'
<1>1. UNCHANGED input /\ main' = "rewrite" /\ dst' = 1 /\ file_chunk'.ptr = 1
  BY DEF Rewrite
<1>2. N' = N /\ Joined' = Joined /\ N \in Nat /\ 1 <= N
  BY <1>1, JoinedSame, SizeOK DEF IInv
<1>3. Joined[0] = << >> /\ Len(<< >>) = 0
  BY JoinedIs DEF IInv
<1>4. Written(0)'
  BY <1>1, <1>2, <1>3 DEF Written
<1> QED BY <1>1, <1>4 DEF OutputOK

\* A line that is moved is the next one of the result.
LEMMA MoveLineOutput ==
    ASSUME IInv, Complete, OutputOK, MoveLine
    PROVE  OutputOK'
<1> DEFINE r == get_next_line(bytes, file_chunk)
           moved == IF dst + Len(r.str) # file_chunk.endptr THEN Append(r.str, NL) ELSE r.str
           J == Joined[file_chunk.ptr - 1]
           K == Joined[r.ptr - 1]
           line == Append(r.str, NL)
<1>1. /\ main = "rewrite" /\ main' = main /\ UNCHANGED input
      /\ file_chunk' = [file_chunk EXCEPT !.ptr = r.ptr]
      /\ MoveTo(moved)
  BY DEF MoveLine, chunks
<1>2. N' = N /\ Joined' = Joined
  BY <1>1, JoinedSame DEF IInv
<1>3. /\ file_chunk.ptr \in 1 .. N + 1 /\ file_chunk.endptr = N + 1
      /\ dst \in 1 .. file_chunk.ptr /\ N \in Nat /\ N <= MaxLen /\ MaxLen \in Nat
  BY <1>1, ReadFile
<1>4. /\ r.line \in file_chunk.ptr .. N /\ r.str = text[r.line] /\ text[r.line] # NoLine
      /\ r.ptr \in 1 .. N + 1
      /\ moved \in Seq(Byte) /\ Len(moved) \in Nat
      /\ Len(moved) = IF dst + Len(r.str) # N + 1 THEN Len(r.str) + 1 ELSE Len(r.str)
      /\ dst + Len(moved) <= r.ptr
  BY MovedFits
<1>5. K = J \o line /\ J \in Seq(Byte)
  BY JoinedMoves
<1>6. Written(file_chunk.ptr - 1)
  BY <1>1 DEF OutputOK
<1>7. /\ dst - 1 = IF Len(J) < N THEN Len(J) ELSE N
      /\ \A i \in 1 .. dst - 1 : bytes[i] = J[i]
  BY <1>6 DEF Written
<1>8. r.str \in Seq(Byte) /\ Len(r.str) \in Nat
  <2>1. r.line \in 1 .. MaxLen
    BY <1>3, <1>4
  <2>2. text[r.line] \in Seq(Byte)
    BY <1>4, <2>1, RealLine DEF IInv
  <2> QED BY <1>4, <2>2, LenProperties
<1>9. /\ line \in Seq(Byte) /\ Len(line) = Len(r.str) + 1
      /\ \A i \in 1 .. Len(r.str) : line[i] = r.str[i]
  <2>1. NL \in Byte
    BY DEF Byte
  <2> QED BY <1>8, <2>1, AppendProperties
<1>10. \A i \in 1 .. Len(moved) : moved[i] = line[i] /\ i \in 1 .. Len(line)
  <2>1. \/ moved = line
        \/ moved = r.str
    BY <1>3
  <2> HIDE DEF moved, line, r
  <2> QED BY <1>8, <1>9, <2>1
<1>11. bytes' = [i \in DOMAIN bytes |->
                   IF i \in dst .. dst + Len(moved) - 1 THEN moved[i - dst + 1] ELSE bytes[i]]
       /\ dst' = dst + Len(moved)
  BY <1>1 DEF MoveTo
<1>12. bytes \in Memory(N)
  BY DEF IInv, MemoryOK
<1>13. file_chunk'.ptr = r.ptr
  BY <1>1, <1>3 DEF IInv, RewriteOK, Tagging
<1> HIDE DEF r, moved, J, K, line
<1>14. /\ Len(J) \in Nat /\ Len(K) = Len(J) + Len(line)
       /\ \A i \in 1 .. Len(K) : K[i] = IF i <= Len(J) THEN J[i] ELSE line[i - Len(J)]
  <2>1. Len(J) \in Nat
    BY <1>5, LenProperties
  <2>2. /\ Len(J \o line) = Len(J) + Len(line)
        /\ \A i \in 1 .. Len(J) + Len(line) :
               (J \o line)[i] = IF i <= Len(J) THEN J[i] ELSE line[i - Len(J)]
    BY <1>5, <1>9, ConcatProperties
  <2> QED BY <1>5, <2>1, <2>2
<1>15. dst - 1 = Len(J)
  BY <1>3, <1>4, <1>7, <1>14
<1>16. dst' - 1 = IF Len(K) < N THEN Len(K) ELSE N
  <2> DEFINE j == Len(J)
             k == Len(r.str)
             m == Len(moved)
  <2>1. dst = j + 1 /\ dst' - 1 = j + m /\ Len(K) = j + k + 1
    BY <1>3, <1>4, <1>8, <1>9, <1>11, <1>14, <1>15
  <2>2. j \in Nat /\ k \in Nat /\ m \in Nat /\ N \in Nat
    BY <1>3, <1>4, <1>8, <1>14
  <2>3. j + 1 + m <= N + 1
    <3>1. dst + m <= r.ptr /\ r.ptr \in 1 .. N + 1
      BY <1>4
    <3> HIDE DEF j, m, N
    <3> QED BY <2>1, <2>2, <3>1
  <2>4. m = IF j + 1 + k # N + 1 THEN k + 1 ELSE k
    BY <1>4, <2>1
  <2> HIDE DEF j, k, m, N
  <2> QED BY <2>1, <2>2, <2>3, <2>4
<1>17. ASSUME NEW i \in 1 .. dst' - 1
       PROVE  bytes'[i] = K[i]
  <2>1. i \in Nat /\ 1 <= i /\ i <= Len(J) + Len(moved) /\ Len(moved) <= Len(line)
    <3>1. Len(moved) \in Nat /\ Len(moved) <= Len(line)
      BY <1>3, <1>4, <1>8, <1>9
    <3>2. PICK m \in Nat, j \in Nat : m = Len(moved) /\ j = Len(J)
      BY <1>14, <3>1
    <3>3. dst = j + 1 /\ dst' = dst + m
      BY <1>3, <1>8, <1>11, <1>15, <3>2
    <3> QED BY <3>1, <3>2, <3>3
  <2>2. i \in 1 .. N /\ i \in 1 .. Len(K)
    <3>1. dst + Len(moved) <= N + 1
      BY <1>3, <1>4
    <3>2. PICK j \in Nat, m \in Nat, k \in Nat :
              /\ j = Len(J) /\ m = Len(moved) /\ k = Len(line)
              /\ dst = j + 1 /\ Len(K) = j + k
      BY <1>3, <1>4, <1>8, <1>9, <1>14, <1>15
    <3>3. (j + 1) + m <= N + 1 /\ i <= j + m /\ m <= k
      BY <2>1, <3>1, <3>2
    <3>4. i <= N /\ i <= j + k
      BY <1>3, <2>1, <3>3
    <3> QED BY <1>3, <2>1, <3>2, <3>4
  <2>3. bytes'[i] = IF i \in dst .. dst + Len(moved) - 1 THEN moved[i - dst + 1] ELSE bytes[i]
    BY <1>11, <1>12, <2>2 DEF Memory
  <2>4. CASE i <= Len(J)
    <3>1. i \in 1 .. dst - 1 /\ i \notin dst .. dst + Len(moved) - 1
      BY <1>3, <1>4, <1>14, <1>15, <2>1, <2>4
    <3> QED BY <1>7, <1>14, <2>2, <2>3, <2>4, <3>1
  <2>5. CASE ~ (i <= Len(J))
    <3>1. i \in dst .. dst + Len(moved) - 1 /\ i - dst + 1 = i - Len(J)
          /\ i - Len(J) \in 1 .. Len(moved)
      BY <1>3, <1>4, <1>14, <1>15, <2>1, <2>5
    <3> QED BY <1>10, <1>14, <2>2, <2>3, <2>5, <3>1
  <2> QED BY <2>4, <2>5
<1>18. Written(file_chunk.ptr - 1)'
  BY <1>2, <1>13, <1>16, <1>17 DEF Written, K
<1> QED BY <1>1, <1>18 DEF OutputOK

\* Behind the last line that is read there is none that the reference joins.
LEMMA RewrittenOutput ==
    ASSUME IInv, Complete, OutputOK, Rewritten
    PROVE  OutputOK'
<1> DEFINE r == get_next_line(bytes, file_chunk)
           q == file_chunk.ptr
<1>1. main = "rewrite" /\ ~ Tagging /\ ~ r.found /\ main' = "done" /\ UNCHANGED input
      /\ UNCHANGED <<bytes, dst>>
  BY DEF Rewritten, Tagging
<1>2. N' = N /\ Joined' = Joined
  BY <1>1, JoinedSame DEF IInv
<1>3. /\ GetLineOK(file_chunk, r) /\ file_chunk.endptr = N + 1
      /\ q \in 1 .. N + 1 /\ N \in Nat /\ N <= MaxLen /\ MaxLen \in Nat
  BY <1>1, ReadFile
<1> HIDE DEF r
<1>4. \A s \in q .. N : text[s] # NoLine => s \in tagged
  <2>1. (N + 1) - 1 = N
    BY <1>3
  <2> QED BY <1>1, <1>3, <2>1 DEF GetLineOK
<1>5. tagged = ReferenceDupes
  BY <1>1, TaggedAll
<1> HIDE DEF q
<1>6. \A s \in (q - 1) + 1 .. MaxLen : text[s] = NoLine \/ s \in ReferenceDupes
  <2> SUFFICES ASSUME NEW s \in (q - 1) + 1 .. MaxLen, text[s] # NoLine
               PROVE  s \in ReferenceDupes
    OBVIOUS
  <2>1. s \in 1 .. MaxLen /\ q <= s
    BY <1>3
  <2>2. s \in 1 .. N
    BY <2>1, RealLine DEF IInv
  <2>3. s \in q .. N
    BY <1>3, <2>1, <2>2
  <2> QED BY <1>4, <1>5, <2>3
<1>7. Joined[MaxLen] = Joined[q - 1]
  <2>1. q - 1 \in 0 .. MaxLen /\ MaxLen \in q - 1 .. MaxLen
    BY <1>3
  <2> QED BY <1>6, <2>1, JoinedStays DEF IInv
<1>8. Written(q - 1)
  BY <1>1 DEF OutputOK, q
<1>9. Written(MaxLen)
  BY <1>7, <1>8 DEF Written
<1>10. Written(MaxLen)'
  BY <1>1, <1>2, <1>9 DEF Written
<1> QED BY <1>1, <1>10 DEF OutputOK

\* Every step preserves it.
LEMMA NextOutput == IInv /\ Complete /\ OutputOK /\ [Next]_vars => OutputOK'
<1> SUFFICES ASSUME IInv, Complete, OutputOK, [Next]_vars PROVE OutputOK'
  OBVIOUS
<1>1. CASE Rewrite \/ MoveLine \/ Rewritten
  BY <1>1, RewriteOutput, MoveLineOutput, RewrittenOutput
<1>2. CASE NextMainChunk \/ Populate \/ Populated \/ AddTask \/ ChunkDone \/ WaitReturns
  BY <1>2 DEF OutputOK, NextMainChunk, Populate, Populated, AddTask, ChunkDone, WaitReturns
<1>3. CASE TaskStep
  <2>1. PICK t \in tasks : CleanLine(t) \/ TaskDone(t)
    BY <1>3 DEF TaskStep
  <2>2. main' = main /\ main # "rewrite" /\ main # "done"
    BY <2>1 DEF CleanLine, TaskDone, IInv, ChunksOK
  <2> QED BY <2>2 DEF OutputOK
<1>4. CASE Terminated \/ UNCHANGED vars
  <2>1. UNCHANGED input /\ UNCHANGED <<main, bytes, dst, file_chunk>>
    BY <1>4 DEF Terminated, vars, rewriting
  <2>2. N' = N /\ Joined' = Joined
    BY <2>1, JoinedSame DEF IInv
  <2> QED BY <2>1, <2>2 DEF OutputOK, Written
<1> QED BY <1>1, <1>2, <1>3, <1>4 DEF Next, MainStep

\* What is written in the end is the reference's result, byte for byte.
LEMMA OutputIs ==
    ASSUME IInv, Complete, OutputOK, main = "done"
    PROVE  SubSeq(bytes, 1, st_size) = ReferenceResult
<1> DEFINE J == Joined[MaxLen]
<1>1. ReferenceResult = IF Len(J) > N THEN SubSeq(J, 1, N) ELSE J
  BY DEF ReferenceResult, Joined, N
<1>2. N \in Nat /\ MaxLen \in Nat
  BY SizeOK DEF IInv
<1>3. J \in Seq(Byte)
  <2>1. MaxLen \in 0 .. MaxLen
    BY <1>2
  <2> QED BY <2>1, JoinedIs DEF IInv
<1>4. Written(MaxLen)
  BY DEF OutputOK
<1> HIDE DEF J
<1>5. st_size = dst - 1
  BY DEF IInv, RewriteOK, Tagging
<1>6. bytes \in Memory(N)
  BY DEF IInv, MemoryOK
<1>7. /\ st_size = IF Len(J) < N THEN Len(J) ELSE N
      /\ \A i \in 1 .. st_size : bytes[i] = J[i]
  BY <1>4, <1>5 DEF Written, J
<1> HIDE DEF N
<1>8. Len(J) \in Nat
  BY <1>3, LenProperties
<1>9. st_size \in 0 .. N /\ st_size \in 0 .. Len(J) /\ (st_size = N \/ st_size = Len(J))
      /\ (Len(J) > N => st_size = N) /\ (~ (Len(J) > N) => st_size = Len(J))
  BY <1>2, <1>7, <1>8
<1> DEFINE R == SubSeq(bytes, 1, st_size)
<1>10. R \in Seq(Byte) /\ Len(R) = st_size /\ \A i \in 1 .. st_size : R[i] = bytes[i]
  <2>1. \A i \in 1 .. st_size : bytes[i] \in Byte
    BY <1>2, <1>6, <1>9 DEF Memory
  <2>2. /\ R \in Seq(Byte)
        /\ Len(R) = IF 1 <= st_size THEN st_size - 1 + 1 ELSE 0
        /\ \A i \in 1 .. st_size - 1 + 1 : R[i] = bytes[1 + i - 1]
    BY <1>2, <1>9, <2>1, SubSeqProperties
  <2> HIDE DEF R
  <2>3. st_size - 1 + 1 = st_size /\ (~ (1 <= st_size) => st_size = 0)
        /\ \A i \in 1 .. st_size : 1 + i - 1 = i
    BY <1>2, <1>9
  <2> QED BY <2>2, <2>3
<1> HIDE DEF R
<1>11. CASE Len(J) > N
  <2> DEFINE U == SubSeq(J, 1, N)
  <2>1. \A i \in 1 .. N : J[i] \in Byte
    BY <1>2, <1>3, <1>8, <1>11, ElementOfSeq
  <2>2. /\ U \in Seq(Byte)
        /\ Len(U) = IF 1 <= N THEN N - 1 + 1 ELSE 0
        /\ \A i \in 1 .. N - 1 + 1 : U[i] = J[1 + i - 1]
    BY <1>2, <2>1, SubSeqProperties
  <2> HIDE DEF U
  <2>3. N - 1 + 1 = N /\ (~ (1 <= N) => N = 0) /\ \A i \in 1 .. N : 1 + i - 1 = i
    BY <1>2
  <2>4. Len(U) = N /\ \A i \in 1 .. N : U[i] = J[i]
    BY <2>2, <2>3
  <2>5. U = R
    BY <1>7, <1>9, <1>10, <1>11, <2>2, <2>4, SeqEqual
  <2> QED BY <1>1, <1>11, <2>5 DEF U, R
<1>12. CASE ~ (Len(J) > N)
  <2>1. J = R
    BY <1>3, <1>7, <1>9, <1>10, <1>12, SeqEqual
  <2> QED BY <1>1, <1>12, <2>1 DEF R
<1> QED BY <1>11, <1>12

(***************************************************************************)
(* Whatever the file, its chunks and the order of the threads, duplicut    *)
(* writes byte for byte what the Python reference writes, and has tagged   *)
(* just the lines that repeat an earlier one.                              *)
(***************************************************************************)
THEOREM OutputRight == Spec => []OutputIsReference
<1>1. Init => OutputOK
  BY DEF Init, OutputOK
<1>2. IInv /\ Complete /\ OutputOK => OutputIsReference
  <2> SUFFICES ASSUME IInv, Complete, OutputOK, main = "done"
               PROVE  SubSeq(bytes, 1, st_size) = ReferenceResult /\ tagged = ReferenceDupes
    BY DEF OutputIsReference
  <2>1. ~ Tagging
    BY DEF Tagging
  <2> QED BY <2>1, OutputIs, TaggedAll
<1> QED BY <1>1, <1>2, InitIInv, InitComplete, NextIInv, NextComplete, NextOutput, PTL DEF Spec

-----------------------------------------------------------------------------
(* The promise of a wordlist                                               *)

\* A line is tagged when the table has an equal one before it.
LEMMA TagsRedundant ==
    ASSUME IInv, Tagging, NEW c, ChunkOK(c), main_chunk # NoChunk, main_chunk.ptr <= c.ptr,
           NEW r, GetLineOK(c, r), r.found, InTable(r.str)
    PROVE  r.line \in 1 .. MaxLen /\ Wordlist!Redundant(r.line)
<1>1. /\ c.ptr \in 1 .. N + 1 /\ N \in Nat /\ N <= MaxLen /\ MaxLen \in Nat
      /\ main_chunk.ptr \in Nat
  BY FileEnds, SizeOK DEF IInv, ChunksOK, ChunkOK
<1>2. /\ r.ptr \in 1 .. N + 1 /\ r.line \in c.ptr .. r.ptr - 1
      /\ r.line \notin tagged /\ text[r.line] # NoLine /\ r.str = text[r.line]
  BY FileEnds DEF GetLineOK, IInv
<1>3. PICK ln \in hmap : text[ln.addr] = r.str
  BY TableHolds
<1>4. /\ ln.addr \in 1 .. MaxLen /\ ln.size \in 1 .. MaxLen /\ ln.addr \notin tagged
      /\ ln.addr + ln.size <= main_chunk.ptr
  BY <1>3 DEF IInv, HmapOK
<1>5. r.line \in 1 .. MaxLen /\ ln.addr \in 1 .. r.line - 1
  BY <1>1, <1>2, <1>4
<1> QED BY <1>2, <1>3, <1>4, <1>5 DEF Wordlist!Redundant, Wordlist!Line

\* Each step removes a redundant line, finishes when there is none, or does
\* nothing a user could see.
LEMMA WordlistStep == IInv /\ Complete /\ [Next]_vars => [Wordlist!Next]_Wordlist!vars
<1> SUFFICES ASSUME IInv, Complete, [Next]_vars PROVE [Wordlist!Next]_Wordlist!vars
  OBVIOUS
<1>1. CASE NextMainChunk \/ Populated \/ AddTask \/ ChunkDone \/ WaitReturns \/ Rewrite \/ MoveLine
  BY <1>1
  DEF NextMainChunk, Populated, AddTask, ChunkDone, WaitReturns, Rewrite, MoveLine, input,
      Wordlist!vars
<1>2. CASE Populate
  <2> DEFINE r == get_next_line(bytes, main_chunk)
  <2>1. main = "populate" /\ main' = main /\ r.found /\ UNCHANGED input
        /\ ((InTable(r.str) /\ Tag(r)) \/ UNCHANGED tagged)
    BY <1>2 DEF Populate
  <2>2. Tagging /\ ChunkOK(main_chunk) /\ main_chunk # NoChunk
    <3>1. Tagging /\ ChunkOK(main_chunk)
      BY <2>1 DEF IInv, ChunksOK, Tagging
    <3>2. main_chunk.ptr \in 1 .. N + 1 /\ N \in Nat
      BY <3>1, FileEnds, SizeOK DEF ChunkOK, IInv
    <3> QED BY <3>1, <3>2 DEF NoChunk, NULL
  <2>3. GetLineOK(main_chunk, r)
    BY <2>2, ReadChunk
  <2>4. main_chunk.ptr <= main_chunk.ptr
    BY <2>2 DEF ChunkOK
  <2> HIDE DEF r
  <2>5. CASE InTable(r.str) /\ Tag(r)
    <3>1. r.line \in 1 .. MaxLen /\ Wordlist!Redundant(r.line)
      BY <2>1, <2>2, <2>3, <2>4, <2>5, TagsRedundant
    <3> QED BY <2>1, <2>5, <3>1 DEF Tag, input, Wordlist!Remove, Wordlist!Next, Wordlist!Line
  <2>6. CASE UNCHANGED tagged
    BY <2>1, <2>6 DEF input, Wordlist!vars
  <2> QED BY <2>1, <2>5, <2>6
<1>3. CASE TaskStep
  <2>1. PICK t \in tasks : CleanLine(t) \/ TaskDone(t)
    BY <1>3 DEF TaskStep
  <2> DEFINE r == get_next_line(bytes, t)
  <2>2. Tagging /\ main # "done" /\ ChunkOK(t) /\ main_chunk.endptr <= t.ptr
    BY DEF IInv, ChunksOK, Tagging
  <2>3. main' = main /\ UNCHANGED input
        /\ ((r.found /\ InTable(r.str) /\ Tag(r)) \/ UNCHANGED tagged)
    BY <2>1 DEF CleanLine, TaskDone
  <2>4. GetLineOK(t, r)
    BY <2>2, ReadChunk
  <2> HIDE DEF r
  <2>5. CASE r.found /\ InTable(r.str) /\ Tag(r)
    <3>1. main_chunk # NoChunk
      <4>1. PICK ln \in hmap : TRUE
        BY <2>5 DEF InTable
      <4>2. ln.addr \in 1 .. MaxLen /\ ln.size \in 1 .. MaxLen
            /\ ln.addr + ln.size <= main_chunk.ptr
        BY <2>2 DEF IInv, HmapOK
      <4>3. main_chunk.ptr # 0
        BY <4>2, SizesAssumption
      <4> QED BY <4>3 DEF NoChunk, NULL
    <3>2. ChunkOK(main_chunk)
      BY <2>2, <3>1 DEF IInv, ChunksOK
    <3>3. main_chunk.ptr <= t.ptr
      BY <2>2, <3>2 DEF ChunkOK
    <3>4. r.line \in 1 .. MaxLen /\ Wordlist!Redundant(r.line)
      BY <2>2, <2>4, <2>5, <3>1, <3>3, TagsRedundant
    <3> QED BY <2>2, <2>3, <2>5, <3>4 DEF Tag, input, Wordlist!Remove, Wordlist!Next, Wordlist!Line
  <2>6. CASE UNCHANGED tagged
    BY <2>3, <2>6 DEF input, Wordlist!vars
  <2> QED BY <2>3, <2>5, <2>6
<1>4. CASE Rewritten
  <2>1. main = "rewrite" /\ main' = "done" /\ UNCHANGED <<input, tagged>> /\ ~ Tagging
    BY <1>4 DEF Rewritten, Tagging
  <2>2. tagged = ReferenceDupes
    BY <2>1, TaggedAll
  <2>3. \A i \in 1 .. MaxLen : ~ Wordlist!Redundant(i)
    BY <2>2 DEF Wordlist!Redundant, ReferenceDupes
  <2> QED BY <2>1, <2>3 DEF input, Wordlist!Finish, Wordlist!Line, Wordlist!Next
<1>5. CASE Terminated \/ UNCHANGED vars
  BY <1>5 DEF Terminated, vars, input, Wordlist!vars
<1> QED BY <1>1, <1>2, <1>3, <1>4, <1>5 DEF Next, MainStep

(***************************************************************************)
(* Reading, cutting and rewriting the bytes keeps the promise of Wordlist: *)
(* a line is tagged only while an equal line before it is not, and the     *)
(* file is finished only when no such line is left.                        *)
(***************************************************************************)
THEOREM WordlistRefines == Spec => Wordlist!Spec
<1>1. Init => Wordlist!Init
  <2> SUFFICES ASSUME Init PROVE Wordlist!Init
    OBVIOUS
  <2>1. InputOK /\ N \in Nat /\ N <= MaxLen /\ MaxLen \in Nat
    BY InitIInv, SizeOK DEF IInv
  <2>2. text = [s \in 1 .. MaxLen |-> text[s]]
    BY <2>1 DEF InputOK, ReferenceLines
  <2>3. ASSUME NEW s \in 1 .. MaxLen, text[s] # NoLine
        PROVE  text[s] \in UNION {[1 .. n -> Byte] : n \in 1 .. MaxLen}
    <3>1. text[s] \in Seq(Byte) /\ Len(text[s]) \in 1 .. N
      BY <2>1, <2>3, RealLine
    <3>2. text[s] \in [1 .. Len(text[s]) -> Byte] /\ Len(text[s]) \in 1 .. MaxLen
      BY <2>1, <3>1, LenProperties
    <3> QED BY <3>2
  <2> DEFINE W == UNION {[1 .. n -> Byte] : n \in 1 .. MaxLen}
  <2>4. \A s \in 1 .. MaxLen : text[s] \in W \cup {NoLine}
    BY <2>3
  <2>5. text \in [1 .. MaxLen -> W \cup {NoLine}]
    <3> HIDE DEF W
    <3> QED BY <2>2, <2>4
  <2> HIDE DEF W
  <2>6. text \in [1 .. MaxLen -> (UNION {[1 .. n -> Byte] : n \in 1 .. MaxLen}) \cup {NoLine}]
    BY <2>5 DEF W
  <2> QED BY <2>6 DEF Init, Wordlist!Init, Wordlist!Line
<1> QED BY <1>1, WordlistStep, AllComplete, PTL DEF Spec, Wordlist!Spec

-----------------------------------------------------------------------------
(* The rounds                                                              *)

\* All cuts are behind the first byte and in the file, and behind a cut the
\* next one is where get_next_chunk() cuts from there.
LEMMA CutIsNext ==
    ASSUME InputOK
    PROVE  /\ Cuts \subseteq 2 .. N + 1
           /\ \A s \in (Cuts \cup {1}) \ {N + 1} :
                 /\ CutAfter(content, s, N + 1) \in Cuts /\ s < CutAfter(content, s, N + 1)
                 /\ \A c \in Cuts : c <= s \/ CutAfter(content, s, N + 1) <= c
<1> DEFINE end == N + 1
           cut(t) == CutAfter(content, t, N + 1)
<1>1. PICK cuts : /\ Cuts = cuts[1] /\ cuts[end] = {}
                  /\ \A t \in 1 .. N : cuts[t] = {cut(t)} \cup cuts[cut(t)]
  BY CutsAre
<1>2. N \in Nat /\ 1 \in 1 .. N /\ end = N + 1
  BY SizeOK
<1>3. \A t \in 1 .. N : cut(t) \in 1 .. end /\ t < cut(t)
  BY CutLater DEF Boundary
<1> HIDE DEF N, end, cut
<1>4. ASSUME NEW P, end \in P, \A t \in 1 .. N : cut(t) \in P => t \in P
      PROVE  \A t \in 1 .. end : t \in P
  <2> DEFINE Wrong == {t \in 1 .. end : t \notin P}
  <2>1. CASE Wrong = {}
    BY <2>1
  <2>2. CASE Wrong # {}
    <3>1. Wrong \subseteq 0 .. end /\ end \in Nat
      BY <1>2
    <3>2. PICK t \in Wrong : \A u \in Wrong : u <= t
      <4> HIDE DEF Wrong
      <4> QED BY <2>2, <3>1, GreatestOf
    <3>3. t \in 1 .. N /\ t \notin P
      BY <1>2, <1>4, <3>2
    <3>4. cut(t) \in Wrong /\ t < cut(t) /\ cut(t) \in 1 .. end
      BY <1>3, <1>4, <3>3
    <3>5. cut(t) <= t
      <4> HIDE DEF Wrong
      <4> QED BY <3>2, <3>4
    <3> QED BY <1>2, <3>3, <3>4, <3>5
  <2> QED BY <2>1, <2>2
<1>5. \A t \in 1 .. end : \A c \in cuts[t] : c \in 1 .. end /\ t < c
  <2> DEFINE P == {t \in 1 .. end : \A c \in cuts[t] : c \in 1 .. end /\ t < c}
  <2>1. end \in P
    BY <1>1, <1>2
  <2>2. ASSUME NEW t \in 1 .. N, cut(t) \in P
        PROVE  t \in P
    <3> SUFFICES ASSUME NEW c \in cuts[t] PROVE c \in 1 .. end /\ t < c
      BY <1>2
    <3>1. c = cut(t) \/ (c \in 1 .. end /\ cut(t) < c)
      BY <1>1, <2>2
    <3> QED BY <1>2, <1>3, <3>1
  <2> HIDE DEF P
  <2>3. \A t \in 1 .. end : t \in P
    BY <1>4, <2>1, <2>2
  <2> QED BY <2>3 DEF P
\* Each cut is behind s, or one of those that are made from s on.
<1>6. ASSUME NEW s \in cuts[1] \cup {1}
      PROVE  \A c \in cuts[1] : c <= s \/ c \in cuts[s]
  <2> DEFINE T == {t \in 1 .. end : \A c \in cuts[1] : c <= t \/ c \in cuts[t]}
             P == {t \in 1 .. end : t \in T => cuts[t] \subseteq T}
  <2>1. 1 \in T /\ end \in P
    BY <1>1, <1>2
  <2>2. ASSUME NEW t \in 1 .. N, cut(t) \in P
        PROVE  t \in P
    <3> SUFFICES ASSUME t \in T, NEW c \in cuts[t] PROVE c \in T
      BY <1>2
    <3>1. cut(t) \in T
      <4> SUFFICES ASSUME NEW d \in cuts[1] PROVE d <= cut(t) \/ d \in cuts[cut(t)]
        BY <1>3
      <4>1. d <= t \/ d = cut(t) \/ d \in cuts[cut(t)]
        BY <1>1
      <4>2. d \in 1 .. end
        BY <1>2, <1>5
      <4> QED BY <1>2, <1>3, <4>1, <4>2
    <3> QED BY <1>1, <2>2, <3>1
  <2> HIDE DEF P
  <2>3. \A t \in 1 .. end : t \in P
    BY <1>4, <2>1, <2>2
  <2>4. cuts[1] \subseteq T
    BY <1>2, <2>1, <2>3 DEF P
  <2> QED BY <2>1, <2>4
<1>7. Cuts \subseteq 2 .. end
  <2> SUFFICES ASSUME NEW c \in cuts[1] PROVE c \in 2 .. end
    BY <1>1
  <2>1. c \in 1 .. end /\ 1 < c
    BY <1>2, <1>5
  <2> QED BY <1>2, <2>1
<1>8. ASSUME NEW s \in (Cuts \cup {1}) \ {end}
      PROVE  cut(s) \in Cuts /\ s < cut(s) /\ \A c \in Cuts : c <= s \/ cut(s) <= c
  <2>1. s \in 1 .. N
    BY <1>2, <1>7
  <2>2. cut(s) \in Cuts
    BY <2>1, CutsClosed DEF cut
  <2>3. ASSUME NEW c \in Cuts, ~ c <= s
        PROVE  cut(s) <= c
    <3>1. c = cut(s) \/ c \in cuts[cut(s)]
      BY <1>1, <1>6, <2>1, <2>3
    <3>2. cut(s) \in 1 .. end
      BY <1>3, <2>1
    <3>3. c \in cuts[cut(s)] => c \in 1 .. end /\ cut(s) < c
      BY <1>5, <3>2
    <3> QED BY <1>2, <3>1, <3>2, <3>3
  <2> QED BY <1>3, <2>1, <2>2, <2>3
<1> QED BY <1>7, <1>8 DEF end, cut

\* The numbers of the chunks: the n-th cut has the number n.
Num(e) == Cardinality({cut \in Cuts : cut <= e})

LEMMA NumIs ==
    ASSUME InputOK
    PROVE  /\ NumChunks \in Nat /\ Num(0) = 0 /\ Num(N + 1) = NumChunks
           /\ \A e : Num(e) \in 0 .. NumChunks
           /\ \A c \in Cuts : Num(c) \in 1 .. NumChunks
           /\ \A c, d \in Cuts : c < d => Num(c) < Num(d)
           /\ \A c, d \in Cuts : c <= d => Num(c) <= Num(d)
           /\ \A c, d \in Cuts : Num(c) = Num(d) => c = d
<1> DEFINE S(e) == {cut \in Cuts : cut <= e}
<1>1. Cuts \subseteq 2 .. N + 1 /\ N \in Nat
  BY CutIsNext, SizeOK
<1> HIDE DEF N
<1>2. IsFiniteSet(Cuts) /\ NumChunks \in Nat
  <2>1. IsFiniteSet(2 .. N + 1)
    BY <1>1, FS_Interval
  <2> QED BY <1>1, <2>1, FS_Subset, FS_CardinalityType DEF NumChunks
<1>3. \A e : IsFiniteSet(S(e)) /\ Num(e) \in Nat /\ Num(e) <= NumChunks
  <2> TAKE e
  <2>1. S(e) \subseteq Cuts
    OBVIOUS
  <2> HIDE DEF S
  <2>2. IsFiniteSet(S(e)) /\ Cardinality(S(e)) <= Cardinality(Cuts) /\ Cardinality(S(e)) \in Nat
    BY <1>2, <2>1, FS_Subset, FS_CardinalityType
  <2> QED BY <2>2 DEF Num, NumChunks, S
<1>0. \A c \in Cuts : c \in Nat /\ 0 < c /\ c <= N + 1 /\ ~ c <= 0
  BY <1>1
<1>4. Num(0) = 0
  <2>1. S(0) = {}
    BY <1>0
  <2> QED BY <2>1, FS_EmptySet DEF Num
<1>5. Num(N + 1) = NumChunks
  <2>1. S(N + 1) = Cuts
    BY <1>0
  <2> QED BY <2>1 DEF Num, NumChunks
<1>11. \A e : Num(e) \in 0 .. NumChunks
  <2> TAKE e
  <2>1. Num(e) \in Nat /\ Num(e) <= NumChunks
    BY <1>3
  <2> QED BY <1>2, <2>1
<1>6. ASSUME NEW c \in Cuts, NEW d, d \in Cuts \cup {0}, d < c
      PROVE  Num(d) < Num(c)
  <2>0. c \in Nat /\ d \in Nat
    BY <1>0, <1>6
  <2>1. S(d) \subseteq S(c) /\ c \in S(c) /\ c \notin S(d)
    <3>1. \A u \in Cuts : u <= d => u <= c
      BY <1>0, <1>6, <2>0
    <3>2. c <= c /\ ~ c <= d
      BY <1>6, <2>0
    <3> QED BY <3>1, <3>2
  <2>2. IsFiniteSet(S(c))
    BY <1>3
  <2> HIDE DEF S
  <2>3. S(d) # S(c)
    BY <2>1
  <2>4. IsFiniteSet(S(d)) /\ Cardinality(S(d)) <= Cardinality(S(c))
        /\ (Cardinality(S(d)) = Cardinality(S(c)) => S(d) = S(c))
    BY <2>1, <2>2, FS_Subset
  <2>5. Num(c) \in Nat /\ Num(d) \in Nat
    BY <1>11, <1>2
  <2>6. Num(c) = Cardinality(S(c)) /\ Num(d) = Cardinality(S(d))
    BY DEF Num, S
  <2> QED BY <2>3, <2>4, <2>5, <2>6
<1>7. \A c \in Cuts : Num(c) \in 1 .. NumChunks
  <2> TAKE c \in Cuts
  <2>1. Num(0) < Num(c)
    BY <1>0, <1>6
  <2>2. Num(c) \in 0 .. NumChunks
    BY <1>11
  <2> QED BY <1>2, <1>4, <2>1, <2>2
<1>8. \A c, d \in Cuts : c < d \/ c = d \/ d < c
  BY <1>1
<1> HIDE DEF S
<1>9. \A c, d \in Cuts : Num(c) = Num(d) => c = d
  <2> SUFFICES ASSUME NEW c \in Cuts, NEW d \in Cuts, Num(c) = Num(d) PROVE c = d
    OBVIOUS
  <2>1. c < d => Num(c) < Num(d)
    BY <1>6
  <2>2. d < c => Num(d) < Num(c)
    BY <1>6
  <2>3. Num(c) \in Nat /\ Num(d) \in Nat
    BY <1>2, <1>11
  <2> QED BY <1>8, <2>1, <2>2, <2>3
<1>10. \A c, d \in Cuts : c <= d => Num(c) <= Num(d)
  <2> SUFFICES ASSUME NEW c \in Cuts, NEW d \in Cuts, c <= d PROVE Num(c) <= Num(d)
    OBVIOUS
  <2>1. c < d \/ c = d
    BY <1>0
  <2>2. c < d => Num(c) < Num(d)
    BY <1>6
  <2>3. Num(c) \in Nat /\ Num(d) \in Nat
    BY <1>2, <1>11
  <2> QED BY <2>1, <2>2, <2>3
<1> QED BY <1>2, <1>4, <1>5, <1>6, <1>7, <1>9, <1>10, <1>11

\* get_next_chunk() goes from each chunk to the next.
LEMMA NextNumber ==
    ASSUME InputOK, TaggedReal, MemoryFrom(1), st_size = N, NEW c,
           c = NoChunk \/ ChunkOK(c), HasNextChunk(c)
    PROVE  /\ NumberOf(get_next_chunk(c)) = NumberOf(c) + 1
           /\ get_next_chunk(c).endptr \in Cuts
           /\ c.endptr < get_next_chunk(c).endptr
<1> DEFINE start == IF c.ptr = NULL THEN 1 ELSE c.endptr
           e == CutAfter(content, start, N + 1)
<1>1. FileEnd = N + 1 /\ N \in Nat
  BY SizeOK DEF FileEnd
<1>2. start \in (Cuts \cup {1}) \ {N + 1} /\ start \in 1 .. N
      /\ start = (IF c = NoChunk THEN 1 ELSE c.endptr)
  <2>1. CASE c = NoChunk
    BY <2>1, SizeOK DEF NoChunk
  <2>2. CASE c # NoChunk
    <3>1. ChunkOK(c) /\ c.ptr \in 1 .. N + 1 /\ c.endptr \in 1 .. N + 1 /\ c.endptr # N + 1
      BY <1>1, <2>2, FileEnds DEF ChunkOK, HasNextChunk
    <3>2. c.ptr # NULL
      BY <3>1, SizeOK DEF NULL
    <3> QED BY <2>2, <3>1, <3>2, SizeOK DEF ChunkOK
  <2> QED BY <2>1, <2>2
<1>3. get_next_chunk(c).endptr = e
  BY <1>1, <1>2, CutStays DEF get_next_chunk
<1> HIDE DEF start
<1>4. e \in Cuts /\ start < e /\ \A d \in Cuts : d <= start \/ e <= d
  BY <1>2, CutIsNext
<1>5. Cuts \subseteq 2 .. N + 1
  BY CutIsNext
<1> HIDE DEF e, N
<1>6. c.endptr < e /\ c.endptr \in 0 .. N /\ \A d \in Cuts : d <= start <=> d <= c.endptr
  <2>1. CASE c = NoChunk
    BY <1>1, <1>2, <1>4, <1>5, <2>1 DEF NoChunk, NULL
  <2>2. CASE c # NoChunk
    BY <1>2, <1>4, <2>2
  <2> QED BY <2>1, <2>2
<1> DEFINE S(x) == {cut \in Cuts : cut <= x}
<1>7. S(e) = S(c.endptr) \cup {e} /\ e \notin S(c.endptr)
  <2>1. \A d \in Cuts : d \in Nat
    BY <1>1, <1>5
  <2>2. \A d \in Cuts : d <= c.endptr \/ e <= d
    BY <1>4, <1>6
  <2>3. ~ e <= c.endptr /\ e <= e /\ e \in Nat /\ c.endptr \in Nat
    BY <1>1, <1>4, <1>6, <2>1
  <2>4. \A d \in Cuts : d <= e <=> d <= c.endptr \/ d = e
    BY <1>6, <2>1, <2>2, <2>3
  <2> QED BY <1>4, <2>3, <2>4
<1>8. IsFiniteSet(S(c.endptr))
  <2>1. S(c.endptr) \subseteq 2 .. N + 1
    BY <1>5
  <2>2. IsFiniteSet(2 .. N + 1)
    BY <1>1, FS_Interval
  <2> HIDE DEF S
  <2> QED BY <2>1, <2>2, FS_Subset
<1> HIDE DEF S
<1>9. Cardinality(S(e)) = Cardinality(S(c.endptr)) + 1
  BY <1>7, <1>8, FS_AddElement
<1> QED BY <1>3, <1>4, <1>6, <1>9 DEF NumberOf, S

\* The tasks are for different chunks behind the one of the table, which were
\* handed out in order.
TasksApart ==
    /\ \A t, u \in tasks : t.endptr = u.endptr => t = u
    /\ \A t \in tasks : main_chunk.endptr < t.endptr
    /\ main = "subchunks" => \A t \in tasks : t.endptr <= chunk.endptr

LEMMA ApartStep ==
    ASSUME IInv, TasksApart, [Next]_vars
    PROVE  TasksApart'
<1>1. CASE tasks' = {}
  BY <1>1 DEF TasksApart
<1>2. CASE NextMainChunk \/ Populate \/ Populated \/ WaitReturns \/ Rewrite \/ MoveLine \/ Rewritten
  <2>1. tasks' = {}
    BY <1>2
    DEF IInv, ChunksOK, NextMainChunk, Populate, Populated, WaitReturns, Rewrite, MoveLine,
        Rewritten
  <2> QED BY <1>1, <2>1
<1>3. CASE AddTask
  <2> DEFINE n == get_next_chunk(chunk)
  <2>1. /\ main = "subchunks" /\ HasNextChunk(chunk) /\ chunk' = n /\ tasks' = tasks \cup {n}
        /\ main_chunk' = main_chunk
    BY <1>3 DEF AddTask
  <2>2. ChunkOK(chunk) /\ main_chunk.endptr <= chunk.endptr /\ ChunkOK(main_chunk)
    BY <2>1 DEF IInv, ChunksOK, Tagging
  <2>3. ChunkOK(n) /\ chunk.endptr < n.endptr
    <3>1. TaggedReal /\ MemoryFrom(1) /\ st_size = N /\ InputOK
      BY <2>1 DEF IInv, MemoryOK, RewriteOK, ReadFrom, Tagging
    <3> QED BY <2>1, <2>2, <3>1, NextChunkOK, NextNumber
  <2> HIDE DEF n
  <2>4. \A t \in tasks : ChunkOK(t) /\ t.endptr <= chunk.endptr
    BY <2>1 DEF TasksApart, IInv, ChunksOK
  <2>5. /\ n.endptr \in Nat /\ chunk.endptr \in Nat /\ main_chunk.endptr \in Nat
        /\ \A t \in tasks : t.endptr \in Nat
    BY <2>2, <2>3, <2>4 DEF ChunkOK
  <2>6. \A t \in tasks : t.endptr < n.endptr /\ main_chunk.endptr < t.endptr
    BY <2>3, <2>4, <2>5 DEF TasksApart
  <2>7. main_chunk.endptr < n.endptr /\ n.endptr <= n.endptr /\ ~ n.endptr < n.endptr
    BY <2>2, <2>3, <2>5
  <2>8. \A t \in tasks : t.endptr <= n.endptr
    BY <2>5, <2>6
  <2> QED BY <2>1, <2>6, <2>7, <2>8 DEF TasksApart
<1>4. CASE ChunkDone
  BY <1>4 DEF ChunkDone, TasksApart
<1>5. ASSUME NEW t \in tasks, CleanLine(t)
      PROVE  TasksApart'
  <2> DEFINE u == [t EXCEPT !.ptr = get_next_line(bytes, t).ptr]
  <2>1. tasks' = (tasks \ {t}) \cup {u} /\ UNCHANGED <<main, chunk, main_chunk>>
    BY <1>5 DEF CleanLine, chunks
  <2>2. u.endptr = t.endptr
    BY DEF IInv, ChunksOK, ChunkOK
  <2> HIDE DEF u
  <2> QED BY <2>1, <2>2 DEF TasksApart
<1>6. ASSUME NEW t \in tasks, TaskDone(t)
      PROVE  TasksApart'
  BY <1>6 DEF TaskDone, TasksApart, chunks
<1>7. CASE Terminated \/ UNCHANGED vars
  BY <1>7 DEF Terminated, vars, chunks, TasksApart
<1> QED BY <1>2, <1>3, <1>4, <1>5, <1>6, <1>7 DEF Next, MainStep, TaskStep

\* The numbers of the chunks that tasks are reading, and of those that are
\* through in this round.
OpenNumbers == {NumberOf(t) : t \in tasks}

Ready ==
    {k \in 1 .. NumChunks :
        /\ main # "populate" /\ k \notin OpenNumbers
        /\ main = "subchunks" => k <= NumberOf(chunk)}

\* The chunk of the round is the one with its number, and tasks have chunks
\* behind it.
Numbered ==
    /\ NumChunks \in Nat /\ RoundNo \in 0 .. NumChunks
    /\ main \notin {"next", "rewrite", "done"} => RoundNo \in 1 .. NumChunks
    /\ PairsDone = {p \in Rounds!Pairs :
                       p[1] < RoundNo \/ (p[1] = RoundNo /\ p[2] \in Ready)}
    /\ \A k \in OpenNumbers : k \in 1 .. NumChunks /\ RoundNo < k
    /\ main \in {"subchunks", "wait"} => RoundNo \in Ready
    /\ tasks = {} => OpenNumbers = {}
    /\ main \in {"next", "rewrite", "done"} => tasks = {} /\ Ready = 1 .. NumChunks

LEMMA PairsAre == IInv /\ TasksApart => Numbered
<1> SUFFICES ASSUME IInv, TasksApart PROVE Numbered
  OBVIOUS
<1>1. InputOK
  BY DEF IInv
<1>2. NumChunks \in Nat /\ \A c : NumberOf(c) = Num(c.endptr)
  BY <1>1, NumIs DEF NumberOf, Num
<1>3. RoundNo \in 0 .. NumChunks
  BY <1>1, <1>2, NumIs DEF RoundNo
<1>4. ASSUME main \notin {"next", "rewrite", "done"}
      PROVE  /\ RoundNo \in 1 .. NumChunks /\ ChunkOK(main_chunk)
             /\ RoundNo = Num(main_chunk.endptr)
  <2>1. ChunkOK(main_chunk)
    BY <1>4 DEF IInv, ChunksOK, Tagging
  <2> QED BY <1>1, <1>2, <1>4, <2>1, NumIs DEF RoundNo, ChunkOK
<1>5. ASSUME NEW t \in tasks
      PROVE  NumberOf(t) \in 1 .. NumChunks /\ RoundNo < NumberOf(t)
  <2>1. main \in {"subchunks", "wait"} /\ ChunkOK(t) /\ main_chunk.endptr < t.endptr
    BY DEF IInv, ChunksOK, TasksApart
  <2>2. t.endptr \in Cuts /\ main_chunk.endptr \in Cuts
    BY <1>4, <2>1 DEF ChunkOK
  <2> QED BY <1>1, <1>2, <1>4, <2>1, <2>2, NumIs
<1>6. \A k \in OpenNumbers : k \in 1 .. NumChunks /\ RoundNo < k
  BY <1>5 DEF OpenNumbers
<1>7. ASSUME main \in {"subchunks", "wait"}
      PROVE  RoundNo \in Ready
  <2>1. RoundNo \notin OpenNumbers
    BY <1>2, <1>3, <1>6
  <2>2. ASSUME main = "subchunks"
        PROVE  RoundNo <= NumberOf(chunk)
    <3>1. ChunkOK(chunk) /\ main_chunk.endptr <= chunk.endptr
      BY <2>2 DEF IInv, ChunksOK
    <3> QED BY <1>1, <1>2, <1>4, <2>2, <3>1, NumIs DEF ChunkOK
  <2> QED BY <1>4, <1>7, <2>1, <2>2 DEF Ready
<1>8. main \in {"next", "rewrite", "done"} => tasks = {}
  BY DEF IInv, ChunksOK
<1>9. tasks = {} => OpenNumbers = {}
  BY DEF OpenNumbers
<1>10. main \in {"next", "rewrite", "done"} => Ready = 1 .. NumChunks
  BY <1>8, <1>9 DEF Ready
<1>11. \A p \in Rounds!Pairs :
          p \in PairsDone <=> p[1] < RoundNo \/ (p[1] = RoundNo /\ p[2] \in Ready)
  <2> SUFFICES ASSUME NEW p \in Rounds!Pairs
               PROVE  p \in PairsDone <=> p[1] < RoundNo \/ (p[1] = RoundNo /\ p[2] \in Ready)
    OBVIOUS
  <2>1. p \in (1 .. NumChunks) \X (1 .. NumChunks) /\ p[1] <= p[2] /\ p[2] \in 1 .. NumChunks
    BY DEF Rounds!Pairs
  <2>2. p[2] \notin OpenNumbers <=> \A t \in tasks : NumberOf(t) # p[2]
    BY DEF OpenNumbers
  <2> QED BY <2>1, <2>2 DEF PairsDone, Ready
<1>12. PairsDone \subseteq Rounds!Pairs
  BY DEF PairsDone, Rounds!Pairs
<1>13. PairsDone = {p \in Rounds!Pairs : p[1] < RoundNo \/ (p[1] = RoundNo /\ p[2] \in Ready)}
  BY <1>11, <1>12
<1> QED BY <1>2, <1>3, <1>4, <1>6, <1>7, <1>8, <1>9, <1>10, <1>13 DEF Numbered

LEMMA RoundsStep ==
    ASSUME IInv, TasksApart, Numbered, Numbered', [Next]_vars
    PROVE  [Rounds!Next]_Rounds!vars
<1>1. InputOK
  BY DEF IInv
<1>2. CASE UNCHANGED vars
  BY <1>2
  DEF vars, input, chunks, Rounds!vars, NumChunks, Cuts, RoundNo, NumberOf, PairsDone
<1> SUFFICES ASSUME Next PROVE [Rounds!Next]_Rounds!vars
  BY <1>2
<1>3. Cuts' = Cuts /\ UNCHANGED input /\ NumChunks' = NumChunks /\ Rounds!Pairs' = Rounds!Pairs
  <2>1. UNCHANGED input
    BY DEF Next, MainStep, TaskStep, NextMainChunk, Populate, Populated, AddTask, ChunkDone,
           WaitReturns, CleanLine, TaskDone, Rewrite, MoveLine, Rewritten, Terminated, vars
  <2> QED BY <1>1, <2>1, Frame DEF NumChunks, Rounds!Pairs
<1> DEFINE over == main \in {"rewrite", "done"}
\* What the refinement mapping reads, before the step and after it.
<1>4. /\ RoundNo = IF over THEN NumChunks ELSE Num(main_chunk.endptr)
      /\ RoundNo' = IF over' THEN NumChunks ELSE Num(main_chunk'.endptr)
      /\ OpenNumbers = {Num(t.endptr) : t \in tasks}
      /\ OpenNumbers' = {Num(t.endptr) : t \in tasks'}
      /\ NumberOf(chunk) = Num(chunk.endptr) /\ NumberOf(chunk)' = Num(chunk'.endptr)
  BY <1>3 DEF RoundNo, OpenNumbers, NumberOf, Num
<1>5. /\ NumChunks \in Nat /\ RoundNo \in 0 .. NumChunks
      /\ PairsDone = {p \in Rounds!Pairs :
                         p[1] < RoundNo \/ (p[1] = RoundNo /\ p[2] \in Ready)}
      /\ PairsDone' = {p \in Rounds!Pairs :
                          p[1] < RoundNo' \/ (p[1] = RoundNo' /\ p[2] \in Ready')}
  BY <1>3 DEF Numbered
<1>6. \A p \in Rounds!Pairs :
         p[1] \in 1 .. NumChunks /\ p[2] \in 1 .. NumChunks /\ p[1] <= p[2]
  BY DEF Rounds!Pairs
<1>7. ASSUME RoundNo' = RoundNo, Ready' = Ready, over' <=> over
      PROVE  UNCHANGED Rounds!vars
  BY <1>3, <1>5, <1>7 DEF Rounds!vars
\* One more chunk is through in this round: the pair is checked.
<1>8. ASSUME NEW k \in Ready', Ready' = Ready \cup {k}, k \notin Ready, RoundNo' = RoundNo,
             RoundNo \in 1 .. NumChunks, RoundNo <= k, k # RoundNo => RoundNo \in Ready,
             over' <=> over
      PROVE  Rounds!Next
  <2> DEFINE p == <<RoundNo, k>>
  <2>1. k \in 1 .. NumChunks
    BY <1>3, <1>8 DEF Ready
  <2>2. p \in Rounds!Pairs /\ p[1] = RoundNo /\ p[2] = k
    BY <1>8, <2>1 DEF Rounds!Pairs
  <2>3. p \notin PairsDone
    BY <1>5, <1>8, <2>2
  <2>4. \A q \in Rounds!Pairs : q[1] = RoundNo /\ q[2] = k => q = p
    BY DEF Rounds!Pairs
  <2> HIDE DEF p
  <2>5. PairsDone' = PairsDone \cup {p}
    BY <1>5, <1>8, <2>2, <2>4
  <2>6. k # RoundNo => <<RoundNo, RoundNo>> \in PairsDone
    BY <1>5, <1>8 DEF Rounds!Pairs
  <2>7. Rounds!Check(p)
    BY <1>3, <1>8, <2>2, <2>3, <2>5, <2>6 DEF Rounds!Check
  <2> QED BY <2>2, <2>7 DEF Rounds!Next
<1> HIDE DEF over
<1>9. CASE NextMainChunk
  <2>1. /\ main = "next" /\ main' = "populate" /\ HasNextChunk(main_chunk)
        /\ main_chunk' = get_next_chunk(main_chunk)
    BY <1>9 DEF NextMainChunk
  <2>2. ~ over /\ ~ over' /\ tasks = {} /\ Ready = 1 .. NumChunks /\ Ready' = {}
    BY <2>1 DEF over, Ready, Numbered
  <2>3. RoundNo' = RoundNo + 1 /\ RoundNo' \in 1 .. NumChunks
    <3>1. TaggedReal /\ MemoryFrom(1) /\ st_size = N /\ (main_chunk = NoChunk \/ ChunkOK(main_chunk))
      BY <2>1 DEF IInv, MemoryOK, RewriteOK, ReadFrom, Tagging, ChunksOK
    <3>2. NumberOf(get_next_chunk(main_chunk)) = NumberOf(main_chunk) + 1
      BY <1>1, <2>1, <3>1, NextNumber
    <3>3. RoundNo' = RoundNo + 1
      BY <1>4, <2>1, <2>2, <3>2 DEF NumberOf, Num
    <3>4. RoundNo' \in 0 .. NumChunks'
      BY DEF Numbered
    <3> QED BY <1>3, <1>5, <3>3, <3>4
  <2>4. \A p \in Rounds!Pairs : p[1] <= RoundNo => p \in PairsDone
    BY <1>5, <1>6, <2>2
  <2>5. PairsDone' = PairsDone
    <3>1. \A p \in Rounds!Pairs : p[1] < RoundNo' <=> p[1] <= RoundNo
      BY <1>5, <1>6, <2>3
    <3> QED BY <1>5, <1>6, <2>2, <2>4, <3>1
  <2>6. Rounds!NextRound
    BY <1>3, <1>5, <2>2, <2>3, <2>4, <2>5 DEF Rounds!NextRound, over
  <2> QED BY <2>6 DEF Rounds!Next
<1>10. CASE Populate
  <2>1. /\ main = "populate" /\ main' = "populate"
        /\ main_chunk' = [main_chunk EXCEPT !.ptr = get_next_line(bytes, main_chunk).ptr]
    BY <1>10 DEF Populate
  <2>2. main_chunk'.endptr = main_chunk.endptr
    BY <2>1 DEF IInv, ChunksOK, ChunkOK, Tagging
  <2>3. Ready = {} /\ Ready' = {} /\ ~ over /\ ~ over'
    BY <2>1 DEF Ready, over
  <2> QED BY <1>4, <1>7, <2>2, <2>3
<1>11. CASE Populated
  <2>1. /\ main = "populate" /\ main' = "subchunks" /\ UNCHANGED tasks /\ tasks = {}
        /\ main_chunk' = [main_chunk EXCEPT !.ptr = get_next_line(bytes, main_chunk).ptr]
        /\ chunk' = main_chunk'
    BY <1>11 DEF Populated, IInv, ChunksOK
  <2>2. main_chunk'.endptr = main_chunk.endptr
    BY <2>1 DEF IInv, ChunksOK, ChunkOK, Tagging
  <2>3. ~ over /\ ~ over' /\ RoundNo \in 1 .. NumChunks /\ RoundNo' = RoundNo
        /\ NumberOf(chunk)' = RoundNo
    BY <1>4, <2>1, <2>2 DEF over, Numbered
  <2>4. Ready = {} /\ OpenNumbers' = {} /\ Ready' = {k \in 1 .. NumChunks : k <= RoundNo}
    BY <1>3, <1>4, <2>1, <2>3 DEF Ready
  \* Of the pairs of this round the smaller numbers are none.
  <2>5. PairsDone' = {p \in Rounds!Pairs : p[1] < RoundNo \/ p = <<RoundNo, RoundNo>>}
    <3>1. ASSUME NEW p \in Rounds!Pairs, p[1] = RoundNo
          PROVE  p[2] \in Ready' <=> p = <<RoundNo, RoundNo>>
      <4>1. p = <<p[1], p[2]>>
        BY DEF Rounds!Pairs
      <4>2. p[2] <= RoundNo <=> p[2] = RoundNo
        BY <1>5, <1>6, <3>1
      <4>3. p[2] \in Ready' <=> p[2] <= RoundNo
        BY <1>6, <2>4
      <4> QED BY <3>1, <4>1, <4>2, <4>3
    <3>2. <<RoundNo, RoundNo>>[1] = RoundNo
      OBVIOUS
    <3> QED BY <1>5, <2>3, <3>1, <3>2
  <2> DEFINE p == <<RoundNo, RoundNo>>
  <2>6. p \in Rounds!Pairs /\ p[1] = RoundNo /\ p[2] = RoundNo /\ ~ p[1] < RoundNo
    BY <1>5, <2>3 DEF Rounds!Pairs
  <2>7. PairsDone = {q \in Rounds!Pairs : q[1] < RoundNo}
    BY <1>5, <2>4
  <2> HIDE DEF p
  <2>8. p \notin PairsDone /\ PairsDone' = PairsDone \cup {p}
    BY <2>5, <2>6, <2>7 DEF p
  <2>9. Rounds!Check(p)
    BY <1>3, <2>3, <2>6, <2>8 DEF Rounds!Check, over
  <2> QED BY <2>6, <2>9 DEF Rounds!Next
<1>12. CASE AddTask
  <2> DEFINE n == get_next_chunk(chunk)
  <2>1. /\ main = "subchunks" /\ main' = "subchunks" /\ HasNextChunk(chunk) /\ chunk' = n
        /\ tasks' = tasks \cup {n} /\ main_chunk' = main_chunk
    BY <1>12 DEF AddTask
  <2>2. ChunkOK(chunk) /\ TaggedReal /\ MemoryFrom(1) /\ st_size = N
    BY <2>1 DEF IInv, ChunksOK, MemoryOK, RewriteOK, ReadFrom, Tagging
  <2>3. Num(n.endptr) = Num(chunk.endptr) + 1
    BY <1>1, <2>1, <2>2, NextNumber DEF NumberOf, Num
  <2>4. Num(chunk.endptr) \in Nat
    BY <1>1, <1>5, NumIs
  <2> HIDE DEF n
  <2>5. OpenNumbers' = OpenNumbers \cup {Num(n.endptr)}
    BY <1>4, <2>1
  <2>6. /\ Ready = {k \in 1 .. NumChunks : k \notin OpenNumbers /\ k <= Num(chunk.endptr)}
        /\ Ready' = {k \in 1 .. NumChunks : k \notin OpenNumbers' /\ k <= Num(n.endptr)}
    BY <1>3, <1>4, <2>1 DEF Ready
  <2>7. Ready' = Ready
    <3>1. \A k \in 1 .. NumChunks :
             k <= Num(n.endptr) /\ k # Num(n.endptr) <=> k <= Num(chunk.endptr)
      BY <1>5, <2>3, <2>4
    <3> QED BY <2>5, <2>6, <3>1
  <2> QED BY <1>4, <1>7, <2>1, <2>7 DEF over
<1>13. CASE ChunkDone
  <2>1. /\ main = "subchunks" /\ main' = "wait" /\ UNCHANGED <<tasks, main_chunk>>
        /\ ~ HasNextChunk(chunk)
    BY <1>13 DEF ChunkDone
  <2>2. chunk.endptr = N + 1
    <3>1. st_size = N /\ N \in Nat
      BY <1>1, <2>1, SizeOK DEF IInv, RewriteOK, Tagging
    <3> QED BY <2>1, <3>1 DEF HasNextChunk, FileEnd
  <2>3. Num(chunk.endptr) = NumChunks
    BY <1>1, <2>2, NumIs
  <2>4. OpenNumbers' = OpenNumbers
    BY <1>4, <2>1
  <2>5. Ready' = Ready
    BY <1>3, <1>4, <1>5, <2>1, <2>3, <2>4 DEF Ready
  <2> QED BY <1>4, <1>7, <2>1, <2>5 DEF over
<1>14. CASE WaitReturns
  <2>1. /\ main = "wait" /\ main' = "next" /\ UNCHANGED <<tasks, main_chunk>>
    BY <1>14 DEF WaitReturns, chunks
  <2>2. OpenNumbers' = OpenNumbers
    BY <1>4, <2>1
  <2>3. Ready' = Ready
    BY <1>3, <2>1, <2>2 DEF Ready
  <2> QED BY <1>4, <1>7, <2>1, <2>3 DEF over
<1>15. CASE Rewrite
  <2>1. /\ main = "next" /\ main' = "rewrite" /\ ~ HasNextChunk(main_chunk)
    BY <1>15 DEF Rewrite
  <2>2. Ready = 1 .. NumChunks /\ Ready' = 1 .. NumChunks
    BY <1>3, <2>1 DEF Numbered
  <2>3. RoundNo = NumChunks /\ RoundNo' = NumChunks
    <3>1. st_size = N /\ N \in Nat
      BY <1>1, <2>1, SizeOK DEF IInv, RewriteOK, Tagging
    <3>2. main_chunk.endptr = N + 1
      BY <2>1, <3>1 DEF HasNextChunk, FileEnd
    <3> QED BY <1>1, <1>4, <2>1, <3>2, NumIs DEF over
  <2>4. PairsDone = Rounds!Pairs /\ PairsDone' = Rounds!Pairs
    <3>1. \A p \in Rounds!Pairs :
             p[1] < NumChunks \/ (p[1] = NumChunks /\ p[2] \in 1 .. NumChunks)
      BY <1>5, <1>6
    <3> QED BY <1>5, <2>2, <2>3, <3>1
  <2>5. Rounds!Deliver
    BY <1>3, <2>1, <2>3, <2>4 DEF Rounds!Deliver
  <2> QED BY <2>5 DEF Rounds!Next
<1>16. CASE MoveLine \/ Rewritten \/ Terminated
  <2>1. main \in {"rewrite", "done"} /\ main' \in {"rewrite", "done"}
    BY <1>16 DEF MoveLine, Rewritten, Terminated, vars
  <2>2. Ready' = Ready
    BY <1>3, <2>1 DEF Numbered
  <2> QED BY <1>4, <1>7, <2>1, <2>2 DEF over
<1>17. ASSUME NEW t \in tasks, CleanLine(t)
       PROVE  UNCHANGED Rounds!vars
  <2> DEFINE u == [t EXCEPT !.ptr = get_next_line(bytes, t).ptr]
  <2>1. tasks' = (tasks \ {t}) \cup {u} /\ UNCHANGED <<main, chunk, main_chunk>>
    BY <1>17 DEF CleanLine, chunks
  <2>2. u.endptr = t.endptr
    BY DEF IInv, ChunksOK, ChunkOK
  <2> HIDE DEF u
  <2>3. OpenNumbers' = OpenNumbers
    BY <1>4, <2>1, <2>2
  <2>4. Ready' = Ready
    BY <1>3, <2>1, <2>3 DEF Ready, NumberOf
  <2> QED BY <1>4, <1>7, <2>1, <2>4 DEF over
<1>18. ASSUME NEW t \in tasks, TaskDone(t)
       PROVE  Rounds!Next
  <2> DEFINE k == Num(t.endptr)
  <2>1. tasks' = tasks \ {t} /\ UNCHANGED <<main, chunk, main_chunk>>
    BY <1>18 DEF TaskDone, chunks
  <2>2. main \in {"subchunks", "wait"}
    BY DEF IInv, ChunksOK
  <2>3. ~ over /\ ~ over' /\ RoundNo' = RoundNo
    BY <1>4, <2>1, <2>2 DEF over
  <2>4. k \in OpenNumbers /\ k \in 1 .. NumChunks /\ RoundNo < k /\ RoundNo \in Ready
        /\ RoundNo \in 1 .. NumChunks
    BY <1>4, <2>2 DEF Numbered
  <2>5. \A u \in tasks : u # t => Num(u.endptr) # k
    <3> SUFFICES ASSUME NEW u \in tasks, Num(u.endptr) = k PROVE u = t
      OBVIOUS
    <3>1. u.endptr \in Cuts /\ t.endptr \in Cuts
      BY DEF IInv, ChunksOK, ChunkOK
    <3>2. u.endptr = t.endptr
      BY <1>1, <3>1, NumIs
    <3> QED BY <3>2 DEF TasksApart
  <2> HIDE DEF k
  <2>6. OpenNumbers' = OpenNumbers \ {k}
    BY <1>4, <2>1, <2>5 DEF k
  <2>7. main = "subchunks" => k <= NumberOf(chunk)
    <3> SUFFICES ASSUME main = "subchunks" PROVE k <= NumberOf(chunk)
      OBVIOUS
    <3>1. t.endptr \in Cuts /\ chunk.endptr \in Cuts /\ t.endptr <= chunk.endptr
      BY DEF IInv, ChunksOK, ChunkOK, TasksApart
    <3> QED BY <1>1, <1>4, <3>1, NumIs DEF k
  <2>8. NumberOf(chunk)' = NumberOf(chunk)
    BY <1>4, <2>1
  <2>9. Ready' = Ready \cup {k} /\ k \notin Ready
    BY <1>3, <2>1, <2>2, <2>4, <2>6, <2>7, <2>8 DEF Ready
  <2> QED BY <1>5, <1>8, <2>3, <2>4, <2>9
<1> QED
  BY <1>9, <1>10, <1>11, <1>12, <1>13, <1>14, <1>15, <1>16, <1>17, <1>18
  DEF Next, MainStep, TaskStep

(***************************************************************************)
(* get_next_chunk() cuts the file anew in every round, from bytes other    *)
(* threads are tagging, and still meets every chunk once, in order: each   *)
(* pair of chunks is checked once, in its round, and none is left when     *)
(* remove_duplicates() begins.                                             *)
(***************************************************************************)
THEOREM RoundsRefine == Spec => ImplementsRounds
<1>1. Init => Rounds!Init /\ TasksApart
  <2> SUFFICES ASSUME Init PROVE Rounds!Init /\ TasksApart
    OBVIOUS
  <2>1. main = "next" /\ main_chunk = NoChunk /\ tasks = {} /\ InputOK
    BY InitIInv DEF Init, IInv
  <2>2. TasksApart /\ IInv
    BY <2>1, InitIInv DEF TasksApart
  <2>3. RoundNo = 0
    BY <2>1, NumIs DEF RoundNo, NumberOf, Num, NoChunk, NULL
  <2>4. PairsDone = {p \in Rounds!Pairs : p[1] < 0 \/ (p[1] = 0 /\ p[2] \in Ready)}
    BY <2>2, <2>3, PairsAre DEF Numbered
  <2>5. \A p \in Rounds!Pairs : p[1] \in 1 .. NumChunks
    BY DEF Rounds!Pairs
  <2>6. PairsDone = {} /\ NumChunks \in Nat
    BY <2>2, <2>4, <2>5, PairsAre DEF Numbered
  <2> QED BY <2>1, <2>2, <2>3, <2>6 DEF Rounds!Init
<1>2. IInv /\ TasksApart /\ [Next]_vars => TasksApart'
  BY ApartStep
<1>3. IInv /\ TasksApart /\ Numbered /\ Numbered' /\ [Next]_vars => [Rounds!Next]_Rounds!vars
  BY RoundsStep
<1> QED BY <1>1, <1>2, <1>3, PairsAre, Inductive, PTL DEF Spec, ImplementsRounds, Rounds!Spec

=============================================================================
