---------------------------- MODULE SessionProofs ----------------------------
(***************************************************************************)
(* The safety of a run of the program, for every command line, input,      *)
(* memory and number of processors: the sizes it works with, the order of  *)
(* its steps, the way it fails, and the terminal it leaves behind.         *)
(***************************************************************************)
EXTENDS Session, SizingProofs, FiniteSetTheorems

-----------------------------------------------------------------------------
(* Which actions change what                                               *)

\* The progress thread only reads what others have.
LEMMA BarKeeps ==
    ASSUME BarStep
    PROVE  UNCHANGED <<args, conf, input, tty, memory, main, ends, mainChunk, subChunk, work,
                       pending, running, client, status, table, mapped, closed, handlers,
                       process, exitcode, exiting, failed, tio, updated, pbar_id, pbar_running>>
BY DEF BarStep, BarRead, BarTagdup, BarRatio, BarText, BarPrint, BarFirst, BarSecond, setup,
       pool, rounds, resources, exits, terminal

\* The steps of exit(), of the pool's threads and of the progress thread.
OtherStep == Exits \/ Work \/ BarStep

\* Only main parses options and computes sizes, and has a place.
LEMMA OthersKeep ==
    ASSUME OtherStep
    PROVE  UNCHANGED <<args, conf, input, tty, memory, main, ends, mainChunk, subChunk, mapped,
                       updated, tio, client>>
           \/ \E t \in Thread : RunHandler(t)
BY BarKeeps
   DEF OtherStep, Exits, ExitStep, PopHandler, EndProcess, Work, Begin, TaskStep, Lookup, Log,
       Report, TaskDone, Exit, setup, pool, rounds, resources, exits, terminal, progress, pbar,
       Pool!Begin, Pool!Finish

-----------------------------------------------------------------------------
(* The sizes                                                               *)

ConfType ==
    [memlimit : Int, threads : Nat, line_max_size : 1 .. MAX_MAX_LINE_SIZE,
     lowercase : BOOLEAN, uppercase : BOOLEAN, dupfile : BOOLEAN,
     hmap_size : Nat, chunk_size : Nat]

OptionType == [opt : STRING, n : Int, unit : STRING]

\* What main knows when it has a size computed.
Available == get_mem_available(memory, conf.memlimit)

ConfOK ==
    /\ conf \in ConfType
    /\ args \in Seq(OptionType)
    /\ input \in Inputs
    /\ memory \in Memories
    /\ main \in {"config", "config_chunk_size", "init_hmap"} => input.size \in Nat \ {0}
    /\ main \in {"config_chunk_size", "init_hmap"} =>
          /\ Available \in Nat /\ Available >= MIN_MEMORY
          /\ conf.threads \in 1 .. Cpus
          /\ conf.hmap_size = config_hmap_size(input.size, Available)
    /\ main = "init_hmap" => conf.chunk_size = config_chunk_size(input.size, conf.hmap_size)

\* The defaults are in their ranges.
LEMMA InitConf == Init => ConfOK
BY WidthAssumption, SessionAssumption
   DEF Init, ConfOK, DefaultConf, ConfType, OptionType, MAX_MAX_LINE_SIZE

\* An option that is accepted is stored with a value in its range, although
\* it is narrowed or multiplied before it is tested.
LEMMA OptionStored ==
    ASSUME ConfOK, NEW o \in OptionType, ~ BadArgument(o)
    PROVE  setopt(o) \in ConfType
<1>1. CASE o.opt = "threads"
  <2>1. AsInt(o.n) \in Int /\ ~ AsInt(o.n) < 1
    <3>1. o.n \in Int /\ INT_MAX \in Nat
      BY WidthAssumption DEF OptionType
    <3>2. AsInt(o.n) \in - (INT_MAX + 1) .. INT_MAX
      BY <3>1, WrapRange DEF AsInt
    <3>3. ~ AsInt(o.n) < 1
      BY <1>1 DEF BadArgument
    <3> QED BY <3>1, <3>2, <3>3
  <2>2. setopt(o) = [conf EXCEPT !.threads = AsInt(o.n)]
    BY <1>1 DEF setopt
  <2> QED BY <2>1, <2>2 DEF ConfOK, ConfType
<1>2. CASE o.opt = "memlimit"
  <2>1. bytesize(o.n, o.unit) \in Int
    <3>1. \A r \in Int : Wrap(LLONG_MAX, 1024 * r) \in Int
      BY WrapRange, WidthAssumption
    <3> DEFINE K(r) == Wrap(LLONG_MAX, 1024 * r)
    <3>2. K(o.n) \in Int /\ o.n \in Int
      BY <3>1 DEF OptionType
    <3>3. K(K(o.n)) \in Int
      BY <3>1, <3>2
    <3>4. K(K(K(o.n))) \in Int
      BY <3>1, <3>3
    <3>5. K(K(K(K(o.n)))) \in Int
      BY <3>1, <3>4
    <3>6. bytesize(o.n, o.unit) \in {-1, o.n, K(o.n), K(K(o.n)), K(K(K(o.n))), K(K(K(K(o.n))))}
      <4> HIDE DEF K
      <4> QED BY DEF bytesize, K
    <3> QED BY <3>2, <3>3, <3>4, <3>5, <3>6
  <2>2. setopt(o) = [conf EXCEPT !.memlimit = bytesize(o.n, o.unit)]
    BY <1>2 DEF setopt
  <2> QED BY <2>1, <2>2 DEF ConfOK, ConfType
<1>3. CASE o.opt = "line-max-size"
  <2>1. AsInt(o.n) \in 1 .. MAX_MAX_LINE_SIZE
    BY <1>3 DEF BadArgument
  <2>2. setopt(o) = [conf EXCEPT !.line_max_size = AsInt(o.n)]
    BY <1>3 DEF setopt
  <2> QED BY <2>1, <2>2 DEF ConfOK, ConfType
<1>4. CASE o.opt \notin {"threads", "memlimit", "line-max-size"}
  BY <1>4 DEF setopt, ConfOK, ConfType
<1> QED BY <1>1, <1>2, <1>3, <1>4

\* Options are stored, the table's size is computed, then that of a chunk.
LEMMA ConfStep ==
    ASSUME ConfOK, Next
    PROVE  ConfOK'
<1>1. CASE UNCHANGED <<args, conf, input, memory, main>>
  BY <1>1 DEF ConfOK, Available
<1>2. ASSUME UNCHANGED <<args, conf, input, memory>>,
             main' \notin {"config", "config_chunk_size", "init_hmap"}
      PROVE  ConfOK'
  BY <1>2 DEF ConfOK
<1>3. CASE OptParse
  <2>1. CASE UNCHANGED <<args, conf, input, memory, main>>
    BY <1>1, <2>1
  <2>2. CASE /\ main = "optparse" /\ args # << >> /\ ~ BadArgument(Head(args))
             /\ conf' = setopt(Head(args)) /\ args' = Tail(args)
             /\ UNCHANGED <<input, memory, main>>
    <3>1. Head(args) \in OptionType /\ args' \in Seq(OptionType)
      BY <2>2 DEF ConfOK
    <3>2. conf' \in ConfType
      BY <2>2, <3>1, OptionStored
    <3> QED BY <2>2, <3>1, <3>2 DEF ConfOK
  <2> QED
    BY <1>3, <2>1, <2>2 DEF OptParse, MainExits, setup
<1>4. CASE FilesReady
  <2>1. CASE input.size # 0 /\ main' = "config" /\ UNCHANGED setup
    <3>1. input.size \in Nat \ {0}
      BY <2>1, SessionAssumption DEF ConfOK
    <3> QED BY <2>1, <3>1 DEF ConfOK, setup
  <2> QED BY <1>1, <1>4, <2>1 DEF FilesReady, MainExits, setup
<1>5. CASE ConfigHmap
  <2>1. CASE MainExits(1)
    BY <1>1, <2>1 DEF MainExits, setup
  <2>2. CASE ~ MainExits(1)
    <3> DEFINE mem == get_mem_available(memory, conf.memlimit)
               threads == config_threads(conf.threads, Cpus)
               hmap_size == config_hmap_size(input.size, mem)
    <3>1. /\ main = "config" /\ mem >= MIN_MEMORY /\ conf.threads <= Cpus
          /\ conf' = [conf EXCEPT !.threads = threads, !.hmap_size = hmap_size]
          /\ main' = "config_chunk_size" /\ UNCHANGED <<args, input, memory>>
      BY <1>5, <2>2 DEF ConfigHmap
    <3>2. mem \in Nat /\ mem >= MIN_MEMORY
      <4>1. conf.memlimit \in Int /\ memory.MemAvailable \in Int /\ memory.MemFree \in Int
        BY SessionAssumption DEF ConfOK, ConfType
      <4>2. mem \in Int
        BY <4>1 DEF get_mem_available, meminfo_memavailable, Lesser
      <4> QED BY <3>1, <4>2 DEF MIN_MEMORY
    <3>3. threads \in 1 .. Cpus /\ Cpus \in Nat
      BY <3>1, SessionAssumption DEF config_threads, ConfOK, ConfType
    <3>4. input.size \in Nat \ {0}
      BY <3>1 DEF ConfOK
    <3>5. hmap_size \in Nat
      <4> DEFINE wanted == SlotsWanted(input.size, mem)
      <4>1. wanted \in Nat
        BY <3>2, <3>4 DEF SlotsWanted, Lesser, Greater, AVG_LINE_BYTES, sizeof_t_line
      <4>2. hmap_size \in 2 .. wanted
        BY <3>2, <3>4, HmapSize
      <4> QED BY <4>1, <4>2
    <3> HIDE DEF mem, threads, hmap_size
    <3>6. threads \in Nat
      BY <3>3
    <3>7. conf' \in ConfType /\ conf'.memlimit = conf.memlimit /\ conf'.threads = threads
          /\ conf'.hmap_size = hmap_size
      BY <3>1, <3>5, <3>6 DEF ConfOK, ConfType
    <3>8. Available' = mem
      BY <3>1, <3>7 DEF Available, mem
    <3> QED BY <3>1, <3>2, <3>3, <3>4, <3>7, <3>8 DEF ConfOK, hmap_size
  <2> QED BY <2>1, <2>2
<1>6. CASE ConfigChunk
  <2> DEFINE chunk_size == config_chunk_size(input.size, conf.hmap_size)
  <2>1. /\ main = "config_chunk_size" /\ conf' = [conf EXCEPT !.chunk_size = chunk_size]
        /\ main' = "init_hmap" /\ UNCHANGED <<args, input, memory>>
    BY <1>6 DEF ConfigChunk
  <2>2. chunk_size \in Nat
    <3> DEFINE wanted == SlotsWanted(input.size, Available)
    <3>1. input.size \in Nat \ {0} /\ Available \in Nat /\ Available >= MIN_MEMORY
          /\ conf.hmap_size = config_hmap_size(input.size, Available)
      BY <2>1 DEF ConfOK
    <3>2. wanted \in Nat
      BY <3>1 DEF SlotsWanted, Lesser, Greater, AVG_LINE_BYTES, sizeof_t_line
    <3>3. conf.hmap_size \in 2 .. wanted
      BY <3>1, HmapSize
    <3>4. conf.hmap_size \in Nat \ {0}
      BY <3>2, <3>3
    <3> QED BY <3>1, <3>4, ChunkSize
  <2> HIDE DEF chunk_size
  <2>3. conf' \in ConfType /\ conf'.memlimit = conf.memlimit /\ conf'.threads = conf.threads
        /\ conf'.hmap_size = conf.hmap_size /\ conf'.chunk_size = chunk_size
    BY <2>1, <2>2 DEF ConfOK, ConfType
  <2>4. Available' = Available
    BY <2>1, <2>3 DEF Available
  <2> QED BY <2>1, <2>3, <2>4 DEF ConfOK, chunk_size
<1>7. CASE OptParsed \/ start_progressbar \/ InitFiles \/ CopyBlockDone \/ init_hmap
           \/ CountChunk \/ TagdupStart \/ ChunksCounted \/ TasksCounted \/ NextChunk
           \/ Populate \/ Populated
  BY <1>1, <1>2, <1>7
  DEF OptParsed, start_progressbar, InitFiles, CopyBlockDone, init_hmap, CountChunk,
      TagdupStart, ChunksCounted, TasksCounted, NextChunk, Populate, Populated, MainExits, setup
<1>8. CASE CreatePool \/ AddTask \/ ChunkDone \/ WaitReturns \/ DestroyHmap \/ FcleanStart
           \/ RewriteBatch \/ Rewritten \/ Unmap \/ CleanedUp \/ stop_progressbar \/ Join
           \/ DisplayReport
  BY <1>1, <1>2, <1>8
  DEF CreatePool, AddTask, ChunkDone, WaitReturns, DestroyHmap, FcleanStart, RewriteBatch,
      Rewritten, Unmap, CleanedUp, stop_progressbar, Join, DisplayReport, MainExits, setup
<1>9. CASE OtherStep
  <2>1. UNCHANGED <<args, conf, input, memory, main>>
    BY <1>9, OthersKeep DEF RunHandler, setup
  <2> QED BY <1>1, <2>1
<1> QED
  BY <1>1, <1>3, <1>4, <1>5, <1>6, <1>7, <1>8, <1>9
  DEF Next, MainStep, OtherStep, Ended, vars, setup

\* The sizes fit, from what the theorems about them say.
LEMMA SizesFitOK == ConfOK => SizesFit
<1> SUFFICES ASSUME ConfOK, main = "init_hmap" PROVE SizesFit
  BY DEF SizesFit
<1> DEFINE wanted == SlotsWanted(input.size, Available)
<1>1. /\ input.size \in Nat \ {0} /\ Available \in Nat /\ Available >= MIN_MEMORY
      /\ conf.hmap_size = config_hmap_size(input.size, Available)
      /\ conf.chunk_size = config_chunk_size(input.size, conf.hmap_size)
      /\ conf.threads \in 1 .. Cpus /\ conf.line_max_size \in 1 .. MAX_MAX_LINE_SIZE
  BY DEF ConfOK, ConfType
<1>2. wanted \in Nat
  BY <1>1 DEF SlotsWanted, Lesser, Greater, AVG_LINE_BYTES, sizeof_t_line
<1>3. /\ IsPrime(conf.hmap_size) /\ conf.hmap_size \in 2 .. wanted
      /\ \A n \in conf.hmap_size + 1 .. wanted : ~ IsPrime(n)
      /\ 2 * conf.hmap_size * sizeof_t_line <= Available
  BY <1>1, HmapSize
<1> HIDE DEF wanted
<1>4. conf.hmap_size \in Nat \ {0} /\ conf.hmap_size <= wanted
  BY <1>2, <1>3
<1>5. conf.chunk_size \in 1 .. input.size /\ conf.chunk_size \div AVG_LINE_BYTES < conf.hmap_size
  BY <1>1, <1>4, ChunkSize
<1> QED BY <1>1, <1>3, <1>4, <1>5 DEF SizesFit, Available, wanted

-----------------------------------------------------------------------------
(* Where main goes                                                         *)

Before ==
    {"optparse", "start_progressbar", "init_files", "copy_file", "config", "config_chunk_size",
     "init_hmap", "tagdup_start"}
Counting == {"count_chunks", "count_ctasks"}
InRounds == {"next", "populate", "populated", "subchunks", "wait"}

\* main goes through the phases in this order: the loop of the rounds is left
\* and not entered again, and counting comes before it.
LEMMA MainMoves ==
    ASSUME Next
    PROVE  \/ main' = main
           \/ main \in Before /\ main' \in Before
           \/ main = "tagdup_start" /\ main' = "count_chunks" /\ TagdupStart
           \/ main = "count_chunks" /\ main' = "count_ctasks" /\ ChunksCounted
           \/ main = "count_ctasks" /\ main' = "next" /\ TasksCounted
           \/ main \in InRounds /\ main' \in InRounds
           \/ main = "next" /\ main' = "fclean_start" /\ DestroyHmap
           \/ main \in Delivering \ {"returned"} /\ main' \in Delivering
<1>1. CASE OtherStep
  BY <1>1, OthersKeep DEF RunHandler
<1>2. CASE OptParse \/ OptParsed \/ start_progressbar \/ InitFiles \/ CopyBlockDone \/ FilesReady
           \/ ConfigHmap \/ ConfigChunk \/ init_hmap \/ CountChunk \/ TagdupStart
           \/ ChunksCounted \/ TasksCounted
  BY <1>2
  DEF OptParse, OptParsed, start_progressbar, InitFiles, CopyBlockDone, FilesReady, ConfigHmap,
      ConfigChunk, init_hmap, CountChunk, TagdupStart, ChunksCounted, TasksCounted, MainExits,
      Before
<1>3. CASE NextChunk \/ Populate \/ Populated \/ CreatePool \/ AddTask \/ ChunkDone \/ WaitReturns
           \/ DestroyHmap
  BY <1>3
  DEF NextChunk, Populate, Populated, CreatePool, AddTask, ChunkDone, WaitReturns, DestroyHmap,
      MainExits, InRounds
<1>4. CASE FcleanStart \/ RewriteBatch \/ Rewritten \/ Unmap \/ CleanedUp \/ stop_progressbar
           \/ Join \/ DisplayReport
  BY <1>4
  DEF FcleanStart, RewriteBatch, Rewritten, Unmap, CleanedUp, stop_progressbar, Join,
      DisplayReport, MainExits, Delivering
<1> QED
  BY <1>1, <1>2, <1>3, <1>4 DEF Next, MainStep, OtherStep, Ended, vars

-----------------------------------------------------------------------------
(* The chunks                                                              *)

EndsOK ==
    /\ ends \in Seq(Nat)
    /\ NumChunks <= MaxChunks
    /\ \A k \in 1 .. NumChunks : EndOf(k - 1) <= ends[k]
    /\ Remaining \in Nat
    /\ Remaining # 0 => Remaining >= input.tail
    /\ Remaining = 0 /\ NumChunks # 0 => ends[NumChunks] - EndOf(NumChunks - 1) >= input.tail
    /\ main \in Before => ends = << >>
    /\ main \notin Before \cup {"count_chunks"} => Remaining = 0

\* No chunk is counted at first.
LEMMA InitEnds == Init => EndsOK
<1> SUFFICES ASSUME Init PROVE EndsOK
  OBVIOUS
<1>1. ends = << >> /\ input.size \in Nat /\ input.tail \in Nat /\ input.tail <= input.size
      /\ main \in Before /\ MaxChunks \in Nat
  BY SessionAssumption DEF Init, Before
<1>2. NumChunks = 0 /\ EndOf(0) = 0
  BY <1>1 DEF NumChunks, EndOf
<1>3. Remaining = input.size
  BY <1>1, <1>2 DEF Remaining
<1> QED BY <1>1, <1>2, <1>3 DEF EndsOK

\* get_next_chunk gives a chunk that is not empty and ends in the file, the
\* last one with the line that has no end.
LEMMA CountStep ==
    ASSUME ConfOK, EndsOK, CountChunk
    PROVE  EndsOK'
<1>1. PICK len \in ChunkLengths :
          /\ len = Remaining \/ Remaining - len >= input.tail
          /\ ends' = Append(ends, EndOf(NumChunks) + len)
  BY DEF CountChunk
<1>2. PICK n \in Nat : n = NumChunks
  BY DEF EndsOK, NumChunks
<1>3. PICK e \in Nat : e = EndOf(n)
  BY <1>2 DEF EndsOK, EndOf, NumChunks
<1>4. /\ Remaining \in Nat /\ Remaining > 0 /\ Remaining = input.size - e
      /\ n + 1 <= MaxChunks /\ input.size \in Nat /\ input.tail \in Nat
  BY <1>2, <1>3, SessionAssumption DEF CountChunk, EndsOK, Remaining, ConfOK
<1>5. len \in Nat /\ len >= 1 /\ len <= Remaining
  <2>1. CASE len = Remaining
    BY <1>4, <2>1
  <2>2. CASE len # Remaining
    <3>1. conf.chunk_size \in Nat
      BY DEF ConfOK, ConfType
    <3>2. PICK o \in Overshoots \cap 1 .. Remaining - conf.chunk_size : len = conf.chunk_size + o
      BY <1>1, <2>2 DEF ChunkLengths
    <3> QED BY <1>4, <3>1, <3>2
  <2> QED BY <2>1, <2>2
<1>6. /\ ends' \in Seq(Nat) /\ Len(ends') = n + 1 /\ ends'[n + 1] = e + len
      /\ \A k \in 1 .. n : ends'[k] = ends[k]
  <2>1. ends \in Seq(Nat) /\ e + len \in Nat /\ n = Len(ends)
    BY <1>2, <1>3, <1>5 DEF EndsOK, NumChunks
  <2>2. ends' = Append(ends, e + len)
    BY <1>1, <1>2, <1>3
  <2> QED BY <2>1, <2>2
<1>7. NumChunks' = n + 1 /\ input' = input /\ main' = main /\ main = "count_chunks"
  BY <1>6 DEF NumChunks, CountChunk, setup
<1>8. \A k \in 0 .. n : EndOf(k)' = EndOf(k)
  BY <1>2, <1>6 DEF EndOf
<1>9. EndOf(n + 1)' = e + len
  BY <1>2, <1>6 DEF EndOf
<1>10. Remaining' = Remaining - len
  <2>1. Remaining' = input.size - EndOf(n + 1)'
    BY <1>7 DEF Remaining
  <2> QED BY <1>4, <1>5, <1>9, <2>1
<1>11. ASSUME NEW k \in 1 .. n + 1 PROVE EndOf(k - 1)' <= ends'[k]
  <2>1. CASE k = n + 1
    BY <1>2, <1>3, <1>5, <1>6, <1>8, <2>1
  <2>2. CASE k \in 1 .. n
    <3>1. k - 1 \in 0 .. n
      BY <1>2
    <3> QED BY <1>2, <1>6, <1>8, <2>2, <3>1 DEF EndsOK
  <2> QED BY <1>2, <2>1, <2>2
<1>12. Remaining' = 0 => ends'[n + 1] - EndOf(n)' >= input.tail
  <2>1. EndOf(n)' = e
    BY <1>3, <1>8
  <2>2. PICK r \in Nat : r = Remaining /\ r >= input.tail
    BY <1>4 DEF EndsOK
  <2>3. Remaining' = 0 => len = r
    BY <1>5, <1>10, <2>2
  <2>4. ends'[n + 1] = e + len
    BY <1>6
  <2>5. (e + len) - e = len
    BY <1>3, <1>5
  <2> QED BY <2>1, <2>2, <2>3, <2>4, <2>5
<1>13. Remaining' \in Nat /\ (Remaining' # 0 => Remaining' >= input.tail)
  BY <1>1, <1>4, <1>5, <1>10
<1>14. NumChunks' - 1 = n
  BY <1>2, <1>7
<1> QED
  <2>1. \A k \in 1 .. NumChunks' : EndOf(k - 1)' <= ends'[k]
    BY <1>7, <1>11
  <2>2. Remaining' = 0 => (ends[NumChunks] - EndOf(NumChunks - 1))' >= input'.tail
    <3>1. EndOf(NumChunks - 1)' = EndOf(n)'
      BY <1>7, <1>14 DEF EndOf
    <3> QED BY <1>7, <1>12, <3>1
  <2>3. Remaining' # 0 => Remaining' >= input'.tail
    BY <1>7, <1>13
  <2>4. main' \notin Before
    BY <1>7 DEF Before
  <2> QED BY <1>4, <1>6, <1>7, <1>13, <2>1, <2>2, <2>3, <2>4 DEF EndsOK

\* The ends stay as they were counted.
LEMMA EndsStep ==
    ASSUME ConfOK, EndsOK, Next
    PROVE  EndsOK'
<1>1. CASE CountChunk
  BY <1>1, CountStep
<1>2. CASE ends' = ends /\ input' = input
  <2>1. UNCHANGED <<NumChunks, Remaining>> /\ \A k : EndOf(k)' = EndOf(k)
    BY <1>2 DEF NumChunks, Remaining, EndOf
  <2>2. main' \in Before => main \in Before
    BY MainMoves DEF Before, InRounds, Delivering
  <2>3. main' \notin Before \cup {"count_chunks"} =>
            main \notin Before \cup {"count_chunks"} \/ Remaining = 0
    BY MainMoves DEF Before, InRounds, Delivering, ChunksCounted
  <2> QED BY <1>2, <2>1, <2>2, <2>3 DEF EndsOK
<1>3. CASE OtherStep
  BY <1>2, <1>3, OthersKeep DEF RunHandler, rounds, setup
<1>4. CASE OptParse \/ OptParsed \/ start_progressbar \/ InitFiles \/ CopyBlockDone \/ FilesReady
           \/ ConfigHmap \/ ConfigChunk \/ init_hmap \/ TagdupStart \/ ChunksCounted
           \/ TasksCounted
  BY <1>2, <1>4
  DEF OptParse, OptParsed, start_progressbar, InitFiles, CopyBlockDone, FilesReady, ConfigHmap,
      ConfigChunk, init_hmap, TagdupStart, ChunksCounted, TasksCounted, MainExits, rounds, setup
<1>5. CASE NextChunk \/ Populate \/ Populated \/ CreatePool \/ AddTask \/ ChunkDone \/ WaitReturns
           \/ DestroyHmap
  BY <1>2, <1>5
  DEF NextChunk, Populate, Populated, CreatePool, AddTask, ChunkDone, WaitReturns, DestroyHmap,
      MainExits, rounds, setup
<1>6. CASE FcleanStart \/ RewriteBatch \/ Rewritten \/ Unmap \/ CleanedUp \/ stop_progressbar
           \/ Join \/ DisplayReport
  BY <1>2, <1>6
  DEF FcleanStart, RewriteBatch, Rewritten, Unmap, CleanedUp, stop_progressbar, Join,
      DisplayReport, MainExits, rounds, setup
<1> QED
  BY <1>1, <1>2, <1>3, <1>4, <1>5, <1>6 DEF Next, MainStep, OtherStep, Ended, vars, rounds, setup

\* What is reported of a chunk is a number: no more than its bytes.
LEMMA BytesType ==
    ASSUME ConfOK, EndsOK, main \in InRounds, NEW k \in 1 .. NumChunks
    PROVE  BytesOf(k) \in Nat
<1>1. NumChunks \in Nat /\ input.tail \in Nat
  BY SessionAssumption DEF EndsOK, NumChunks, ConfOK
<1>2. Remaining = 0
  BY DEF EndsOK, InRounds, Before
<1>3. EndOf(k) = ends[k] /\ ends[k] \in Nat /\ EndOf(k - 1) \in Nat
  BY <1>1 DEF EndOf, EndsOK, NumChunks
<1>4. EndOf(k - 1) <= ends[k]
  BY DEF EndsOK
<1>5. k = NumChunks => ends[k] - EndOf(k - 1) >= input.tail
  BY <1>1, <1>2 DEF EndsOK
<1> QED BY <1>1, <1>3, <1>4, <1>5 DEF BytesOf

-----------------------------------------------------------------------------
(* The rounds and the pool                                                 *)

InTasks == main \in {"subchunks", "wait"}

\* The tasks of a round are added in the order of their chunks; those that have
\* begun are before those that are pending.
PoolOK ==
    /\ mainChunk \in 0 .. NumChunks /\ subChunk \in 0 .. NumChunks
    /\ main \in Before \cup Counting => mainChunk = 0
    /\ main \in InRounds \ {"next"} => mainChunk >= 1
    /\ main = "wait" => subChunk = NumChunks
    /\ main \in Delivering => mainChunk = NumChunks
    /\ pending \in Seq(Task) /\ running \subseteq Task /\ IsFiniteSet(running)
    /\ ~ InTasks \/ client = "new" => pending = << >> /\ running = {}
    /\ InTasks => subChunk - Len(pending) >= mainChunk
    /\ \A i \in 1 .. Len(pending) : pending[i] = <<mainChunk, subChunk - Len(pending) + i>>
    /\ \A t \in running : t[1] = mainChunk /\ t[2] <= subChunk - Len(pending)

\* There is no pool at first.
LEMMA InitPool == Init => PoolOK
<1> SUFFICES ASSUME Init PROVE PoolOK
  OBVIOUS
<1>1. /\ ends = << >> /\ mainChunk = 0 /\ subChunk = 0 /\ pending = << >> /\ running = {}
      /\ main = "optparse"
  BY DEF Init, Pool!Init
<1>2. NumChunks = 0
  BY <1>1 DEF NumChunks
<1>3. IsFiniteSet(running) /\ pending \in Seq(Task) /\ Len(pending) = 0
  BY <1>1, FS_EmptySet
<1> QED
  BY <1>1, <1>2, <1>3 DEF PoolOK, Before, Counting, InRounds, Delivering, InTasks

\* The cardinality that WorkPool counts with is the usual one.
LEMMA SessionCounts ==
    ASSUME NEW S
    PROVE  Pool!Cardinality(S) = Cardinality(S)
BY DEF Pool!Cardinality, Cardinality

\* A task is added: the next one of the round.
LEMMA AddStep ==
    ASSUME EndsOK, PoolOK, AddTask, ~ MainExits(1)
    PROVE  PoolOK'
<1>1. /\ main = "subchunks" /\ main' = main /\ subChunk < NumChunks /\ subChunk' = subChunk + 1
      /\ mainChunk' = mainChunk /\ ends' = ends /\ client' = "adding" /\ running' = running
      /\ pending' = Append(pending, <<mainChunk, subChunk + 1>>)
  BY DEF AddTask, Pool!Add
<1>2. PICK n \in Nat : n = NumChunks /\ n <= MaxChunks
  BY DEF EndsOK, NumChunks
<1>3. PICK p \in Nat : p = Len(pending)
  BY DEF PoolOK
<1>4. PICK c \in 1 .. n : c = mainChunk
  BY <1>1, <1>2 DEF PoolOK, InRounds
<1>5. PICK s \in 0 .. n : s = subChunk /\ s - p >= c /\ s < n
  BY <1>1, <1>2, <1>3, <1>4 DEF PoolOK, InTasks
<1>6. <<c, s + 1>> \in Task
  BY <1>2, <1>3, <1>4, <1>5, SessionAssumption DEF Task, Chunk
<1>7. pending \in Seq(Task)
  BY DEF PoolOK
<1>8. /\ pending' \in Seq(Task) /\ Len(pending') = p + 1 /\ pending'[p + 1] = <<c, s + 1>>
      /\ \A i \in 1 .. p : pending'[i] = pending[i]
  BY <1>1, <1>3, <1>4, <1>5, <1>6, <1>7
<1>9. \A i \in 1 .. p + 1 : pending'[i] = <<c, (s + 1) - (p + 1) + i>>
  <2> TAKE i \in 1 .. p + 1
  <2>1. (s + 1) - (p + 1) + i = s - p + i
    BY <1>3, <1>5
  <2>2. CASE i = p + 1
    <3>1. s - p + i = s + 1
      BY <1>3, <1>5, <2>2
    <3> QED BY <1>8, <2>1, <2>2, <3>1
  <2>3. CASE i \in 1 .. p
    <3>1. pending[i] = <<c, s - p + i>>
      BY <1>3, <1>4, <1>5, <2>3 DEF PoolOK
    <3> QED BY <1>8, <2>1, <2>3, <3>1
  <2> QED BY <2>2, <2>3
<1>10. \A t \in running : t[1] = c /\ t[2] <= (s + 1) - (p + 1)
  <2>1. (s + 1) - (p + 1) = s - p
    BY <1>3, <1>5
  <2> QED BY <1>3, <1>4, <1>5, <2>1 DEF PoolOK
<1>11. NumChunks' = n /\ s + 1 \in 0 .. n /\ (s + 1) - (p + 1) >= c
  BY <1>1, <1>2, <1>3, <1>5 DEF NumChunks
<1>12. running \subseteq Task /\ IsFiniteSet(running)
  BY DEF PoolOK
<1> QED
  BY <1>1, <1>2, <1>4, <1>5, <1>8, <1>9, <1>10, <1>11, <1>12
  DEF PoolOK, InTasks, Before, Counting, InRounds, Delivering

\* A thread takes the first task.
LEMMA BeginStep ==
    ASSUME EndsOK, PoolOK, Begin
    PROVE  /\ PoolOK' /\ UNCHANGED <<main, mainChunk, subChunk, status, NumChunks>>
           /\ Len(pending) >= 1 /\ Len(pending') = Len(pending) - 1
           /\ Cardinality(running') = Cardinality(running) + 1
<1>1. /\ UNCHANGED <<main, mainChunk, subChunk, ends, status, client>> /\ pending # << >>
      /\ running' = running \cup {Head(pending)} /\ pending' = Tail(pending)
  BY DEF Begin, Pool!Begin, rounds
<1>2. PICK p \in Nat : p = Len(pending) /\ p >= 1
  BY <1>1 DEF PoolOK
<1>3. pending \in Seq(Task)
  BY DEF PoolOK
<1>4. /\ pending' \in Seq(Task) /\ Len(pending') = p - 1 /\ Head(pending) = pending[1]
      /\ \A i \in 1 .. p - 1 : pending'[i] = pending[i + 1]
      /\ Head(pending) \in Task
  BY <1>1, <1>2, <1>3
<1>5. PICK n \in Nat : n = NumChunks /\ n = NumChunks'
  BY <1>1 DEF EndsOK, NumChunks
<1>6. PICK s \in 0 .. n : s = subChunk
  BY <1>5 DEF PoolOK
<1>7. Head(pending) = <<mainChunk, s - p + 1>>
  <2>1. 1 \in 1 .. p
    BY <1>2
  <2> QED BY <1>2, <1>4, <1>6, <2>1 DEF PoolOK
<1>8. Head(pending) \notin running
  <2> SUFFICES ASSUME Head(pending) \in running PROVE FALSE
    OBVIOUS
  <2>1. Head(pending)[2] <= s - p
    BY <1>2, <1>6 DEF PoolOK
  <2> QED BY <1>2, <1>6, <1>7, <2>1
<1>9. \A i \in 1 .. p - 1 : pending'[i] = <<mainChunk, s - (p - 1) + i>>
  <2> TAKE i \in 1 .. p - 1
  <2>1. i + 1 \in 1 .. p /\ s - p + (i + 1) = s - (p - 1) + i
    BY <1>2, <1>6
  <2>2. pending[i + 1] = <<mainChunk, s - p + (i + 1)>>
    BY <1>2, <1>6, <2>1 DEF PoolOK
  <2> QED BY <1>4, <2>1, <2>2
<1>10. \A t \in running' : t[1] = mainChunk /\ t[2] <= s - (p - 1)
  <2>1. \A t \in running : t[1] = mainChunk /\ t[2] <= s - p /\ t[2] \in Nat
    BY <1>2, <1>6 DEF PoolOK, Task, Chunk
  <2>2. \A t \in running : t[1] = mainChunk /\ t[2] <= s - (p - 1)
    BY <1>2, <1>6, <2>1
  <2> QED BY <1>1, <1>2, <1>6, <1>7, <2>2
<1>11. running' \subseteq Task /\ IsFiniteSet(running')
       /\ Cardinality(running') = Cardinality(running) + 1
  BY <1>1, <1>4, <1>8, FS_AddElement DEF PoolOK
<1>12. client # "new" /\ InTasks
  BY <1>1 DEF PoolOK
<1>13. s - p >= mainChunk /\ s - (p - 1) >= mainChunk /\ mainChunk \in 0 .. n
  BY <1>2, <1>5, <1>6, <1>12 DEF PoolOK
<1>14. PoolOK'
  BY <1>1, <1>2, <1>4, <1>5, <1>6, <1>9, <1>10, <1>11, <1>12, <1>13 DEF PoolOK, InTasks
<1> QED BY <1>1, <1>2, <1>4, <1>5, <1>11, <1>14

\* A task ends.
LEMMA FinishStep ==
    ASSUME PoolOK, NEW t \in Task, TaskDone(t)
    PROVE  /\ PoolOK' /\ UNCHANGED <<main, mainChunk, subChunk, pending, NumChunks>>
           /\ Cardinality(running') = Cardinality(running) - 1
           /\ InTasks
<1>1. /\ UNCHANGED <<main, mainChunk, subChunk, ends, client, pending>>
      /\ t \in running /\ running' = running \ {t}
  BY DEF TaskDone, Pool!Finish, rounds
<1>2. IsFiniteSet(running') /\ Cardinality(running') = Cardinality(running) - 1
  BY <1>1, FS_RemoveElement DEF PoolOK
<1>3. InTasks /\ client # "new"
  BY <1>1 DEF PoolOK
<1>4. UNCHANGED NumChunks
  BY <1>1 DEF NumChunks
<1> QED BY <1>1, <1>2, <1>3, <1>4 DEF PoolOK, InTasks

\* The barrier: a round is left when its tasks have ended.
LEMMA PoolStep ==
    ASSUME ConfOK, EndsOK, PoolOK, Next
    PROVE  PoolOK'
<1>1. CASE AddTask /\ ~ MainExits(1)
  BY <1>1, AddStep
<1>2. CASE Begin
  BY <1>2, BeginStep
<1>3. ASSUME NEW t \in Task, TaskDone(t)
      PROVE  PoolOK'
  BY <1>3, FinishStep
<1>4. ASSUME UNCHANGED <<ends, mainChunk, subChunk, pending, running, client>>,
             \/ main' = main
             \/ main \in Before \cup Counting /\ main' \in Before \cup Counting
             \/ main = "populate" /\ main' = "populated"
             \/ main \in Delivering /\ main' \in Delivering
      PROVE  PoolOK'
  <2>1. UNCHANGED NumChunks
    BY <1>4 DEF NumChunks
  <2> QED BY <1>4, <2>1 DEF PoolOK, InTasks, Before, Counting, InRounds, Delivering
<1>5. CASE CountChunk
  <2>1. NumChunks \in Nat /\ NumChunks' \in Nat /\ NumChunks' >= NumChunks
    <3>1. EndsOK'
      BY <1>5, CountStep
    <3>2. PICK x \in Nat : ends' = Append(ends, x)
      <4>1. PICK len : ends' = Append(ends, EndOf(NumChunks) + len)
        BY <1>5 DEF CountChunk
      <4>2. ends' \in Seq(Nat) /\ ends \in Seq(Nat)
        BY <3>1 DEF EndsOK
      <4>3. Len(ends') = Len(ends) + 1
        BY <4>1, <4>2
      <4>4. ends'[Len(ends')] = EndOf(NumChunks) + len /\ Len(ends') \in 1 .. Len(ends')
        BY <4>1, <4>2, <4>3
      <4>5. EndOf(NumChunks) + len \in Nat
        BY <4>2, <4>4
      <4> QED BY <4>1, <4>5
    <3> QED BY <3>2 DEF NumChunks, EndsOK
  <2>2. UNCHANGED <<main, mainChunk, subChunk, pending, running, client>> /\ main = "count_chunks"
    BY <1>5 DEF CountChunk, pool
  <2> QED BY <2>1, <2>2 DEF PoolOK, InTasks, Before, Counting, InRounds, Delivering
<1>6. CASE TasksCounted \/ NextChunk
  <2>1. /\ UNCHANGED <<ends, subChunk, pending, running, client>> /\ ~ InTasks /\ ~ InTasks'
        /\ mainChunk' \in 0 .. NumChunks /\ main' \in {"next", "populate"}
        /\ main' = "populate" => mainChunk' >= 1
    <3>1. NumChunks \in Nat
      BY DEF EndsOK, NumChunks
    <3>2. CASE TasksCounted
      <4>1. mainChunk \in 0 .. NumChunks
        BY DEF PoolOK
      <4> QED BY <3>2, <4>1 DEF TasksCounted, InTasks, pool, rounds
    <3>3. CASE NextChunk
      <4>1. mainChunk \in 0 .. NumChunks
        BY DEF PoolOK
      <4> QED BY <3>1, <3>3, <4>1 DEF NextChunk, InTasks, pool
    <3> QED BY <1>6, <3>2, <3>3
  <2>2. UNCHANGED NumChunks /\ pending = << >> /\ running = {}
    BY <2>1 DEF NumChunks, PoolOK
  <2> QED BY <2>1, <2>2 DEF PoolOK, Before, Counting, InRounds, Delivering
<1>7. CASE Populated
  <2>1. /\ UNCHANGED <<ends, mainChunk, pending, running, client>> /\ subChunk' = mainChunk
        /\ main = "populated" /\ main' = "subchunks"
    BY <1>7 DEF Populated, pool
  <2>2. /\ UNCHANGED NumChunks /\ pending = << >> /\ running = {} /\ Len(pending) = 0
        /\ mainChunk >= 1 /\ mainChunk \in 0 .. NumChunks /\ NumChunks \in Nat
    BY <2>1 DEF NumChunks, PoolOK, InTasks, InRounds, EndsOK
  <2> QED BY <2>1, <2>2 DEF PoolOK, InTasks, Before, Counting, InRounds, Delivering
<1>8. CASE CreatePool /\ ~ MainExits(1)
  <2>1. UNCHANGED <<main, ends, mainChunk, subChunk, pending, running>>
    BY <1>8 DEF CreatePool, Pool!Create, rounds
  <2>2. UNCHANGED NumChunks /\ client = "new" /\ pending = << >> /\ running = {}
    BY <1>8, <2>1 DEF NumChunks, CreatePool, Pool!Create, PoolOK
  <2> QED BY <2>1, <2>2 DEF PoolOK, InTasks
<1>9. CASE ChunkDone
  <2>1. /\ UNCHANGED <<ends, mainChunk, subChunk, pending, running>>
        /\ main = "subchunks" /\ subChunk = NumChunks
        /\ \/ main' = "next" /\ client = "new" /\ client' = client
           \/ main' = "wait" /\ client' = "waiting" /\ client # "new"
    BY <1>9 DEF ChunkDone, rounds, pool, Pool!Wait
  <2>2. UNCHANGED NumChunks /\ mainChunk >= 1
    BY <2>1 DEF NumChunks, PoolOK, InRounds
  <2> QED BY <2>1, <2>2 DEF PoolOK, InTasks, Before, Counting, InRounds, Delivering
<1>10. CASE WaitReturns \/ DestroyHmap
  <2>1. /\ UNCHANGED <<ends, mainChunk, subChunk, pending, running>>
        /\ \/ main' = "next" /\ main = "wait" /\ pending = << >> /\ running = {}
           \/ main' = "fclean_start" /\ main = "next" /\ mainChunk = NumChunks
    BY <1>10 DEF WaitReturns, DestroyHmap, rounds, pool, Pool!WaitReturns, Pool!Destroy
  <2>2. UNCHANGED NumChunks /\ pending = << >> /\ running = {}
    BY <2>1 DEF NumChunks, PoolOK, InTasks
  <2> QED BY <2>1, <2>2 DEF PoolOK, InTasks, Before, Counting, InRounds, Delivering
<1>11. CASE Exits \/ BarStep
  BY <1>4, <1>11, BarKeeps
  DEF Exits, ExitStep, PopHandler, RunHandler, EndProcess, rounds, pool
<1>12. ASSUME NEW t \in Task, Lookup(t) \/ Log(t) \/ Report(t)
       PROVE  PoolOK'
  BY <1>4, <1>12 DEF Lookup, Log, Report, rounds, pool
<1>13. CASE OptParse \/ OptParsed \/ start_progressbar \/ InitFiles \/ CopyBlockDone \/ FilesReady
            \/ ConfigHmap \/ ConfigChunk \/ init_hmap \/ TagdupStart \/ ChunksCounted
            \/ Populate
  BY <1>4, <1>13
  DEF OptParse, OptParsed, start_progressbar, InitFiles, CopyBlockDone, FilesReady, ConfigHmap,
      ConfigChunk, init_hmap, TagdupStart, ChunksCounted, Populate, MainExits, rounds, pool,
      Before, Counting
<1>14. CASE FcleanStart \/ RewriteBatch \/ Rewritten \/ Unmap \/ CleanedUp \/ stop_progressbar
            \/ Join \/ DisplayReport
  BY <1>4, <1>14
  DEF FcleanStart, RewriteBatch, Rewritten, Unmap, CleanedUp, stop_progressbar, Join,
      DisplayReport, MainExits, rounds, pool, Delivering
<1>15. CASE MainExits(1)
  BY <1>4, <1>15 DEF MainExits, rounds, pool
<1>16. CASE Ended
  BY <1>4, <1>16 DEF Ended, vars, rounds, pool
<1> QED
  BY <1>1, <1>2, <1>3, <1>5, <1>6, <1>7, <1>8, <1>9, <1>10, <1>11, <1>12, <1>13, <1>14, <1>15,
     <1>16
  DEF Next, MainStep, Work, TaskStep

-----------------------------------------------------------------------------
(* The counters                                                            *)

StatusType ==
    [file_size : Nat, fcopy_bytes : Nat, ctasks_date : BOOLEAN, total_chunks : Nat,
     done_chunks : Nat, total_ctasks : Int, done_ctasks : Nat, chunk_size : Nat,
     tagdup_bytes : Nat, fclean_date : BOOLEAN, fclean_bytes : Nat]

\* The counters are zero at first.
LEMMA InitStatus == Init => status \in StatusType
BY DEF Init, StatusType

\* TRIANGULAR() is a number, whatever the product was narrowed to.
LEMMA TriangularType ==
    ASSUME NEW n \in Nat
    PROVE  Triangular(n) \in Int
<1> DEFINE product == AsInt(n * (n + 1))
<1>1. product \in Int
  <2>1. INT_MAX \in Nat /\ n * (n + 1) \in Int
    BY WidthAssumption
  <2>2. product \in - (INT_MAX + 1) .. INT_MAX
    BY <2>1, WrapRange DEF AsInt
  <2> QED BY <2>1, <2>2
<1> HIDE DEF product
<1>2. (IF product >= 0 THEN product \div 2 ELSE - ((- product) \div 2)) \in Int
  BY <1>1
<1> QED BY <1>2 DEF Triangular, product

\* The steps that count, and what they add.
LEMMA StatusStep ==
    ASSUME ConfOK, EndsOK, PoolOK, status \in StatusType, Next
    PROVE  status' \in StatusType
<1>1. CASE UNCHANGED status
  BY <1>1
<1>2. input.size \in Nat /\ input.tail \in Nat /\ input.tail <= input.size /\ CopyBlock \in Nat
  BY SessionAssumption DEF ConfOK
<1>3. CASE InitFiles \/ CopyBlockDone
  <2>1. CASE InitFiles
    <3> DEFINE x == IF input.pipe THEN 0 ELSE input.size
    <3>1. x \in Nat /\ (status' = status \/ status' = [status EXCEPT !.file_size = x])
      BY <1>2, <2>1 DEF InitFiles
    <3> HIDE DEF x
    <3> QED BY <3>1 DEF StatusType
  <2>2. CASE CopyBlockDone
    <3>1. status' = [status EXCEPT !.fcopy_bytes = @ + CopyBlock]
      BY <2>2 DEF CopyBlockDone
    <3> QED BY <1>2, <3>1 DEF StatusType
  <2> QED BY <1>3, <2>1, <2>2
<1>4. CASE ConfigChunk
  <2>1. ConfOK'
    BY <1>4, ConfStep DEF Next, MainStep, ConfigChunk
  <2>2. config_chunk_size(input.size, conf.hmap_size) \in Nat
    <3>1. conf' = [conf EXCEPT !.chunk_size = config_chunk_size(input.size, conf.hmap_size)]
      BY <1>4 DEF ConfigChunk
    <3>2. conf'.chunk_size = config_chunk_size(input.size, conf.hmap_size)
      BY <3>1 DEF ConfOK, ConfType
    <3> QED BY <2>1, <3>2 DEF ConfOK, ConfType
  <2> DEFINE x == config_chunk_size(input.size, conf.hmap_size)
  <2>3. status' = [status EXCEPT !.chunk_size = x] /\ x \in Nat
    BY <1>4, <2>2 DEF ConfigChunk
  <2> HIDE DEF x
  <2> QED BY <2>3 DEF StatusType
<1>5. CASE TagdupStart \/ ChunksCounted \/ TasksCounted
  <2>1. CASE TagdupStart
    BY <2>1 DEF TagdupStart, StatusType
  <2>2. CASE ChunksCounted
    <3>1. NumChunks \in Nat
      BY DEF EndsOK, NumChunks
    <3> QED BY <2>2, <3>1 DEF ChunksCounted, StatusType
  <2>3. CASE TasksCounted
    <3> DEFINE total == Triangular(status.total_chunks)
    <3>1. status' = [status EXCEPT !.total_ctasks = total]
      BY <2>3 DEF TasksCounted
    <3>2. total \in Int
      BY TriangularType DEF StatusType
    <3> HIDE DEF total
    <3> QED BY <3>1, <3>2 DEF StatusType
  <2> QED BY <1>5, <2>1, <2>2, <2>3
<1>6. ASSUME NEW x \in Nat, status' = [status EXCEPT !.tagdup_bytes = @ + x]
      PROVE  status' \in StatusType
  BY <1>6 DEF StatusType
<1>7. CASE Populate
  <2>1. CASE MainExits(1)
    BY <1>1, <2>1 DEF MainExits
  <2>2. CASE ~ MainExits(1)
    <3>1. main \in InRounds /\ mainChunk \in 1 .. NumChunks
      BY <1>7 DEF Populate, InRounds, PoolOK, EndsOK, NumChunks
    <3>2. BytesOf(mainChunk) \in Nat
      BY <3>1, BytesType
    <3>3. status' = [status EXCEPT !.tagdup_bytes = @ + BytesOf(mainChunk)]
      BY <1>7, <2>2 DEF Populate
    <3> QED BY <1>6, <3>2, <3>3
  <2> QED BY <2>1, <2>2
<1>8. ASSUME NEW t \in Task, t \in running, Report(t)
      PROVE  status' \in StatusType
  <2>1. main \in InRounds /\ InTasks
    BY <1>8 DEF PoolOK, InTasks, InRounds
  <2>2. t[2] \in 1 .. NumChunks
    <3>1. t[2] \in Nat /\ t[2] >= 1
      BY DEF Task, Chunk
    <3>2. t[2] <= subChunk - Len(pending) /\ Len(pending) \in Nat /\ subChunk \in 0 .. NumChunks
      BY <1>8 DEF PoolOK
    <3> QED BY <3>1, <3>2 DEF EndsOK, NumChunks
  <2>3. BytesOf(t[2]) \in Nat
    BY <2>1, <2>2, BytesType
  <2> QED BY <1>6, <1>8, <2>3 DEF Report
<1>9. CASE Populated \/ ChunkDone \/ FcleanStart
  <2>1. CASE Populated
    BY <2>1 DEF Populated, StatusType
  <2>2. CASE ChunkDone
    BY <2>2 DEF ChunkDone, StatusType
  <2>3. CASE FcleanStart
    BY <2>3 DEF FcleanStart, StatusType
  <2> QED BY <1>9, <2>1, <2>2, <2>3
<1>10. ASSUME NEW t \in Task, TaskDone(t)
       PROVE  status' \in StatusType
  BY <1>10 DEF TaskDone, StatusType
<1>11. CASE RewriteBatch \/ Rewritten
  <2>1. input.size - input.tail \in Nat /\ Batches \subseteq Nat
    BY <1>2, SessionAssumption
  <2>2. CASE RewriteBatch
    <3>1. PICK n \in Nat : status' = [status EXCEPT !.fclean_bytes = @ + n]
      BY <2>1, <2>2 DEF RewriteBatch
    <3> QED BY <3>1 DEF StatusType
  <2>3. CASE Rewritten
    BY <2>1, <2>3 DEF Rewritten, StatusType
  <2> QED BY <1>11, <2>2, <2>3
<1>12. CASE Exits \/ BarStep \/ Begin
  BY <1>1, <1>12, BarKeeps
  DEF Exits, ExitStep, PopHandler, RunHandler, EndProcess, Begin
<1>13. ASSUME NEW t \in Task, Lookup(t) \/ Log(t)
       PROVE  status' \in StatusType
  BY <1>1, <1>13 DEF Lookup, Log
<1>14. CASE OptParse \/ OptParsed \/ start_progressbar \/ FilesReady \/ ConfigHmap \/ init_hmap
            \/ CountChunk \/ NextChunk
  BY <1>1, <1>14
  DEF OptParse, OptParsed, start_progressbar, FilesReady, ConfigHmap, init_hmap, CountChunk,
      NextChunk, MainExits
<1>15. CASE CreatePool \/ AddTask \/ WaitReturns \/ DestroyHmap \/ Unmap \/ CleanedUp
            \/ stop_progressbar \/ Join \/ DisplayReport
  BY <1>1, <1>15
  DEF CreatePool, AddTask, WaitReturns, DestroyHmap, Unmap, CleanedUp, stop_progressbar, Join,
      DisplayReport, MainExits
<1>16. CASE Ended
  BY <1>1, <1>16 DEF Ended, vars
<1> QED
  BY <1>3, <1>4, <1>5, <1>7, <1>8, <1>9, <1>10, <1>11, <1>12, <1>13, <1>14, <1>15, <1>16
  DEF Next, MainStep, Work, TaskStep

\* Twice the number of tasks of the first k rounds.
Pairs(k) == k * (2 * NumChunks - k + 1)

\* What one round adds, and what all of them come to.
LEMMA PairsNext ==
    ASSUME NEW n \in Nat, n = NumChunks, NEW k \in Nat
    PROVE  /\ Pairs(0) = 0 /\ Pairs(n) = n * (n + 1)
           /\ Pairs(k) = Pairs(k - 1) + 2 * (n - k + 1)
           /\ Pairs(k) \in Int /\ Pairs(k - 1) \in Int
BY DEF Pairs

\* The tasks counted, with those that are under way, are those of the rounds.
CountsOK ==
    /\ main \in Before \cup Counting => status.done_ctasks = 0 /\ status.done_chunks = 0
    /\ main \in {"next"} \cup Delivering =>
          2 * status.done_ctasks = Pairs(mainChunk) /\ status.done_chunks = mainChunk
    /\ main \in {"populate", "populated"} =>
          2 * status.done_ctasks = Pairs(mainChunk - 1) /\ status.done_chunks = mainChunk - 1
    /\ InTasks =>
          /\ 2 * (status.done_ctasks + Len(pending) + Cardinality(running)) =
                Pairs(mainChunk - 1) + 2 * (1 + subChunk - mainChunk)
          /\ status.done_chunks = IF main = "wait" THEN mainChunk ELSE mainChunk - 1

\* Nothing is counted at first.
LEMMA InitCounts == Init => CountsOK
BY DEF Init, CountsOK, Before, Counting, Delivering, InTasks

\* What a step of a task or of main does to both sides.
LEMMA CountsStep ==
    ASSUME ConfOK, EndsOK, PoolOK, status \in StatusType, CountsOK, Next
    PROVE  CountsOK'
<1> DEFINE d == status.done_ctasks
           e == status.done_chunks
<1>1. PoolOK' /\ status' \in StatusType
  BY PoolStep, StatusStep
<1>2. d \in Nat /\ d' \in Nat /\ e \in Nat /\ e' \in Nat
  BY <1>1 DEF StatusType
<1>3. PICK n \in Nat : n = NumChunks
  BY DEF EndsOK, NumChunks
<1>4. PICK p \in Nat : p = Len(pending)
  BY DEF PoolOK
<1>5. PICK r \in Nat : r = Cardinality(running)
  BY FS_CardinalityType DEF PoolOK
<1>6. PICK k \in 0 .. n, s \in 0 .. n : k = mainChunk /\ s = subChunk
  BY <1>3 DEF PoolOK
<1>7. ASSUME UNCHANGED <<d, e, ends, mainChunk, subChunk, pending, running>>,
             \/ main' = main
             \/ main \in Before \cup Counting /\ main' \in Before \cup Counting
             \/ main = "populate" /\ main' = "populated"
             \/ main \in {"next"} \cup Delivering /\ main' \in Delivering
      PROVE  CountsOK'
  <2>1. \A i : Pairs(i)' = Pairs(i)
    BY <1>7 DEF Pairs, NumChunks
  <2>2. Pairs(mainChunk)' = Pairs(mainChunk) /\ Pairs(mainChunk - 1)' = Pairs(mainChunk - 1)
    BY <1>7 DEF Pairs, NumChunks
  <2>3. UNCHANGED <<status.done_ctasks, status.done_chunks, Len(pending), Cardinality(running)>>
    BY <1>7
  <2> QED BY <1>7, <2>2, <2>3 DEF CountsOK, InTasks, Before, Counting, Delivering
<1>8. CASE CountChunk
  BY <1>8 DEF CountChunk, CountsOK, Before, Counting, Delivering, InTasks
<1>9. CASE TasksCounted
  <2>1. /\ main = "count_ctasks" /\ main' = "next" /\ mainChunk' = mainChunk /\ ends' = ends
        /\ d' = d /\ e' = e
    BY <1>9 DEF TasksCounted, StatusType, rounds
  <2>2. d = 0 /\ e = 0 /\ mainChunk = 0
    BY <2>1 DEF CountsOK, PoolOK, Counting
  <2>3. Pairs(mainChunk)' = 0
    BY <1>3, <2>1, <2>2 DEF Pairs, NumChunks
  <2> QED BY <2>1, <2>2, <2>3 DEF CountsOK, Before, Counting, Delivering, InTasks
<1>10. CASE NextChunk
  <2>1. /\ main = "next" /\ main' = "populate" /\ mainChunk' = mainChunk + 1 /\ ends' = ends
        /\ d' = d /\ e' = e
    BY <1>10 DEF NextChunk
  <2>2. mainChunk' - 1 = mainChunk
    BY <1>6, <2>1
  <2>3. Pairs(mainChunk - 1)' = Pairs(mainChunk)
    BY <2>1, <2>2 DEF Pairs, NumChunks
  <2>4. 2 * d = Pairs(mainChunk) /\ e = mainChunk
    BY <2>1 DEF CountsOK
  <2> QED BY <2>1, <2>2, <2>3, <2>4 DEF CountsOK, Before, Counting, Delivering, InTasks
<1>11. CASE Populated
  <2>1. /\ main = "populated" /\ main' = "subchunks" /\ mainChunk' = mainChunk /\ ends' = ends
        /\ subChunk' = mainChunk /\ UNCHANGED <<pending, running>>
        /\ d' = d + 1 /\ e' = e
    BY <1>11 DEF Populated, StatusType, pool
  <2>2. pending = << >> /\ running = {}
    BY <2>1 DEF PoolOK, InTasks
  <2>3. Len(pending') = 0 /\ Cardinality(running') = 0
    BY <2>1, <2>2, FS_EmptySet
  <2>4. Pairs(mainChunk - 1)' = Pairs(k - 1) /\ Pairs(k - 1) \in Int
    BY <1>3, <1>6, <2>1 DEF Pairs, NumChunks
  <2>5. 2 * d = Pairs(k - 1) /\ e = k - 1
    BY <1>6, <2>1 DEF CountsOK
  <2>6. 2 * (d' + 0 + 0) = Pairs(k - 1) + 2 * (1 + k - k)
    BY <1>2, <2>1, <2>4, <2>5
  <2> QED
    BY <1>6, <2>1, <2>3, <2>4, <2>5, <2>6 DEF CountsOK, Before, Counting, Delivering, InTasks
<1>12. CASE AddTask /\ ~ MainExits(1)
  <2>1. /\ main = "subchunks" /\ main' = main /\ mainChunk' = mainChunk /\ ends' = ends
        /\ subChunk' = s + 1 /\ running' = running /\ d' = d /\ e' = e
        /\ pending' = Append(pending, <<mainChunk, subChunk + 1>>)
    BY <1>6, <1>12 DEF AddTask, Pool!Add
  <2>2. Len(pending') = p + 1
    BY <1>4, <2>1 DEF PoolOK
  <2>3. Pairs(mainChunk - 1)' = Pairs(k - 1) /\ Pairs(k - 1) \in Int
    BY <1>3, <1>6, <2>1 DEF Pairs, NumChunks
  <2>4. 2 * (d + p + r) = Pairs(k - 1) + 2 * (1 + s - k) /\ e = k - 1
    BY <1>4, <1>5, <1>6, <2>1 DEF CountsOK, InTasks
  <2>5. 2 * (d' + (p + 1) + r) = Pairs(k - 1) + 2 * (1 + (s + 1) - k)
    <3> DEFINE x == Pairs(k - 1)
    <3>1. x \in Int /\ d' = d /\ 2 * (d + p + r) = x + 2 * (1 + s - k)
      BY <2>1, <2>3, <2>4
    <3> HIDE DEF x
    <3>2. 2 * (d + (p + 1) + r) = x + 2 * (1 + (s + 1) - k)
      BY <1>2, <1>6, <3>1
    <3> QED BY <3>1, <3>2 DEF x
  <2> QED
    BY <1>5, <1>6, <2>1, <2>2, <2>3, <2>4, <2>5 DEF CountsOK, Before, Counting, Delivering, InTasks
<1>13. CASE Begin
  <2>1. /\ UNCHANGED <<main, mainChunk, subChunk, ends, d, e>>
        /\ Len(pending') = p - 1 /\ Cardinality(running') = r + 1
    BY <1>4, <1>5, <1>13, BeginStep DEF Begin, rounds
  <2>2. Pairs(mainChunk)' = Pairs(mainChunk) /\ Pairs(mainChunk - 1)' = Pairs(mainChunk - 1)
    BY <2>1 DEF Pairs, NumChunks
  <2>3. d' + (p - 1) + (r + 1) = d + p + r
    <3>1. \A x, y, z \in Nat : x + (y - 1) + (z + 1) = x + y + z
      OBVIOUS
    <3> QED BY <1>2, <2>1, <3>1
  <2> QED BY <1>4, <1>5, <2>1, <2>2, <2>3 DEF CountsOK, InTasks, Before, Counting, Delivering
<1>14. ASSUME NEW t \in Task, TaskDone(t)
       PROVE  CountsOK'
  <2>1. /\ UNCHANGED <<main, mainChunk, subChunk, pending, ends, e>> /\ InTasks
        /\ Cardinality(running') = r - 1 /\ d' = d + 1
    BY <1>5, <1>14, FinishStep DEF TaskDone, rounds, StatusType
  <2>2. Pairs(mainChunk)' = Pairs(mainChunk) /\ Pairs(mainChunk - 1)' = Pairs(mainChunk - 1)
    BY <2>1 DEF Pairs, NumChunks
  <2>3. d' + p + (r - 1) = d + p + r
    <3>1. \A x, y, z \in Nat : (x + 1) + y + (z - 1) = x + y + z
      OBVIOUS
    <3> QED BY <1>2, <2>1, <3>1
  <2> QED BY <1>4, <1>5, <2>1, <2>2, <2>3 DEF CountsOK, InTasks, Before, Counting, Delivering
<1>15. ASSUME UNCHANGED <<ends, mainChunk, subChunk>>, d' = d, k >= 1, s = n, InTasks,
              pending = << >>, running = {}, main' = "next", e' = k
       PROVE  CountsOK'
  <2>1. p = 0 /\ r = 0
    BY <1>4, <1>5, <1>15, FS_EmptySet
  <2>2. 2 * (d + 0 + 0) = Pairs(k - 1) + 2 * (1 + n - k)
    BY <1>4, <1>5, <1>6, <1>15, <2>1 DEF CountsOK
  <2>3. Pairs(k) = Pairs(k - 1) + 2 * (n - k + 1) /\ Pairs(k - 1) \in Int
    BY <1>3, <1>6, PairsNext
  <2>4. 2 * d' = Pairs(k)
    BY <1>2, <1>6, <1>15, <2>2, <2>3
  <2>5. Pairs(mainChunk)' = Pairs(k)
    BY <1>6, <1>15 DEF Pairs, NumChunks
  <2> QED BY <1>6, <1>15, <2>4, <2>5 DEF CountsOK, InTasks, Before, Counting, Delivering
<1>16. CASE ChunkDone
  <2>1. /\ main = "subchunks" /\ UNCHANGED <<ends, mainChunk, subChunk, pending, running, d>>
        /\ e' = e + 1 /\ s = n
        /\ main' = "wait" \/ (main' = "next" /\ client = "new")
    BY <1>3, <1>6, <1>16 DEF ChunkDone, rounds, pool, StatusType, Pool!Wait
  <2>2. k >= 1 /\ e = k - 1 /\ e' = k
    BY <1>2, <1>6, <2>1 DEF PoolOK, CountsOK, InTasks, InRounds
  <2>3. CASE main' = "wait"
    <3>1. Pairs(mainChunk - 1)' = Pairs(mainChunk - 1)
      BY <2>1 DEF Pairs, NumChunks
    <3> QED BY <1>6, <2>1, <2>2, <2>3, <3>1 DEF CountsOK, InTasks, Before, Counting, Delivering
  <2>4. CASE main' = "next" /\ client = "new"
    BY <1>15, <2>1, <2>2, <2>4 DEF PoolOK, InTasks
  <2> QED BY <2>1, <2>3, <2>4
<1>17. CASE WaitReturns
  <2>1. /\ main = "wait" /\ main' = "next" /\ UNCHANGED <<ends, mainChunk, subChunk, d, e>>
        /\ pending = << >> /\ running = {}
    BY <1>17 DEF WaitReturns, Pool!WaitReturns, rounds
  <2>2. k >= 1 /\ s = n /\ e' = k
    BY <1>3, <1>6, <2>1 DEF PoolOK, CountsOK, InTasks, InRounds
  <2> QED BY <1>15, <2>1, <2>2 DEF InTasks
<1>18. CASE DestroyHmap
  BY <1>7, <1>18 DEF DestroyHmap, Pool!Destroy, rounds, pool, Delivering
<1>19. CASE Exits \/ BarStep
  BY <1>7, <1>19, BarKeeps
  DEF Exits, ExitStep, PopHandler, RunHandler, EndProcess, rounds, pool
<1>20. ASSUME NEW t \in Task, Lookup(t) \/ Log(t) \/ Report(t)
       PROVE  CountsOK'
  BY <1>7, <1>20 DEF Lookup, Log, Report, rounds, pool, StatusType
<1>21. CASE OptParse \/ OptParsed \/ start_progressbar \/ FilesReady \/ ConfigHmap \/ init_hmap
            \/ CreatePool
  BY <1>7, <1>21
  DEF OptParse, OptParsed, start_progressbar, FilesReady, ConfigHmap, init_hmap, CreatePool,
      Pool!Create, MainExits, rounds, pool, Before, Counting
<1>22. CASE InitFiles \/ CopyBlockDone \/ ConfigChunk \/ TagdupStart \/ ChunksCounted \/ Populate
  BY <1>7, <1>22
  DEF InitFiles, CopyBlockDone, ConfigChunk, TagdupStart, ChunksCounted, Populate, MainExits,
      rounds, pool, Before, Counting, StatusType
<1>23. CASE FcleanStart \/ RewriteBatch \/ Rewritten
  BY <1>7, <1>23
  DEF FcleanStart, RewriteBatch, Rewritten, rounds, pool, Delivering, StatusType
<1>24. CASE Unmap \/ CleanedUp \/ stop_progressbar \/ Join \/ DisplayReport
  BY <1>7, <1>24
  DEF Unmap, CleanedUp, stop_progressbar, Join, DisplayReport, MainExits, rounds, pool, Delivering
<1>25. CASE MainExits(1) \/ Ended
  BY <1>7, <1>25 DEF MainExits, Ended, vars, rounds, pool
<1> QED
  BY <1>8, <1>9, <1>10, <1>11, <1>12, <1>13, <1>14, <1>16, <1>17, <1>18, <1>19, <1>20, <1>21,
     <1>22, <1>23, <1>24, <1>25
  DEF Next, MainStep, Work, TaskStep

-----------------------------------------------------------------------------
(* The threads in exit()                                                   *)

Handlers == {"destroy_hmap", "close_all", "restore_termios"}

\* A thread in exit() stays there.  One of the pool's is there because it
\* failed, and its task is never finished; main without a failure only at
\* the ends of the program that are no errors.
ExitsOK ==
    /\ exiting \in [Thread -> {"no", "next"} \cup Handlers]
    /\ failed \subseteq Thread
    /\ handlers \in Seq(Handlers)
    /\ \A t \in failed : exiting[t] # "no"
    /\ \A t \in Task : exiting[t] # "no" => t \in failed /\ t \in running
    /\ exiting[Main] # "no" /\ Main \notin failed => main \in {"optparse", "copy_file", "returned"}
    /\ main = "returned" => exiting[Main] # "no" /\ Main \notin failed

\* No thread is in exit() at first.
LEMMA InitExits == Init => ExitsOK
<1> SUFFICES ASSUME Init PROVE ExitsOK
  OBVIOUS
<1>1. /\ exiting = [t \in Thread |-> "no"] /\ failed = {} /\ handlers = << >>
      /\ main = "optparse"
  BY DEF Init
<1>2. Main \in Thread /\ Task \subseteq Thread
  BY DEF Thread
<1> QED BY <1>1, <1>2 DEF ExitsOK

\* A task that failed is not finished, main does not go on after exit().
LEMMA ExitsStep ==
    ASSUME ExitsOK, Next
    PROVE  ExitsOK'
<1>1. Main \in Thread /\ Task \subseteq Thread /\ Thread = {Main} \cup Task /\ Main \notin Task
  BY MainAssumption DEF Thread
<1>2. ASSUME UNCHANGED <<exiting, failed>>, handlers' \in Seq(Handlers), running \subseteq running',
             main' = main \/ (exiting[Main] = "no" /\ main' # "returned")
      PROVE  ExitsOK'
  BY <1>2 DEF ExitsOK
<1>3. ASSUME exiting[Main] = "no", NEW code, Exit(Main, code), handlers' \in Seq(Handlers),
             running' = running, code = 0 => main' \in {"optparse", "copy_file", "returned"},
             main' = "returned" => code = 0
      PROVE  ExitsOK'
  <2>1. /\ exiting' = [exiting EXCEPT ![Main] = "next"]
        /\ failed' = IF code = 0 THEN failed ELSE failed \cup {Main}
    BY <1>3 DEF Exit
  <2>2. exiting' \in [Thread -> {"no", "next"} \cup Handlers] /\ exiting'[Main] = "next"
        /\ \A t \in Task : exiting'[t] = exiting[t]
    BY <1>1, <2>1 DEF ExitsOK
  <2>3. Main \notin failed
    BY <1>3 DEF ExitsOK
  <2> QED BY <1>1, <1>3, <2>1, <2>2, <2>3 DEF ExitsOK
<1>4. ASSUME NEW t \in Thread, exiting[t] # "no", NEW h \in {"next"} \cup Handlers,
             exiting' = [exiting EXCEPT ![t] = h],
             handlers' \in Seq(Handlers), UNCHANGED <<failed, running, main>>
      PROVE  ExitsOK'
  <2>1. exiting' \in [Thread -> {"no", "next"} \cup Handlers]
        /\ \A u \in Thread : exiting'[u] # "no" <=> exiting[u] # "no"
    BY <1>4 DEF ExitsOK, Handlers
  <2> QED BY <1>1, <1>4, <2>1 DEF ExitsOK
<1>5. handlers \in Seq(Handlers)
  BY DEF ExitsOK
<1>6. CASE exiting[Main] = "no" /\ MainExits(1)
  BY <1>3, <1>5, <1>6 DEF MainExits, resources, pool, ExitsOK
<1>7. CASE exiting[Main] = "no" /\ (OptParse \/ OptParsed)
  <2>1. CASE MainExits(0) /\ main = "optparse"
    BY <1>3, <1>5, <1>7, <2>1 DEF MainExits, resources, pool
  <2> QED
    BY <1>2, <1>5, <1>6, <1>7, <2>1 DEF OptParse, OptParsed, resources, pool, exits
<1>8. CASE exiting[Main] = "no" /\ start_progressbar
  <2>1. CASE Exit(Main, 1) /\ UNCHANGED <<main, handlers, running>>
    BY <1>3, <1>5, <1>8, <2>1 DEF ExitsOK
  <2>2. CASE UNCHANGED <<exits, running>> /\ main' = "init_files"
             /\ (handlers' = handlers \/ handlers' = <<"restore_termios">> \o handlers)
    <3>1. handlers' \in Seq(Handlers)
      BY <1>5, <2>2 DEF Handlers
    <3> QED BY <1>2, <1>8, <2>2, <3>1 DEF exits
  <2> QED BY <1>8, <2>1, <2>2 DEF start_progressbar, pool
<1>9. CASE exiting[Main] = "no" /\ InitFiles
  <2>1. handlers' \in Seq(Handlers) /\ running' = running
    BY <1>5, <1>9 DEF InitFiles, Handlers, pool
  <2>2. CASE Exit(Main, 1) /\ UNCHANGED main
    BY <1>3, <1>9, <2>1, <2>2 DEF ExitsOK
  <2>3. CASE UNCHANGED exits /\ main' = "copy_file"
    BY <1>2, <1>9, <2>1, <2>3 DEF exits
  <2> QED BY <1>9, <2>2, <2>3 DEF InitFiles
<1>10. CASE exiting[Main] = "no" /\ (CopyBlockDone \/ FilesReady)
  <2>1. CASE MainExits(0) /\ main = "copy_file"
    BY <1>3, <1>5, <1>10, <2>1 DEF MainExits, resources, pool
  <2> QED
    BY <1>2, <1>5, <1>6, <1>10, <2>1 DEF CopyBlockDone, FilesReady, resources, pool, exits
<1>11. CASE exiting[Main] = "no" /\ init_hmap
  <2>1. CASE UNCHANGED <<pool, exits>> /\ handlers' = <<"destroy_hmap">> \o handlers
             /\ main' = "tagdup_start"
    <3>1. handlers' \in Seq(Handlers)
      BY <1>5, <2>1 DEF Handlers
    <3> QED BY <1>2, <1>11, <2>1, <3>1 DEF exits, pool
  <2> QED BY <1>6, <1>11, <2>1 DEF init_hmap
<1>12. CASE exiting[Main] = "no" /\ (ConfigHmap \/ ConfigChunk \/ TagdupStart \/ CountChunk
            \/ ChunksCounted \/ TasksCounted \/ NextChunk \/ Populate \/ Populated)
  BY <1>2, <1>5, <1>6, <1>12
  DEF ConfigHmap, ConfigChunk, TagdupStart, CountChunk, ChunksCounted, TasksCounted, NextChunk,
      Populate, Populated, resources, pool, exits
<1>13. CASE exiting[Main] = "no" /\ (CreatePool \/ AddTask \/ ChunkDone \/ WaitReturns
            \/ DestroyHmap)
  BY <1>2, <1>5, <1>6, <1>13
  DEF CreatePool, AddTask, ChunkDone, WaitReturns, DestroyHmap, resources, pool, exits,
      Pool!Create, Pool!Add, Pool!Wait, Pool!WaitReturns, Pool!Destroy
<1>14. CASE exiting[Main] = "no" /\ (FcleanStart \/ RewriteBatch \/ Rewritten \/ Unmap \/ CleanedUp
            \/ stop_progressbar \/ Join)
  BY <1>2, <1>5, <1>6, <1>14
  DEF FcleanStart, RewriteBatch, Rewritten, Unmap, CleanedUp, stop_progressbar, Join, resources,
      pool, exits
<1>15. CASE exiting[Main] = "no" /\ DisplayReport
  BY <1>3, <1>5, <1>15 DEF DisplayReport, resources, pool
<1>16. CASE BarStep \/ Begin
  BY <1>2, <1>5, <1>16, BarKeeps
  DEF Begin, Pool!Begin, resources, pool, exits
<1>17. ASSUME NEW t \in Thread, ExitStep(t)
       PROVE  ExitsOK'
  <2>1. CASE PopHandler(t)
    <3>1. Head(handlers) \in Handlers /\ handlers' \in Seq(Handlers)
      BY <1>5, <2>1 DEF PopHandler
    <3> QED BY <1>4, <2>1, <3>1 DEF PopHandler, pool
  <2>2. CASE RunHandler(t)
    BY <1>4, <1>5, <2>2 DEF RunHandler, pool
  <2>3. CASE EndProcess(t)
    BY <1>2, <1>5, <2>3 DEF EndProcess, resources, pool
  <2> QED BY <1>17, <2>1, <2>2, <2>3 DEF ExitStep
<1>18. ASSUME NEW t \in Task, TaskStep(t)
       PROVE  ExitsOK'
  <2>1. t \in running /\ exiting[t] = "no"
    BY <1>18 DEF TaskStep
  <2>2. CASE Log(t) /\ Exit(t, 1)
    <3>1. /\ exiting' = [exiting EXCEPT ![t] = "next"] /\ failed' = failed \cup {t}
          /\ UNCHANGED <<handlers, main, running>>
      BY <2>2 DEF Log, Exit, resources, pool
    <3>2. /\ exiting' \in [Thread -> {"no", "next"} \cup Handlers] /\ exiting'[t] = "next"
          /\ \A u \in Thread : u # t => exiting'[u] = exiting[u]
      BY <1>1, <3>1 DEF ExitsOK
    <3> QED BY <1>1, <2>1, <3>1, <3>2 DEF ExitsOK
  <2>3. CASE Lookup(t) \/ Report(t) \/ (Log(t) /\ UNCHANGED exits)
    BY <1>2, <1>5, <2>3 DEF Lookup, Log, Report, resources, pool, exits
  <2>4. CASE TaskDone(t)
    <3>1. /\ UNCHANGED <<exiting, failed, handlers, main>> /\ running' = running \ {t}
      BY <2>4 DEF TaskDone, Pool!Finish, resources, exits
    <3> QED BY <2>1, <3>1 DEF ExitsOK
  <2> QED BY <1>18, <2>2, <2>3, <2>4 DEF TaskStep, Log
<1>19. CASE Ended
  BY <1>2, <1>5, <1>19 DEF Ended, vars, resources, pool, exits
<1> QED
  BY <1>7, <1>8, <1>9, <1>10, <1>11, <1>12, <1>13, <1>14, <1>15, <1>16, <1>17, <1>18, <1>19
  DEF Next, MainStep, Work, Exits

-----------------------------------------------------------------------------
(* The terminal                                                            *)

\* A handler that will restore the terminal is registered or being run.
Restoring ==
    \/ \E i \in 1 .. Len(handlers) : handlers[i] = "restore_termios"
    \/ \E t \in Thread : exiting[t] = "restore_termios"

TermOK ==
    /\ tio = "raw" => updated /\ Restoring
    /\ process = "exited" => handlers = << >> /\ \E t \in Thread : exiting[t] = "next"

\* The terminal is as found at first.
LEMMA InitTerm == Init => TermOK
BY DEF Init, TermOK

\* The terminal is changed together with the list of handlers; the handler is
\* taken off it by a thread that then runs it.
LEMMA TermStep ==
    ASSUME ExitsOK, TermOK, Next
    PROVE  TermOK'
<1>1. Main \in Thread /\ Task \subseteq Thread
  BY DEF Thread
<1>2. ASSUME UNCHANGED <<tio, updated, handlers, process>>, process = "runs",
             \A t \in Thread : exiting[t] = "restore_termios" => exiting'[t] = "restore_termios"
      PROVE  TermOK'
  BY <1>2 DEF TermOK, Restoring
<1>3. ASSUME UNCHANGED <<tio, updated, process>>, process = "runs", NEW h \in Handlers,
             handlers' = <<h>> \o handlers,
             \A t \in Thread : exiting[t] = "restore_termios" => exiting'[t] = "restore_termios"
      PROVE  TermOK'
  <2> SUFFICES ASSUME tio = "raw" PROVE Restoring'
    BY <1>3 DEF TermOK
  <2>1. CASE \E t \in Thread : exiting[t] = "restore_termios"
    BY <1>3, <2>1 DEF Restoring
  <2>2. CASE \E i \in 1 .. Len(handlers) : handlers[i] = "restore_termios"
    <3>1. PICK i \in 1 .. Len(handlers) : handlers[i] = "restore_termios"
      BY <2>2
    <3>2. handlers \in Seq(Handlers)
      BY DEF ExitsOK
    <3>3. i + 1 \in 1 .. Len(handlers') /\ handlers'[i + 1] = handlers[i]
      BY <1>3, <3>2
    <3> QED BY <3>1, <3>3 DEF Restoring
  <2> QED BY <2>1, <2>2 DEF TermOK, Restoring
<1>4. ASSUME NEW t \in Thread, exiting[t] = "no", NEW code, Exit(t, code)
      PROVE  \A u \in Thread : exiting[u] = "restore_termios" => exiting'[u] = "restore_termios"
  BY <1>4 DEF Exit, ExitsOK
<1>5. ASSUME process = "runs", exiting[Main] = "no", MainExits(0) \/ MainExits(1)
      PROVE  TermOK'
  BY <1>1, <1>2, <1>4, <1>5 DEF MainExits, Exit, resources, terminal
<1>6. CASE process = "runs" /\ exiting[Main] = "no" /\ start_progressbar
  <2>1. CASE Exit(Main, 1) /\ UNCHANGED <<handlers, terminal>>
    BY <1>1, <1>2, <1>4, <1>6, <2>1 DEF Exit, terminal
  <2>2. CASE UNCHANGED <<handlers, exits, terminal>>
    BY <1>2, <1>6, <2>2 DEF exits, terminal
  <2>3. CASE /\ tio' = "raw" /\ updated' = TRUE /\ UNCHANGED exits
             /\ handlers' = <<"restore_termios">> \o handlers
    <3>1. handlers \in Seq(Handlers)
      BY DEF ExitsOK
    <3>2. 1 \in 1 .. Len(handlers') /\ handlers'[1] = "restore_termios"
      BY <2>3, <3>1
    <3> QED BY <1>6, <2>3, <3>2 DEF TermOK, Restoring, exits
  <2> QED BY <1>6, <2>1, <2>2, <2>3 DEF start_progressbar
<1>7. CASE process = "runs" /\ exiting[Main] = "no" /\ InitFiles
  <2>1. CASE Exit(Main, 1)
    BY <1>1, <1>3, <1>4, <1>7, <2>1 DEF InitFiles, Exit, terminal, Handlers
  <2>2. CASE UNCHANGED exits
    BY <1>3, <1>7, <2>2 DEF InitFiles, exits, terminal, Handlers
  <2> QED BY <1>7, <2>1, <2>2 DEF InitFiles
<1>8. CASE process = "runs" /\ exiting[Main] = "no" /\ init_hmap
  <2>1. CASE UNCHANGED <<exits, terminal>> /\ handlers' = <<"destroy_hmap">> \o handlers
    BY <1>3, <1>8, <2>1 DEF exits, terminal, Handlers
  <2> QED BY <1>5, <1>8, <2>1 DEF init_hmap
<1>9. CASE process = "runs" /\ exiting[Main] = "no" /\ Join
  BY <1>9 DEF Join, restore_termios, resources, terminal, TermOK, Restoring
<1>10. CASE process = "runs" /\ exiting[Main] = "no" /\ DisplayReport
  BY <1>1, <1>2, <1>4, <1>10 DEF DisplayReport, Exit, resources, terminal
<1>11. CASE process = "runs" /\ exiting[Main] = "no" /\ (OptParse \/ OptParsed \/ CopyBlockDone
            \/ FilesReady \/ ConfigHmap \/ ConfigChunk)
  BY <1>2, <1>5, <1>11
  DEF OptParse, OptParsed, CopyBlockDone, FilesReady, ConfigHmap, ConfigChunk, resources,
      exits, terminal
<1>12. CASE process = "runs" /\ exiting[Main] = "no" /\ (TagdupStart \/ CountChunk
            \/ ChunksCounted \/ TasksCounted \/ NextChunk \/ Populate \/ Populated \/ CreatePool
            \/ AddTask)
  BY <1>2, <1>5, <1>12
  DEF TagdupStart, CountChunk, ChunksCounted, TasksCounted, NextChunk, Populate, Populated,
      CreatePool, AddTask, resources, exits, terminal
<1>13. CASE process = "runs" /\ exiting[Main] = "no" /\ (ChunkDone \/ WaitReturns \/ DestroyHmap
            \/ FcleanStart \/ RewriteBatch \/ Rewritten \/ Unmap \/ CleanedUp \/ stop_progressbar)
  BY <1>2, <1>5, <1>13
  DEF ChunkDone, WaitReturns, DestroyHmap, FcleanStart, RewriteBatch, Rewritten, Unmap, CleanedUp,
      stop_progressbar, resources, exits, terminal
<1>14. CASE process = "runs" /\ (BarStep \/ Begin)
  BY <1>2, <1>14, BarKeeps DEF Begin, resources, exits, terminal
<1>15. ASSUME process = "runs", NEW t \in Thread, ExitStep(t)
       PROVE  TermOK'
  <2>1. CASE PopHandler(t)
    <3>1. /\ exiting[t] = "next" /\ handlers # << >>
          /\ exiting' = [exiting EXCEPT ![t] = Head(handlers)] /\ handlers' = Tail(handlers)
          /\ UNCHANGED <<tio, updated, process>>
      BY <2>1 DEF PopHandler, terminal
    <3> SUFFICES ASSUME tio = "raw" PROVE Restoring'
      BY <1>15, <3>1 DEF TermOK
    <3>2. exiting \in [Thread -> {"no", "next"} \cup Handlers] /\ handlers \in Seq(Handlers)
      BY DEF ExitsOK
    <3>3. CASE \E u \in Thread : exiting[u] = "restore_termios"
      BY <3>1, <3>2, <3>3 DEF Restoring
    <3>4. ASSUME NEW i \in 1 .. Len(handlers), handlers[i] = "restore_termios"
          PROVE  Restoring'
      <4>1. CASE i = 1
        <5>1. exiting'[t] = "restore_termios"
          BY <3>1, <3>2, <3>4, <4>1
        <5> QED BY <5>1 DEF Restoring
      <4>2. CASE i # 1
        <5>1. i - 1 \in 1 .. Len(handlers') /\ handlers'[i - 1] = "restore_termios"
          BY <3>1, <3>2, <3>4, <4>2
        <5> QED BY <5>1 DEF Restoring
      <4> QED BY <4>1, <4>2
    <3> QED BY <3>3, <3>4 DEF TermOK, Restoring
  <2>2. CASE RunHandler(t)
    <3>1. CASE exiting[t] = "restore_termios" /\ restore_termios
      BY <1>15, <2>2, <3>1 DEF restore_termios, TermOK, RunHandler
    <3>2. CASE exiting[t] # "restore_termios" /\ UNCHANGED terminal
      <4>1. \A u \in Thread : exiting[u] = "restore_termios" => exiting'[u] = "restore_termios"
        BY <2>2, <3>2 DEF RunHandler, ExitsOK
      <4> QED BY <1>2, <1>15, <2>2, <3>2, <4>1 DEF RunHandler, terminal
    <3> QED BY <2>2, <3>1, <3>2 DEF RunHandler
  <2>3. CASE EndProcess(t)
    BY <2>3 DEF EndProcess, resources, terminal, TermOK, Restoring
  <2> QED BY <1>15, <2>1, <2>2, <2>3 DEF ExitStep
<1>16. ASSUME process = "runs", NEW t \in Task, TaskStep(t)
       PROVE  TermOK'
  <2>1. CASE Exit(t, 1) /\ exiting[t] = "no" /\ UNCHANGED <<handlers, terminal>>
    BY <1>1, <1>2, <1>4, <1>16, <2>1 DEF Exit, terminal
  <2>2. CASE Lookup(t)
    BY <1>16, <2>2 DEF Lookup, resources, terminal, TermOK, Restoring
  <2>3. CASE UNCHANGED <<handlers, exits, terminal>>
    BY <1>2, <1>16, <2>3 DEF exits, terminal
  <2> QED
    BY <1>16, <2>1, <2>2, <2>3 DEF TaskStep, Log, Report, TaskDone, resources
<1>17. CASE Ended
  BY <1>17 DEF Ended, vars, resources, exits, terminal, TermOK, Restoring
<1> QED
  BY <1>6, <1>7, <1>8, <1>9, <1>10, <1>11, <1>12, <1>13, <1>14, <1>15, <1>16, <1>17
  DEF Next, MainStep, Work, Exits

\* The process ends in a thread that has run all the handlers; if no other
\* thread is in exit(), none of them is under way.
LEMMA TerminalRestoredOK ==
    ASSUME ExitsOK, TermOK, tio \in {"cooked", "raw"}
    PROVE  TerminalRestored
<1> SUFFICES ASSUME process = "exited", Cardinality(Exiters) = 1, tio = "raw" PROVE FALSE
  BY DEF TerminalRestored
<1>1. PICK t \in Thread : exiting[t] = "next"
  BY DEF TermOK
<1>2. PICK u \in Thread : exiting[u] = "restore_termios"
  <2>1. Len(handlers) = 0
    BY DEF TermOK
  <2> QED BY <2>1 DEF TermOK, Restoring
<1>3. IsFiniteSet(Exiters)
  <2>1. IsFiniteSet(Chunk)
    BY FS_Interval, SessionAssumption DEF Chunk
  <2>2. IsFiniteSet(Chunk \X Chunk)
    BY <2>1, FS_Product
  <2>3. Task \subseteq Chunk \X Chunk
    BY DEF Task
  <2>4. IsFiniteSet(Task)
    BY <2>2, <2>3, FS_Subset
  <2>5. IsFiniteSet({Main})
    BY FS_Singleton
  <2>6. IsFiniteSet(Thread)
    BY <2>4, <2>5, FS_Union DEF Thread
  <2>7. Exiters \subseteq Thread
    BY DEF Exiters
  <2> QED BY <2>6, <2>7, FS_Subset
<1>4. PICK x : Exiters = {x}
  BY <1>3, FS_Singleton
<1>5. t \in Exiters /\ u \in Exiters
  BY <1>1, <1>2 DEF Exiters
<1> QED BY <1>1, <1>2, <1>4, <1>5

-----------------------------------------------------------------------------
(* The table and the mapping                                               *)

Sized == {"config", "config_chunk_size", "init_hmap"}
WithTable == {"tagdup_start"} \cup Counting \cup InRounds

ResOK ==
    /\ main \in Sized \cup WithTable => mapped
    /\ main \in WithTable => table = "live" \/ failed # {}

\* There is neither at first.
LEMMA InitRes == Init => ResOK
BY DEF Init, ResOK, Sized, WithTable, Counting, InRounds

\* The file is mapped before the first size is computed and until the last
\* round is over; the table can only be freed earlier by a thread in exit().
LEMMA ResStep ==
    ASSUME ExitsOK, ResOK, Next
    PROVE  ResOK'
<1>1. ASSUME mapped => mapped', table' = table, failed \subseteq failed',
             \/ main' = main
             \/ main' \notin Sized \cup WithTable
             \/ main \in Sized /\ main' \in Sized
             \/ main \in WithTable /\ main' \in WithTable
      PROVE  ResOK'
  BY <1>1 DEF ResOK, Sized, WithTable, Counting, InRounds
<1>2. ASSUME MainExits(0) \/ MainExits(1)
      PROVE  ResOK'
  BY <1>1, <1>2 DEF MainExits, Exit, resources
<1>3. CASE OptParse \/ OptParsed \/ start_progressbar \/ InitFiles \/ CopyBlockDone
  BY <1>1, <1>2, <1>3
  DEF OptParse, OptParsed, start_progressbar, InitFiles, CopyBlockDone, Exit, resources, exits,
      Sized, WithTable, Counting, InRounds
<1>4. CASE FilesReady
  <2>1. CASE main' = "config" /\ mapped'
    BY <2>1 DEF ResOK, WithTable, Counting, InRounds
  <2> QED BY <1>2, <1>4, <2>1 DEF FilesReady
<1>5. CASE ConfigHmap \/ ConfigChunk
  BY <1>1, <1>2, <1>5 DEF ConfigHmap, ConfigChunk, resources, exits, Sized
<1>6. CASE init_hmap
  <2>1. CASE main = "init_hmap" /\ table' = "live" /\ mapped' = mapped
    BY <2>1 DEF ResOK, Sized
  <2> QED BY <1>2, <1>6, <2>1 DEF init_hmap
<1>7. CASE TagdupStart \/ CountChunk \/ ChunksCounted \/ TasksCounted \/ NextChunk \/ Populate
           \/ Populated \/ CreatePool
  BY <1>1, <1>2, <1>7
  DEF TagdupStart, CountChunk, ChunksCounted, TasksCounted, NextChunk, Populate, Populated,
      CreatePool, resources, exits, WithTable, Counting, InRounds
<1>8. CASE AddTask \/ ChunkDone \/ WaitReturns \/ DestroyHmap
  BY <1>1, <1>2, <1>8
  DEF AddTask, ChunkDone, WaitReturns, DestroyHmap, ResOK, resources, exits, Sized, WithTable,
      Counting, InRounds
<1>9. CASE FcleanStart \/ RewriteBatch \/ Rewritten \/ Unmap \/ CleanedUp \/ stop_progressbar
           \/ Join \/ DisplayReport
  BY <1>1, <1>2, <1>9
  DEF FcleanStart, RewriteBatch, Rewritten, Unmap, CleanedUp, stop_progressbar, Join,
      DisplayReport, MainExits, ResOK, Exit, resources, exits, Sized, WithTable, Counting,
      InRounds
<1>10. CASE BarStep \/ Begin
  BY <1>1, <1>10, BarKeeps DEF Begin, resources, exits
<1>11. ASSUME NEW t \in Thread, ExitStep(t)
       PROVE  ResOK'
  <2>1. CASE table' = table
    BY <1>1, <1>11, <2>1 DEF ExitStep, PopHandler, RunHandler, EndProcess, resources
  <2>2. CASE RunHandler(t) /\ exiting[t] = "destroy_hmap"
    <3>1. failed # {} \/ main \in {"optparse", "copy_file", "returned"}
      BY <2>2, MainAssumption DEF ExitsOK, Thread
    <3> QED BY <2>2, <3>1 DEF RunHandler, ResOK, Sized, WithTable, Counting, InRounds
  <2> QED
    BY <1>11, <2>1, <2>2 DEF ExitStep, PopHandler, RunHandler, EndProcess, resources
<1>12. ASSUME NEW t \in Task, TaskStep(t)
       PROVE  ResOK'
  BY <1>1, <1>12 DEF TaskStep, Lookup, Log, Report, TaskDone, Exit, resources, exits
<1>13. CASE Ended
  BY <1>1, <1>13 DEF Ended, vars, resources, exits
<1> QED
  BY <1>3, <1>4, <1>5, <1>6, <1>7, <1>8, <1>9, <1>10, <1>11, <1>12, <1>13
  DEF Next, MainStep, Work, Exits

-----------------------------------------------------------------------------
(* The other variables                                                     *)

WorkType == [Task -> {"lookup", "log", "report", "done"}]

RestOK ==
    /\ process \in {"runs", "exited", "crashed"} /\ exitcode \in {0, 1}
    /\ main \in Places
    /\ work \in WorkType
    /\ table \in {"none", "live", "freed"} /\ mapped \in BOOLEAN /\ closed \in BOOLEAN
    /\ tio \in {"cooked", "raw"} /\ updated \in BOOLEAN
    /\ pbar_id \in {"none", "thread", "dangling"}
    /\ bar \in {"none", "loop", "tagdup", "ratio", "text", "counters", "chunk", "ctask", "print",
                "ended"}
    /\ todo \subseteq Counter /\ cur \in [Counter -> Nat]

\* They have their types at first.
LEMMA InitRest == Init => RestOK
<1> SUFFICES ASSUME Init PROVE RestOK
  OBVIOUS
<1>1. todo \subseteq Counter /\ cur \in [Counter -> Nat]
  BY DEF Init
<1>2. work \in WorkType
  BY DEF Init, WorkType
<1> QED BY <1>1, <1>2 DEF Init, RestOK, Places

\* And keep them.
LEMMA RestStep ==
    ASSUME RestOK, status \in StatusType, Next
    PROVE  RestOK'
<1>1. ASSUME UNCHANGED <<exits, work, resources, terminal, pbar>>, main' \in Places
      PROVE  RestOK'
  BY <1>1 DEF RestOK, exits, resources, terminal, pbar, progress
<1>2. ASSUME MainExits(0) \/ MainExits(1)
      PROVE  RestOK'
  BY <1>2 DEF MainExits, Exit, RestOK, resources, terminal, pbar, progress
<1>3. CASE OptParse \/ OptParsed
  BY <1>1, <1>2, <1>3 DEF OptParse, OptParsed, RestOK, Places
<1>4. CASE start_progressbar \/ InitFiles
  BY <1>4
  DEF start_progressbar, InitFiles, Exit, RestOK, Places, exits, resources, terminal, pbar, progress
<1>5. CASE FilesReady
  <2>1. CASE mapped' = TRUE /\ main' = "config"
             /\ UNCHANGED <<work, table, closed, exits, terminal, pbar>>
    BY <2>1 DEF RestOK, Places, exits, terminal, pbar, progress
  <2> QED BY <1>2, <1>5, <2>1 DEF FilesReady
<1>6. CASE CopyBlockDone \/ ConfigHmap \/ ConfigChunk
  BY <1>1, <1>2, <1>6 DEF CopyBlockDone, ConfigHmap, ConfigChunk, RestOK, Places
<1>7. CASE init_hmap
  <2>1. CASE table' = "live" /\ main' = "tagdup_start"
             /\ UNCHANGED <<work, mapped, closed, exits, terminal, pbar>>
    BY <2>1 DEF RestOK, Places, exits, terminal, pbar, progress
  <2> QED BY <1>2, <1>7, <2>1 DEF init_hmap
<1>8. CASE TagdupStart \/ CountChunk \/ ChunksCounted \/ TasksCounted \/ NextChunk \/ Populate
           \/ Populated
  BY <1>1, <1>2, <1>8
  DEF TagdupStart, CountChunk, ChunksCounted, TasksCounted, NextChunk, Populate, Populated,
      RestOK, Places
<1>9. CASE CreatePool \/ AddTask \/ ChunkDone \/ WaitReturns
  BY <1>1, <1>2, <1>9 DEF CreatePool, AddTask, ChunkDone, WaitReturns, RestOK, Places
<1>10. CASE DestroyHmap
  BY <1>10 DEF DestroyHmap, RestOK, Places, exits, resources, terminal, pbar, progress
<1>11. CASE FcleanStart \/ RewriteBatch \/ Rewritten
  BY <1>1, <1>11 DEF FcleanStart, RewriteBatch, Rewritten, RestOK, Places
<1>12. CASE Unmap \/ CleanedUp
  <2>1. CASE ~ MainExits(1)
    BY <1>12, <2>1 DEF Unmap, CleanedUp, RestOK, Places, exits, resources, terminal, pbar, progress
  <2> QED BY <1>2, <2>1
<1>13. CASE stop_progressbar \/ Join \/ DisplayReport
  BY <1>13
  DEF stop_progressbar, Join, DisplayReport, restore_termios, Exit, RestOK, Places, exits,
      resources, terminal, pbar, progress
<1>14. CASE BarStep
  <2>1. /\ bar' \in {"none", "loop", "tagdup", "ratio", "text", "counters", "chunk", "ctask",
                     "print", "ended"}
        /\ todo' \subseteq Counter
    BY <1>14
    DEF BarStep, BarRead, BarTagdup, BarRatio, BarText, BarPrint, BarFirst, BarSecond, Displayed,
        RestOK, Counter
  <2>2. cur' \in [Counter -> Nat]
    <3>1. CASE cur' = cur \/ cur' = [c \in Counter |-> 0]
      BY <3>1 DEF RestOK
    <3>2. ASSUME NEW c \in Counter, BarFirst(c) \/ BarSecond(c)
          PROVE  cur' \in [Counter -> Nat]
      <4>1. Done(c) \in Nat /\ cur[c] \in Nat
        BY DEF Done, StatusType, RestOK
      <4>2. \E x \in Nat : cur' = [cur EXCEPT ![c] = x]
        BY <3>2, <4>1 DEF BarFirst, BarSecond
      <4> QED BY <4>2 DEF RestOK
    <3> QED
      BY <1>14, <3>1, <3>2
      DEF BarStep, BarRead, BarTagdup, BarRatio, BarText, BarPrint, Displayed
  <2> QED BY <1>14, <2>1, <2>2, BarKeeps DEF RestOK
<1>15. CASE Begin
  BY <1>1, <1>15 DEF Begin, RestOK
<1>16. ASSUME NEW t \in Thread, ExitStep(t)
       PROVE  RestOK'
  BY <1>16
  DEF ExitStep, PopHandler, RunHandler, EndProcess, restore_termios, RestOK, resources, terminal,
      pbar, progress
<1>17. ASSUME NEW t \in Task, TaskStep(t)
       PROVE  RestOK'
  <2>1. work' \in WorkType
    BY <1>17 DEF TaskStep, Lookup, Log, Report, TaskDone, RestOK, WorkType
  <2> QED
    BY <1>17, <2>1
    DEF TaskStep, Lookup, Log, Report, TaskDone, Exit, RestOK, exits, resources, terminal, pbar,
        progress
<1>18. CASE Ended
  BY <1>1, <1>18 DEF Ended, vars, RestOK
<1> QED
  BY <1>3, <1>4, <1>5, <1>6, <1>7, <1>8, <1>9, <1>10, <1>11, <1>12, <1>13, <1>14, <1>15, <1>16,
     <1>17, <1>18
  DEF Next, MainStep, Work, Exits

-----------------------------------------------------------------------------
(* The inductive invariant, and what follows from it                       *)

IInv ==
    /\ ConfOK /\ EndsOK /\ PoolOK /\ status \in StatusType /\ CountsOK
    /\ ExitsOK /\ TermOK /\ ResOK /\ RestOK

\* It holds in every reachable state.
LEMMA Inductive == Spec => []IInv
<1>1. Init => IInv
  BY InitConf, InitEnds, InitPool, InitStatus, InitCounts, InitExits, InitTerm, InitRes, InitRest
  DEF IInv
<1>2. IInv /\ [Next]_vars => IInv'
  <2>1. ASSUME IInv, Next
        PROVE  IInv'
    <3>1. ConfOK' /\ EndsOK' /\ PoolOK'
      BY <2>1, ConfStep, EndsStep, PoolStep DEF IInv
    <3>2. (status \in StatusType)' /\ CountsOK'
      BY <2>1, StatusStep, CountsStep DEF IInv
    <3>3. ExitsOK' /\ TermOK' /\ ResOK' /\ RestOK'
      BY <2>1, ExitsStep, TermStep, ResStep, RestStep DEF IInv
    <3> QED BY <3>1, <3>2, <3>3 DEF IInv
  <2>2. ASSUME IInv, UNCHANGED vars
        PROVE  IInv'
    <3>1. UNCHANGED <<args, conf, input, memory, main, ends, mainChunk, subChunk, work, pending,
                      running, client, status, table, mapped, closed, handlers, exiting, failed,
                      process, exitcode, tio, updated, pbar_id, bar, todo, cur>>
      BY <2>2
      DEF vars, setup, rounds, pool, resources, exits, terminal, pbar, progress
    <3>2. ConfOK' /\ EndsOK'
      <4>1. UNCHANGED <<Available, NumChunks, Remaining>> /\ \A k : EndOf(k)' = EndOf(k)
        BY <3>1 DEF Available, NumChunks, Remaining, EndOf
      <4> QED BY <2>2, <3>1, <4>1 DEF IInv, ConfOK, EndsOK
    <3>3. PoolOK' /\ CountsOK' /\ (status \in StatusType)'
      <4>1. UNCHANGED <<NumChunks, InTasks, Pairs(mainChunk), Pairs(mainChunk - 1)>>
        BY <3>1 DEF NumChunks, InTasks, Pairs
      <4> QED BY <2>2, <3>1, <4>1 DEF IInv, PoolOK, CountsOK
    <3>4. ExitsOK' /\ TermOK' /\ ResOK' /\ RestOK'
      BY <2>2, <3>1 DEF IInv, ExitsOK, TermOK, Restoring, ResOK, RestOK
    <3> QED BY <3>2, <3>3, <3>4 DEF IInv
  <2> QED BY <2>1, <2>2
<1> QED BY <1>1, <1>2, PTL DEF Spec

(***************************************************************************)
(* Every variable keeps its type in a run of the program: no counter of    *)
(* status.c becomes negative but the one whose type is too small, no       *)
(* cursor leaves the chunks.                                               *)
(***************************************************************************)
THEOREM SessionTypeCorrect == Spec => []TypeOK
<1>1. IInv => TypeOK
  <2> SUFFICES ASSUME IInv PROVE TypeOK
    OBVIOUS
  <2>1. /\ status.total_ctasks \in Int /\ status.file_size \in Nat /\ status.fcopy_bytes \in Nat
        /\ status.total_chunks \in Nat /\ status.done_chunks \in Nat
        /\ status.done_ctasks \in Nat /\ status.chunk_size \in Nat
        /\ status.tagdup_bytes \in Nat /\ status.fclean_bytes \in Nat
    BY DEF IInv, StatusType
  <2>2. /\ ends \in Seq(Nat) /\ mainChunk \in 0 .. NumChunks /\ subChunk \in 0 .. NumChunks
        /\ running \subseteq Task
    BY DEF IInv, EndsOK, PoolOK
  <2>3. /\ exiting \in [Thread -> {"no", "next", "destroy_hmap", "close_all", "restore_termios"}]
        /\ failed \subseteq Thread
    <3>1. {"no", "next"} \cup Handlers =
              {"no", "next", "destroy_hmap", "close_all", "restore_termios"}
      BY DEF Handlers
    <3> QED BY <3>1 DEF IInv, ExitsOK
  <2> QED BY <2>1, <2>2, <2>3 DEF IInv, RestOK, WorkType, TypeOK
<1> QED BY <1>1, Inductive, PTL

(***************************************************************************)
(* The terminal gets its echo back however the program ends, unless two    *)
(* threads were in exit() at once: wherever a thread of it failed, the     *)
(* handler is still registered or is being run, and exit() ends the        *)
(* process only when none is left.                                         *)
(***************************************************************************)
THEOREM TerminalIsRestored == Spec => []TerminalRestored
<1>1. IInv => TerminalRestored
  BY TerminalRestoredOK DEF IInv, RestOK
<1> QED BY <1>1, Inductive, PTL

(***************************************************************************)
(* A failure is final: no rewriting and no success after error(), and all  *)
(* n(n+1)/2 tasks are counted before the rewriting begins.                 *)
(***************************************************************************)
THEOREM FailuresAreFinal == Spec => []FailureIsFinal
<1>1. IInv => FailureIsFinal
  <2> SUFFICES ASSUME IInv, main \in Delivering PROVE FailureIsFinal
    BY DEF FailureIsFinal
  <2>1. PICK n \in Nat : n = NumChunks
    BY DEF IInv, EndsOK, NumChunks
  <2>2. mainChunk = n /\ running = {}
    BY <2>1 DEF IInv, PoolOK, InTasks, Delivering
  <2>3. 2 * status.done_ctasks = n * (n + 1) /\ status.done_chunks = n
    <3>1. 2 * status.done_ctasks = Pairs(mainChunk) /\ status.done_chunks = mainChunk
      BY DEF IInv, CountsOK
    <3> QED BY <2>1, <2>2, <3>1, PairsNext
  <2>4. failed \subseteq {Main} /\ (main = "returned" => Main \notin failed)
    BY <2>2 DEF IInv, ExitsOK, Thread
  <2> QED BY <2>1, <2>3, <2>4 DEF FailureIsFinal
<1> QED BY <1>1, Inductive, PTL

(***************************************************************************)
(* The table and the mapping outlive the tasks that use them, unless a     *)
(* thread failed and exit() is taking the program down.                    *)
(***************************************************************************)
THEOREM TableLivesLongEnough == Spec => []TableOutlivesTasks
<1>1. IInv => TableOutlivesTasks
  <2> SUFFICES ASSUME IInv, running # {} \/ pending # << >> PROVE TableOutlivesTasks
    BY DEF TableOutlivesTasks
  <2>1. InTasks
    BY DEF IInv, PoolOK
  <2> QED BY <2>1 DEF IInv, InTasks, ResOK, WithTable, InRounds, TableOutlivesTasks
<1> QED BY <1>1, Inductive, PTL

(***************************************************************************)
(* The sizes that config() computes fit the memory, the file and each      *)
(* other, whatever options were given: a prime number of slots in half of  *)
(* the memory, and a chunk that leaves slots free.                         *)
(***************************************************************************)
THEOREM SizesAlwaysFit == Spec => []SizesFit
<1>1. IInv => SizesFit
  BY SizesFitOK DEF IInv
<1> QED BY <1>1, Inductive, PTL


-----------------------------------------------------------------------------
(* The progress: how many bytes are reported                               *)

\* What the reports of the chunks of R come to, told by the sums up to each
\* chunk.
Reports(R, b) ==
    \E sum \in [0 .. NumChunks -> Nat] :
        /\ sum[0] = 0 /\ sum[NumChunks] = b
        /\ \A j \in 1 .. NumChunks : sum[j] <= sum[j - 1] + (IF j \in R THEN BytesOf(j) ELSE 0)

\* At first nothing is reported.
LEMMA NoReports ==
    ASSUME EndsOK
    PROVE  Reports({}, 0)
<1>1. PICK n \in Nat : n = NumChunks
  BY DEF EndsOK, NumChunks
<1> DEFINE sum == [j \in 0 .. n |-> 0]
<1>2. /\ sum \in [0 .. n -> Nat] /\ sum[0] = 0 /\ sum[n] = 0
      /\ \A j \in 1 .. n : sum[j] <= sum[j - 1] + 0
  OBVIOUS
<1> HIDE DEF sum
<1> QED BY <1>1, <1>2 DEF Reports

\* One more chunk is reported.
LEMMA ReportAdds ==
    ASSUME ConfOK, EndsOK, NEW R, NEW b \in Nat, Reports(R, b),
           NEW i \in 1 .. NumChunks, i \notin R, BytesOf(i) \in Nat
    PROVE  Reports(R \cup {i}, b + BytesOf(i))
<1>1. PICK n \in Nat : n = NumChunks
  BY DEF EndsOK, NumChunks
<1>2. PICK sum \in [0 .. n -> Nat] :
          /\ sum[0] = 0 /\ sum[n] = b
          /\ \A j \in 1 .. n : sum[j] <= sum[j - 1] + (IF j \in R THEN BytesOf(j) ELSE 0)
  BY <1>1 DEF Reports
<1>3. PICK x \in Nat : x = BytesOf(i)
  OBVIOUS
<1> DEFINE more == [j \in 0 .. n |-> IF j < i THEN sum[j] ELSE sum[j] + x]
<1>4. i \in 1 .. n /\ i \in Nat
  BY <1>1
<1>5. /\ more \in [0 .. n -> Nat] /\ more[0] = 0 /\ more[n] = b + x
      /\ \A j \in 0 .. n : more[j] = IF j < i THEN sum[j] ELSE sum[j] + x
  BY <1>2, <1>4
<1> HIDE DEF more
<1>6. ASSUME NEW j \in 1 .. n
      PROVE  more[j] <= more[j - 1] + (IF j \in R \cup {i} THEN BytesOf(j) ELSE 0)
  <2>1. j \in 0 .. n /\ j - 1 \in 0 .. n /\ sum[j] \in Nat /\ sum[j - 1] \in Nat
    BY <1>2
  <2>2. sum[j] <= sum[j - 1] + (IF j \in R THEN BytesOf(j) ELSE 0)
    BY <1>2
  <2>3. CASE j = i
    <3>1. sum[j] <= sum[j - 1] /\ j - 1 < i /\ ~ (j < i)
      BY <1>4, <2>1, <2>2, <2>3
    <3>2. more[j] = sum[j] + x /\ more[j - 1] = sum[j - 1]
      BY <1>5, <2>1, <3>1
    <3> QED BY <1>3, <2>1, <2>3, <3>1, <3>2
  <2>4. CASE j < i
    <3>1. j - 1 < i /\ j # i
      BY <1>4, <2>1, <2>4
    <3>2. more[j] = sum[j] /\ more[j - 1] = sum[j - 1]
      BY <1>5, <2>1, <2>4, <3>1
    <3> QED BY <2>2, <3>1, <3>2
  <2>5. CASE i < j
    <3>1. ~ (j < i) /\ ~ (j - 1 < i) /\ j # i
      BY <1>4, <2>1, <2>5
    <3>2. more[j] = sum[j] + x /\ more[j - 1] = sum[j - 1] + x
      BY <1>5, <2>1, <3>1
    <3>3. CASE j \in R
      <4>1. sum[j] <= sum[j - 1] + BytesOf(j) /\ j \in R \cup {i}
        BY <2>2, <3>3
      <4>2. BytesOf(j) \in Int
        <5>1. \A k \in 0 .. n : EndOf(k) \in Nat
          BY <1>1 DEF EndOf, EndsOK, NumChunks
        <5>2. input.tail \in Nat
          BY SessionAssumption DEF ConfOK
        <5>3. EndOf(j) \in Nat /\ EndOf(j - 1) \in Nat
          BY <2>1, <5>1
        <5> QED BY <5>2, <5>3 DEF BytesOf
      <4> QED BY <1>3, <2>1, <3>2, <4>1, <4>2
    <3>4. CASE j \notin R
      BY <1>3, <2>1, <2>2, <3>1, <3>2, <3>4
    <3> QED BY <3>3, <3>4
  <2> QED BY <1>4, <2>1, <2>3, <2>4, <2>5
<1> QED BY <1>1, <1>3, <1>5, <1>6 DEF Reports

\* The chunks of a round come to no more than what is left of the file.
LEMMA ReportsBounded ==
    ASSUME ConfOK, EndsOK, NEW k \in 1 .. NumChunks, NEW R, R \subseteq k .. NumChunks,
           NEW b \in Nat, Reports(R, b)
    PROVE  b <= EndOf(NumChunks) - EndOf(k - 1)
<1>1. PICK n \in Nat : n = NumChunks
  BY DEF EndsOK, NumChunks
<1>2. PICK sum \in [0 .. n -> Nat] :
          /\ sum[0] = 0 /\ sum[n] = b
          /\ \A j \in 1 .. n : sum[j] <= sum[j - 1] + (IF j \in R THEN BytesOf(j) ELSE 0)
  BY <1>1 DEF Reports
<1>3. \A j \in 0 .. n : EndOf(j) \in Nat
  BY <1>1 DEF EndOf, EndsOK, NumChunks
<1>4. \A j \in 1 .. n : EndOf(j - 1) <= EndOf(j) /\ BytesOf(j) <= EndOf(j) - EndOf(j - 1)
  <2> SUFFICES ASSUME NEW j \in 1 .. n
               PROVE  EndOf(j - 1) <= EndOf(j) /\ BytesOf(j) <= EndOf(j) - EndOf(j - 1)
    OBVIOUS
  <2>1. EndOf(j) \in Nat /\ EndOf(j - 1) \in Nat /\ j # 0
    BY <1>3
  <2>2. EndOf(j - 1) <= EndOf(j)
    BY <1>1, <2>1 DEF EndsOK, EndOf
  <2>3. input.tail \in Nat
    BY SessionAssumption DEF ConfOK
  <2>4. BytesOf(j) = EndOf(j) - EndOf(j - 1) - (IF j = NumChunks THEN input.tail ELSE 0)
    BY DEF BytesOf
  <2> QED BY <2>1, <2>2, <2>3, <2>4
<1>5. k \in 1 .. n /\ k - 1 \in 0 .. n
  BY <1>1
<1> DEFINE limit(j) == IF j < k THEN 0 ELSE EndOf(j) - EndOf(k - 1)
           Wrong == {j \in 0 .. n : ~ (sum[j] <= limit(j))}
<1>6. CASE Wrong = {}
  <2>1. n \in 0 .. n /\ ~ (n < k)
    BY <1>5
  <2>2. sum[n] <= limit(n)
    BY <1>6, <2>1
  <2> QED BY <1>1, <1>2, <2>1, <2>2
<1>7. CASE Wrong # {}
  <2>1. PICK j \in Wrong : \A i \in Wrong : j <= i
    <3>1. Wrong \subseteq Nat
      OBVIOUS
    <3>2. PICK j \in Wrong : \A i \in Wrong : ~ (<<i, j>> \in OpToRel(<, Nat))
      BY <1>7, <3>1, NatLessThanWellFounded, WFMin
    <3> HIDE DEF Wrong
    <3>3. \A i, m \in Nat : m <= i \/ <<i, m>> \in OpToRel(<, Nat)
      BY DEF OpToRel
    <3> QED BY <3>1, <3>2, <3>3
  <2>2. j \in 0 .. n /\ ~ (sum[j] <= limit(j))
    BY <2>1
  <2>3. j # 0
    BY <1>2, <1>5, <2>2
  <2>4. j \in 1 .. n /\ j - 1 \in 0 .. n /\ ~ (j <= j - 1)
    BY <2>2, <2>3
  <2>5. sum[j - 1] <= limit(j - 1)
    BY <2>1, <2>4
  <2>6. sum[j] <= sum[j - 1] + (IF j \in R THEN BytesOf(j) ELSE 0)
        /\ sum[j] \in Nat /\ sum[j - 1] \in Nat
    BY <1>2, <2>4
  <2>7. EndOf(j - 1) <= EndOf(j) /\ BytesOf(j) <= EndOf(j) - EndOf(j - 1)
        /\ EndOf(j) \in Nat /\ EndOf(j - 1) \in Nat /\ EndOf(k - 1) \in Nat
    BY <1>3, <1>4, <1>5, <2>4
  <2>8. BytesOf(j) \in Int
    <3>1. input.tail \in Nat
      BY SessionAssumption DEF ConfOK
    <3>2. BytesOf(j) = EndOf(j) - EndOf(j - 1) - (IF j = NumChunks THEN input.tail ELSE 0)
      BY DEF BytesOf
    <3>3. EndOf(j) - EndOf(j - 1) \in Int
      BY <2>7
    <3> QED BY <3>1, <3>2, <3>3
  <2>9. CASE j < k
    <3>1. j \notin R /\ j - 1 < k
      BY <1>1, <1>5, <2>4, <2>9
    <3> QED BY <2>2, <2>5, <2>6, <2>9, <3>1
  <2>10. CASE j = k
    <3>1. limit(j - 1) = 0 /\ limit(j) = EndOf(j) - EndOf(j - 1)
      BY <1>5, <2>4, <2>10
    <3>2. sum[j - 1] <= 0 /\ ~ (sum[j] <= EndOf(j) - EndOf(j - 1))
      BY <2>2, <2>5, <3>1
    <3>3. sum[j] <= sum[j - 1] + BytesOf(j) \/ sum[j] <= sum[j - 1] + 0
      BY <2>6
    <3>4. PICK x \in Int, y \in Int, z \in Int : x = sum[j] /\ y = sum[j - 1] /\ z = BytesOf(j)
      BY <2>6, <2>8
    <3>5. PICK e \in Int, d \in Int : e = EndOf(j) /\ d = EndOf(j - 1)
      BY <2>7
    <3> HIDE DEF limit, Wrong
    <3>6. /\ y <= 0 /\ ~ (x <= e - d) /\ (x <= y + z \/ x <= y)
          /\ d <= e /\ z <= e - d
      BY <2>7, <3>2, <3>3, <3>4, <3>5
    <3> QED BY <3>6
  <2>11. CASE k < j
    <3>1. limit(j - 1) = EndOf(j - 1) - EndOf(k - 1) /\ limit(j) = EndOf(j) - EndOf(k - 1)
      BY <1>5, <2>4, <2>11
    <3>2. /\ sum[j - 1] <= EndOf(j - 1) - EndOf(k - 1)
          /\ ~ (sum[j] <= EndOf(j) - EndOf(k - 1))
      BY <2>2, <2>5, <3>1
    <3>3. sum[j] <= sum[j - 1] + BytesOf(j) \/ sum[j] <= sum[j - 1] + 0
      BY <2>6
    <3>4. PICK x \in Int, y \in Int, z \in Int : x = sum[j] /\ y = sum[j - 1] /\ z = BytesOf(j)
      BY <2>6, <2>8
    <3>5. PICK e \in Int, d \in Int, f \in Int :
              e = EndOf(j) /\ d = EndOf(j - 1) /\ f = EndOf(k - 1)
      BY <2>7
    <3> HIDE DEF limit, Wrong
    <3>6. y <= d - f /\ ~ (x <= e - f)
      BY <3>2, <3>4, <3>5
    <3>7. (x <= y + z \/ x <= y) /\ d <= e /\ z <= e - d
      BY <2>7, <3>3, <3>4, <3>5
    <3> QED BY <3>6, <3>7
  <2> QED BY <1>5, <2>4, <2>9, <2>10, <2>11
<1> QED BY <1>6, <1>7

\* A larger factor, a larger product.
LEMMA TimesMore ==
    ASSUME NEW c \in Nat, NEW x \in Int, NEW y \in Int, x <= y
    PROVE  c * x <= c * y
<1>1. PICK z \in Nat : y = x + z
  <2>1. y - x \in Nat /\ y = x + (y - x)
    OBVIOUS
  <2> QED BY <2>1
<1>2. c * (x + z) = (c * x) + (c * z)
  OBVIOUS
<1>3. c * z \in Nat /\ c * x \in Int
  OBVIOUS
<1> QED BY <1>1, <1>2, <1>3

\* TRIANGULAR() computes the number of tasks, as long as n(n+1) is an int.
LEMMA TriangularIs ==
    ASSUME NEW n \in Nat, n * (n + 1) <= INT_MAX
    PROVE  2 * Triangular(n) = n * (n + 1) /\ Triangular(n) \in Nat
<1>1. n * (n + 1) \in Nat /\ INT_MAX \in Nat
  BY WidthAssumption
<1> DEFINE p == n * (n + 1)
<1>2. AsInt(p) = p
  <2> HIDE DEF p
  <2>1. p \in Nat
    BY <1>1 DEF p
  <2>2. p \in - (INT_MAX + 1) .. INT_MAX
    BY <1>1, <2>1 DEF p
  <2> QED BY <1>1, <2>1, <2>2, WrapRange DEF AsInt
<1>3. Triangular(n) = p \div 2
  BY <1>1, <1>2 DEF Triangular
<1>4. \E m \in Nat : p = 2 * m
  <2>1. PICK h \in Nat, r \in 0 .. 1 : n = 2 * h + r
    <3>1. n = 2 * (n \div 2) + (n % 2) /\ n \div 2 \in Nat /\ n % 2 \in 0 .. 1
      OBVIOUS
    <3> QED BY <3>1
  <2>2. CASE r = 0
    <3>1. n = 2 * h
      BY <2>1, <2>2
    <3>2. p = 2 * (h * (n + 1)) /\ h * (n + 1) \in Nat
      BY <3>1
    <3> QED BY <3>2
  <2>3. CASE r = 1
    <3>1. n + 1 = 2 * (h + 1)
      BY <2>1, <2>3
    <3>2. n * (2 * (h + 1)) = 2 * (n * (h + 1)) /\ n * (h + 1) \in Nat
      OBVIOUS
    <3> QED BY <3>1, <3>2
  <2> QED BY <2>1, <2>2, <2>3
<1>5. PICK m \in Nat : p = 2 * m
  BY <1>4
<1> HIDE DEF p
<1>6. p \div 2 = m
  BY <1>5
<1> QED BY <1>3, <1>5, <1>6 DEF p

\* Each chunk but the last is at least as long as planned.
LongOK ==
    \A j \in 0 .. NumChunks : EndOf(j) < input.size => EndOf(j) >= j * conf.chunk_size

\* The input is the same in the whole run; from the rounds on the chunks are, too.
LEMMA Fixed ==
    ASSUME Next
    PROVE  /\ input' = input
           /\ main \notin Before \ {"init_hmap", "tagdup_start"} => conf' = conf
           /\ main \notin Before \cup {"count_chunks"} => ends' = ends
<1>1. CASE OtherStep
  BY <1>1, OthersKeep DEF RunHandler, setup, rounds
<1>2. CASE OptParse \/ OptParsed \/ start_progressbar \/ InitFiles \/ CopyBlockDone \/ FilesReady
           \/ ConfigHmap \/ ConfigChunk \/ init_hmap \/ TagdupStart \/ CountChunk
           \/ ChunksCounted \/ TasksCounted
  BY <1>2
  DEF OptParse, OptParsed, start_progressbar, InitFiles, CopyBlockDone, FilesReady, ConfigHmap,
      ConfigChunk, init_hmap, TagdupStart, CountChunk, ChunksCounted, TasksCounted, MainExits,
      Before, setup, rounds
<1>3. CASE NextChunk \/ Populate \/ Populated \/ CreatePool \/ AddTask \/ ChunkDone \/ WaitReturns
           \/ DestroyHmap
  BY <1>3
  DEF NextChunk, Populate, Populated, CreatePool, AddTask, ChunkDone, WaitReturns, DestroyHmap,
      MainExits, setup, rounds
<1>4. CASE FcleanStart \/ RewriteBatch \/ Rewritten \/ Unmap \/ CleanedUp \/ stop_progressbar
           \/ Join \/ DisplayReport
  BY <1>4
  DEF FcleanStart, RewriteBatch, Rewritten, Unmap, CleanedUp, stop_progressbar, Join,
      DisplayReport, MainExits, setup, rounds
<1> QED
  BY <1>1, <1>2, <1>3, <1>4 DEF Next, MainStep, OtherStep, Ended, vars, setup, rounds

\* get_next_chunk() looks for a newline behind chunk_size bytes.
LEMMA LongStep ==
    ASSUME ConfOK, EndsOK, LongOK, Next
    PROVE  LongOK'
<1>1. input' = input /\ input.size \in Nat /\ input.tail \in Nat
  BY Fixed, SessionAssumption DEF ConfOK
<1>2. ConfOK' /\ EndsOK'
  BY ConfStep, EndsStep
<1>3. PICK c \in Nat : c = conf.chunk_size
  BY DEF ConfOK, ConfType
<1>4. CASE ends' = << >>
  <2>1. NumChunks' = 0 /\ EndOf(0)' = 0 /\ conf'.chunk_size \in Nat
    BY <1>2, <1>4 DEF NumChunks, EndOf, ConfOK, ConfType
  <2>2. 0 * conf'.chunk_size = 0
    BY <2>1
  <2>3. \A j \in 0 .. 0 : j = 0
    OBVIOUS
  <2> QED BY <2>1, <2>2, <2>3 DEF LongOK
<1>5. CASE ends' = ends /\ conf' = conf
  <2>1. NumChunks' = NumChunks /\ \A j : EndOf(j)' = EndOf(j)
    BY <1>5 DEF NumChunks, EndOf
  <2> QED BY <1>1, <1>5, <2>1 DEF LongOK
<1>6. CASE CountChunk
  <2>1. PICK n \in Nat : n = NumChunks
    BY DEF EndsOK, NumChunks
  <2>2. PICK e \in Nat : e = EndOf(n)
    BY <2>1 DEF EndsOK, EndOf, NumChunks
  <2>3. PICK len \in ChunkLengths : ends' = Append(ends, e + len)
    BY <1>6, <2>1, <2>2 DEF CountChunk
  <2>4. Remaining = input.size - e /\ Remaining > 0
    BY <1>6, <2>1, <2>2 DEF CountChunk, Remaining
  <2>5. len = Remaining \/ (len \in Int /\ len >= c)
    <3>1. ASSUME len # Remaining
          PROVE  len \in Int /\ len >= c
      <4>1. PICK o \in Overshoots \cap 1 .. Remaining - conf.chunk_size : len = conf.chunk_size + o
        BY <2>3, <3>1 DEF ChunkLengths
      <4> QED BY <1>3, <4>1, SessionAssumption
    <3> QED BY <3>1
  <2>6. len \in Int
    BY <1>1, <2>4, <2>5
  <2>7. /\ Len(ends') = n + 1
        /\ \A k \in 1 .. n : ends'[k] = ends[k]
        /\ ends'[n + 1] = e + len
    <3>1. ends \in Seq(Nat) /\ Len(ends) = n
      BY <2>1 DEF EndsOK, NumChunks
    <3> QED BY <2>3, <2>6, <3>1
  <2>8. NumChunks' = n + 1 /\ EndOf(n + 1)' = e + len /\ \A j \in 0 .. n : EndOf(j)' = EndOf(j)
    BY <2>1, <2>7 DEF NumChunks, EndOf
  <2>9. conf' = conf
    BY <1>6 DEF CountChunk, setup
  <2>10. ASSUME NEW j \in 0 .. n + 1, EndOf(j)' < input.size
         PROVE  EndOf(j)' >= j * c
    <3>1. CASE j \in 0 .. n
      BY <1>3, <2>1, <2>8, <2>10, <3>1 DEF LongOK
    <3>2. CASE j = n + 1
      <4>1. e + len < input.size
        BY <2>8, <2>10, <3>2
      <4>2. len >= c
        BY <1>1, <2>4, <2>5, <4>1
      <4>3. e >= n * c
        <5>1. EndOf(n) < input.size /\ n \in 0 .. NumChunks
          BY <1>1, <2>1, <2>2, <2>4
        <5> QED BY <1>3, <2>2, <5>1 DEF LongOK
      <4>4. (n + 1) * c = (n * c) + c /\ n * c \in Int
        OBVIOUS
      <4> QED BY <2>6, <2>8, <3>2, <4>2, <4>3, <4>4
    <3> QED BY <3>1, <3>2
  <2> QED BY <1>1, <1>3, <2>8, <2>9, <2>10 DEF LongOK
<1>7. CASE main \in Before
  <2>1. main' \in Before \/ ends' = ends
    BY <1>7, MainMoves DEF TagdupStart, rounds, Before, Counting, InRounds, Delivering
  <2>2. ends = << >> /\ (main' \in Before => ends' = << >>)
    BY <1>2, <1>7 DEF EndsOK
  <2> QED BY <1>4, <2>1, <2>2
<1>8. CASE main = "count_chunks" /\ ~ CountChunk
  <2>1. ends' = ends
    BY <1>8, OthersKeep
    DEF Next, MainStep, OtherStep, RunHandler, Ended, vars, rounds, OptParse, OptParsed,
        start_progressbar, InitFiles, CopyBlockDone, FilesReady, ConfigHmap, ConfigChunk,
        init_hmap, TagdupStart, ChunksCounted, TasksCounted, NextChunk, Populate, Populated,
        CreatePool, AddTask, ChunkDone, WaitReturns, DestroyHmap, FcleanStart, RewriteBatch,
        Rewritten, Unmap, CleanedUp, stop_progressbar, Join, DisplayReport
  <2>2. main \notin Before
    BY <1>8 DEF Before
  <2> QED BY <1>5, <2>1, <2>2, Fixed
<1> QED BY <1>5, <1>6, <1>7, <1>8, Fixed

\* What is left of the file at the beginning of round k.
LEMMA RoundBound ==
    ASSUME ConfOK, EndsOK, LongOK, Remaining = 0, AsPlanned, NEW k \in 1 .. NumChunks,
           NEW b \in Nat, b <= EndOf(NumChunks) - EndOf(k - 1)
    PROVE  (conf.chunk_size * Pairs(k - 1)) + (2 * b) <= conf.chunk_size * Pairs(k)
<1>1. PICK n \in Nat : n = NumChunks
  BY DEF EndsOK, NumChunks
<1>2. PICK c \in Nat : c = conf.chunk_size
  BY DEF ConfOK, ConfType
<1>3. PICK s \in Nat : s = input.size
  BY SessionAssumption DEF ConfOK
<1>4. PICK e \in Nat : e = EndOf(k - 1)
  BY <1>1 DEF EndOf, EndsOK, NumChunks
<1>5. EndOf(n) = s
  <2>1. EndOf(n) \in Nat
    BY <1>1 DEF EndOf, EndsOK, NumChunks
  <2>2. s - EndOf(n) = 0
    BY <1>1, <1>3 DEF Remaining
  <2> QED BY <2>1, <2>2
<1>6. b <= s - e /\ s <= n * c
  BY <1>1, <1>2, <1>3, <1>4, <1>5 DEF AsPlanned
<1>7. k \in 1 .. n /\ k - 1 \in 0 .. n
  BY <1>1
<1>8. b <= (n - k + 1) * c
  <2>1. (n - k + 1) * c \in Nat
    <3>1. n - k + 1 \in Nat
      BY <1>7
    <3> QED BY <3>1
  <2>2. CASE e < s
    <3>1. e >= (k - 1) * c
      BY <1>1, <1>2, <1>3, <1>4, <1>7, <2>2 DEF LongOK
    <3>2. (n - k + 1) * c = (n * c) - ((k - 1) * c) /\ n * c \in Int /\ (k - 1) * c \in Int
      BY <1>7
    <3> QED BY <1>6, <3>1, <3>2
  <2>3. CASE ~ (e < s)
    BY <1>6, <2>1, <2>3
  <2> QED BY <2>2, <2>3
<1>9. Pairs(k) = Pairs(k - 1) + 2 * (n - k + 1) /\ Pairs(k - 1) \in Int
  BY <1>1, <1>7, PairsNext
<1> DEFINE x == Pairs(k - 1)
           y == n - k + 1
<1>10. c * (x + 2 * y) = (c * x) + (2 * (y * c))
  <2>1. x \in Int /\ y \in Int
    BY <1>7, <1>9
  <2> HIDE DEF x, y
  <2> QED BY <2>1
<1>11. (c * x) \in Int /\ y * c \in Int
  <2>1. x \in Int /\ y \in Int
    BY <1>7, <1>9
  <2> HIDE DEF x, y
  <2> QED BY <2>1
<1> HIDE DEF x, y
<1>12. b <= y * c /\ Pairs(k) = x + 2 * y
  BY <1>8, <1>9 DEF x, y
<1>13. (c * x) + (2 * b) <= c * Pairs(k)
  BY <1>10, <1>11, <1>12
<1> QED BY <1>2, <1>13 DEF x

\* The tasks of the rounds until now are not more than those of all.
LEMMA PairsGrow ==
    ASSUME NEW n \in Nat, n = NumChunks, NEW k \in 0 .. n
    PROVE  Pairs(k) <= Pairs(n) /\ Pairs(k) \in Int /\ Pairs(n) \in Int
<1>1. PICK d \in Nat : n = k + d
  <2>1. n - k \in Nat /\ n = k + (n - k)
    OBVIOUS
  <2> QED BY <2>1
<1>2. Pairs(k) = k * (2 * n - k + 1) /\ Pairs(n) = n * (n + 1)
  BY DEF Pairs
<1>3. 2 * n - k + 1 = k + 2 * d + 1
  BY <1>1
<1>4. (k + d) * (k + d + 1) = (k * (k + 2 * d + 1)) + (d * d) + d
  BY <1>1
<1>5. d * d \in Nat /\ k * (k + 2 * d + 1) \in Nat
  OBVIOUS
<1> QED BY <1>1, <1>2, <1>3, <1>4, <1>5

-----------------------------------------------------------------------------
(* The counters and where main is                                          *)

Early == {"optparse", "start_progressbar", "init_files"}

\* Dates are set and totals are computed when their phases begin; the bytes
\* of a phase are zero before it.
CountersOK ==
    /\ status.ctasks_date <=> main \notin Before
    /\ status.total_chunks = IF main \in Before \cup {"count_chunks"} THEN 0 ELSE NumChunks
    /\ IF main \in Before \cup Counting
       THEN status.total_ctasks = 0 /\ status.tagdup_bytes = 0
       ELSE status.total_ctasks = Triangular(NumChunks)
    /\ status.fclean_date <=> main \in Delivering \ {"fclean_start"}
    /\ status.fclean_bytes <= input.size - input.tail
    /\ main \notin Delivering \ {"fclean_start"} => status.fclean_bytes = 0
    /\ main \in Early => status.fcopy_bytes = 0
    /\ ~ input.pipe =>
          /\ status.fcopy_bytes <= status.file_size
          /\ main \notin Early => status.file_size = input.size
    /\ main \notin Early \cup {"copy_file"} => input.size # 0
    /\ main \notin Before \ {"init_hmap", "tagdup_start"} => status.chunk_size = conf.chunk_size

\* Nothing is counted at first.
LEMMA InitCounters == Init => CountersOK
<1> SUFFICES ASSUME Init PROVE CountersOK
  OBVIOUS
<1>1. input.size \in Nat /\ input.tail \in Nat /\ input.tail <= input.size
  BY SessionAssumption DEF Init
<1>2. 0 <= input.size - input.tail
  BY <1>1
<1> QED BY <1>2 DEF Init, CountersOK, Before, Delivering, Early

\* Each counter is written where its phase begins or goes on.
LEMMA CountersStep ==
    ASSUME ConfOK, EndsOK, PoolOK, status \in StatusType, CountersOK, Next
    PROVE  CountersOK'
<1>1. input' = input /\ input.size \in Nat /\ input.tail \in Nat /\ CopyBlock \in Nat
  BY Fixed, SessionAssumption DEF ConfOK
<1>2. ASSUME UNCHANGED <<status, main>>
      PROVE  CountersOK'
  <2>1. main \notin Before => conf' = conf
    BY Fixed
  <2>2. main \notin Before \cup {"count_chunks"} => NumChunks' = NumChunks
    BY Fixed DEF NumChunks
  <2>3. main \in {"init_hmap", "tagdup_start"} => conf' = conf
    BY Fixed DEF Before
  <2>4. Triangular(NumChunks)' = Triangular(NumChunks')
    BY DEF Triangular
  <2> QED BY <1>1, <1>2, <2>1, <2>2, <2>3, <2>4 DEF CountersOK, Before, Counting
<1>3. ASSUME MainExits(0) \/ MainExits(1)
      PROVE  CountersOK'
  BY <1>2, <1>3 DEF MainExits
<1>4. CASE OptParse \/ OptParsed \/ start_progressbar
  BY <1>1, <1>2, <1>3, <1>4
  DEF OptParse, OptParsed, start_progressbar, CountersOK, Before, Counting, Delivering, Early,
      setup
<1>5. CASE InitFiles
  <2>1. CASE UNCHANGED <<status, main>>
    BY <1>2, <2>1
  <2>2. CASE main' = "copy_file"
             /\ status' = [status EXCEPT !.file_size = IF input.pipe THEN 0 ELSE input.size]
    <3>1. main = "init_files" /\ conf' = conf
      BY <1>5 DEF InitFiles, setup
    <3> QED BY <1>1, <2>2, <3>1 DEF CountersOK, StatusType, Before, Counting, Delivering, Early
  <2> QED BY <1>5, <2>1, <2>2 DEF InitFiles
<1>6. CASE CopyBlockDone
  <2>1. /\ main = "copy_file" /\ main' = main
        /\ status.fcopy_bytes + CopyBlock <= input.size
        /\ status' = [status EXCEPT !.fcopy_bytes = status.fcopy_bytes + CopyBlock]
    BY <1>6 DEF CopyBlockDone
  <2> QED BY <1>1, <2>1 DEF CountersOK, StatusType, Before, Counting, Delivering, Early
<1>7. CASE FilesReady \/ ConfigHmap
  BY <1>1, <1>2, <1>3, <1>7
  DEF FilesReady, ConfigHmap, CountersOK, Before, Counting, Delivering, Early
<1>8. CASE ConfigChunk
  <2> DEFINE size == config_chunk_size(input.size, conf.hmap_size)
  <2>1. /\ main = "config_chunk_size" /\ main' = "init_hmap"
        /\ conf' = [conf EXCEPT !.chunk_size = size]
        /\ status' = [status EXCEPT !.chunk_size = size]
    BY <1>8 DEF ConfigChunk
  <2>2. conf \in ConfType
    BY DEF ConfOK
  <2> HIDE DEF size
  <2> QED
    BY <1>1, <2>1, <2>2
    DEF CountersOK, StatusType, ConfType, Before, Counting, Delivering, Early
<1>9. CASE init_hmap
  BY <1>1, <1>3, <1>9 DEF init_hmap, CountersOK, Before, Counting, Delivering, Early, setup
<1>10. CASE TagdupStart \/ ChunksCounted \/ TasksCounted
  <2> DEFINE total(x) == Triangular(x)
  <2>1. conf' = conf /\ NumChunks' = NumChunks
    BY <1>10 DEF TagdupStart, ChunksCounted, TasksCounted, setup, rounds, NumChunks
  <2>2. PICK n \in Nat : n = NumChunks /\ n = NumChunks'
    BY <2>1 DEF EndsOK, NumChunks
  <2>3. CASE TagdupStart
    <3>1. /\ main = "tagdup_start" /\ main' = "count_chunks"
          /\ status' = [status EXCEPT !.ctasks_date = TRUE]
      BY <2>3 DEF TagdupStart
    <3> QED
      BY <1>1, <2>1, <2>2, <3>1 DEF CountersOK, StatusType, Before, Counting, Delivering, Early
  <2>4. CASE ChunksCounted
    <3>1. /\ main = "count_chunks" /\ main' = "count_ctasks"
          /\ status' = [status EXCEPT !.total_chunks = n]
      BY <2>2, <2>4 DEF ChunksCounted
    <3> QED
      BY <1>1, <2>1, <2>2, <3>1 DEF CountersOK, StatusType, Before, Counting, Delivering, Early
  <2>5. CASE TasksCounted
    <3>1. main = "count_ctasks" /\ main' = "next" /\ status.total_chunks = n
      BY <2>2, <2>5 DEF TasksCounted, CountersOK, Before, Counting
    <3>2. status' = [status EXCEPT !.total_ctasks = total(n)]
      BY <2>5, <3>1 DEF TasksCounted
    <3>3. Triangular(NumChunks)' = total(n)
      BY <2>2
    <3> HIDE DEF total
    <3> QED
      BY <1>1, <2>1, <2>2, <3>1, <3>2, <3>3
      DEF CountersOK, StatusType, Before, Counting, Delivering, Early
  <2> QED BY <1>10, <2>3, <2>4, <2>5
<1>11. ASSUME main \notin Before \cup {"count_chunks"}
       PROVE  conf' = conf /\ NumChunks' = NumChunks
              /\ Triangular(NumChunks)' = Triangular(NumChunks)
  <2>1. conf' = conf /\ ends' = ends
    BY <1>11, Fixed
  <2> QED BY <2>1 DEF NumChunks, Triangular
<1>12. CASE NextChunk \/ CreatePool \/ AddTask \/ WaitReturns
  BY <1>1, <1>2, <1>3, <1>11, <1>12
  DEF NextChunk, CreatePool, AddTask, WaitReturns, CountersOK, Before, Counting, Delivering, Early
<1>13. ASSUME main \in InRounds, main' \in InRounds, NEW x, NEW y, NEW z,
              status' = [status EXCEPT !.tagdup_bytes = x, !.done_ctasks = y, !.done_chunks = z]
       PROVE  CountersOK'
  BY <1>1, <1>11, <1>13
  DEF CountersOK, StatusType, InRounds, Before, Counting, Delivering, Early
<1>14. CASE Populate
  <2>1. CASE ~ MainExits(1)
    <3>1. /\ main = "populate" /\ main' = "populated"
          /\ status' = [status EXCEPT !.tagdup_bytes = @ + BytesOf(mainChunk)]
      BY <1>14, <2>1 DEF Populate
    <3> DEFINE x == status.tagdup_bytes + BytesOf(mainChunk)
    <3>2. status' = [status EXCEPT !.tagdup_bytes = x, !.done_ctasks = status.done_ctasks,
                                   !.done_chunks = status.done_chunks]
      <4>1. status' = [status EXCEPT !.tagdup_bytes = x]
        BY <3>1
      <4> HIDE DEF x
      <4> QED BY <4>1 DEF StatusType
    <3> HIDE DEF x
    <3> QED BY <1>13, <3>1, <3>2 DEF InRounds
  <2> QED BY <1>3, <2>1
<1>15. CASE Populated
  <2>1. /\ main = "populated" /\ main' = "subchunks"
        /\ status' = [status EXCEPT !.done_ctasks = @ + 1]
    BY <1>15 DEF Populated
  <2> DEFINE x == status.tagdup_bytes
             y == status.done_ctasks + 1
             z == status.done_chunks
  <2>2. status' = [status EXCEPT !.tagdup_bytes = x, !.done_ctasks = y, !.done_chunks = z]
    BY <2>1 DEF StatusType
  <2>3. main \in InRounds /\ main' \in InRounds
    BY <2>1 DEF InRounds
  <2> HIDE DEF x, y, z
  <2> QED BY <1>13, <2>2, <2>3
<1>16. CASE ChunkDone
  <2>1. /\ main = "subchunks" /\ main' \in {"next", "wait"}
        /\ status' = [status EXCEPT !.done_chunks = @ + 1]
    BY <1>16 DEF ChunkDone
  <2> DEFINE x == status.tagdup_bytes
             y == status.done_ctasks
             z == status.done_chunks + 1
  <2>2. status' = [status EXCEPT !.tagdup_bytes = x, !.done_ctasks = y, !.done_chunks = z]
    BY <2>1 DEF StatusType
  <2>3. main \in InRounds /\ main' \in InRounds
    BY <2>1 DEF InRounds
  <2> HIDE DEF x, y, z
  <2> QED BY <1>13, <2>2, <2>3
<1>17. CASE DestroyHmap
  BY <1>1, <1>11, <1>17 DEF DestroyHmap, CountersOK, Before, Counting, Delivering, Early
<1>18. CASE FcleanStart
  BY <1>1, <1>11, <1>18
  DEF FcleanStart, CountersOK, StatusType, Before, Counting, Delivering, Early
<1>19. CASE RewriteBatch \/ Rewritten
  <2>1. main = "remove_duplicates" /\ main' \in {"remove_duplicates", "cleanup_files"}
    BY <1>19 DEF RewriteBatch, Rewritten
  <2>2. PICK x : status' = [status EXCEPT !.fclean_bytes = x] /\ x <= input.size - input.tail
    <3>1. CASE RewriteBatch
      BY <3>1 DEF RewriteBatch
    <3>2. CASE Rewritten
      <4>1. input.size - input.tail <= input.size - input.tail
        BY <1>1
      <4> QED BY <3>2, <4>1 DEF Rewritten
    <3> QED BY <1>19, <3>1, <3>2
  <2> QED
    BY <1>1, <1>11, <2>1, <2>2 DEF CountersOK, StatusType, Before, Counting, Delivering, Early
<1>20. CASE Unmap \/ CleanedUp \/ stop_progressbar \/ Join \/ DisplayReport
  BY <1>1, <1>3, <1>11, <1>20
  DEF Unmap, CleanedUp, stop_progressbar, Join, DisplayReport, CountersOK, Before, Counting,
      Delivering, Early
<1>21. CASE Exits \/ BarStep \/ Begin
  BY <1>2, <1>21, BarKeeps
  DEF Exits, ExitStep, PopHandler, RunHandler, EndProcess, Begin
<1>22. ASSUME NEW t \in Task, Lookup(t) \/ Log(t)
       PROVE  CountersOK'
  BY <1>2, <1>22 DEF Lookup, Log
<1>23. ASSUME NEW t \in Task, t \in running, Report(t) \/ TaskDone(t)
       PROVE  CountersOK'
  <2>1. main \in InRounds /\ main' = main
    BY <1>23 DEF PoolOK, InTasks, InRounds, Report, TaskDone
  <2>2. \/ status' = [status EXCEPT !.tagdup_bytes = @ + BytesOf(t[2])]
        \/ status' = [status EXCEPT !.done_ctasks = @ + 1]
    BY <1>23 DEF Report, TaskDone
  <2>3. \E x, y : status' = [status EXCEPT !.tagdup_bytes = x, !.done_ctasks = y,
                                           !.done_chunks = status.done_chunks]
    <3> DEFINE x == status.tagdup_bytes + BytesOf(t[2])
    <3>1. CASE status' = [status EXCEPT !.tagdup_bytes = x]
      <4> HIDE DEF x
      <4>1. status' = [status EXCEPT !.tagdup_bytes = x, !.done_ctasks = status.done_ctasks,
                                     !.done_chunks = status.done_chunks]
        BY <3>1 DEF StatusType
      <4> QED BY <4>1
    <3>2. CASE status' = [status EXCEPT !.done_ctasks = @ + 1]
      <4>1. status' = [status EXCEPT !.tagdup_bytes = status.tagdup_bytes,
                                     !.done_ctasks = status.done_ctasks + 1,
                                     !.done_chunks = status.done_chunks]
        BY <3>2 DEF StatusType
      <4> QED BY <4>1
    <3> QED BY <2>2, <3>1, <3>2
  <2> QED BY <1>13, <2>1, <2>3
<1>24. CASE CountChunk \/ Ended
  BY <1>2, <1>24 DEF CountChunk, Ended, vars
<1> QED
  BY <1>4, <1>5, <1>6, <1>7, <1>8, <1>9, <1>10, <1>12, <1>14, <1>15, <1>16, <1>17, <1>18, <1>19,
     <1>20, <1>21, <1>22, <1>23, <1>24
  DEF Next, MainStep, Work, TaskStep


-----------------------------------------------------------------------------
(* The bytes of the rounds                                                 *)

\* The tasks of the rounds to come, and of a round that adds none yet.
Fresh ==
    {t \in Task : t[1] > mainChunk \/ (t[1] = mainChunk /\ main \in {"populate", "populated"})}

WorkOK == \A t \in Fresh : work[t] = "lookup"

\* No task has begun at first.
LEMMA InitWork == Init => WorkOK
BY DEF Init, WorkOK, Fresh

\* A task is worked on in its round only.
LEMMA WorkStep ==
    ASSUME PoolOK, work \in WorkType, WorkOK, Next
    PROVE  WorkOK'
<1>1. ASSUME UNCHANGED <<work, mainChunk>>,
             main' \in {"populate", "populated"} => main \in {"populate", "populated"}
      PROVE  WorkOK'
  BY <1>1 DEF WorkOK, Fresh
<1>2. CASE NextChunk
  <2>1. /\ main = "next" /\ main' = "populate" /\ mainChunk' = mainChunk + 1 /\ work' = work
        /\ mainChunk \in Int
    BY <1>2 DEF NextChunk, PoolOK
  <2>2. \A t \in Task : t[1] \in Int
    BY DEF Task, Chunk
  <2>3. ASSUME NEW t \in Fresh'
        PROVE  work[t] = "lookup"
    <3>1. t \in Task /\ (t[1] > mainChunk + 1 \/ t[1] = mainChunk + 1)
      BY <2>1, <2>3 DEF Fresh
    <3>2. t[1] > mainChunk
      BY <2>1, <2>2, <3>1
    <3> QED BY <3>1, <3>2 DEF WorkOK, Fresh
  <2> QED BY <2>1, <2>3 DEF WorkOK
<1>3. ASSUME NEW t \in Task, t \in running, Lookup(t) \/ Log(t) \/ Report(t)
      PROVE  WorkOK'
  <2>1. /\ main' = main /\ mainChunk' = mainChunk /\ mainChunk \in Int
        /\ main \in {"subchunks", "wait"} /\ t[1] = mainChunk
    BY <1>3 DEF Lookup, Log, Report, rounds, PoolOK, InTasks
  <2>2. \A u \in Task : u # t => work'[u] = work[u]
    BY <1>3 DEF Lookup, Log, Report, WorkType
  <2>3. ASSUME NEW u \in Fresh'
        PROVE  work'[u] = "lookup"
    <3>1. u \in Task /\ u[1] > mainChunk
      BY <2>1, <2>3 DEF Fresh
    <3>2. u # t
      BY <2>1, <3>1
    <3> QED BY <2>2, <3>1, <3>2 DEF WorkOK, Fresh
  <2> QED BY <2>3 DEF WorkOK
<1>4. CASE Exits \/ BarStep \/ Begin \/ Ended
  BY <1>1, <1>4, BarKeeps
  DEF Exits, ExitStep, PopHandler, RunHandler, EndProcess, Begin, Ended, vars, rounds
<1>5. ASSUME NEW t \in Task, TaskDone(t)
      PROVE  WorkOK'
  BY <1>1, <1>5 DEF TaskDone, rounds
<1>6. CASE OptParse \/ OptParsed \/ start_progressbar \/ InitFiles \/ CopyBlockDone \/ FilesReady
           \/ ConfigHmap \/ ConfigChunk \/ init_hmap \/ TagdupStart \/ CountChunk
           \/ ChunksCounted \/ TasksCounted
  BY <1>1, <1>6
  DEF OptParse, OptParsed, start_progressbar, InitFiles, CopyBlockDone, FilesReady, ConfigHmap,
      ConfigChunk, init_hmap, TagdupStart, CountChunk, ChunksCounted, TasksCounted, MainExits,
      rounds
<1>7. CASE Populate \/ Populated \/ CreatePool \/ AddTask \/ ChunkDone \/ WaitReturns
           \/ DestroyHmap
  BY <1>1, <1>7
  DEF Populate, Populated, CreatePool, AddTask, ChunkDone, WaitReturns, DestroyHmap, MainExits,
      rounds
<1>8. CASE FcleanStart \/ RewriteBatch \/ Rewritten \/ Unmap \/ CleanedUp \/ stop_progressbar
           \/ Join \/ DisplayReport
  BY <1>1, <1>8
  DEF FcleanStart, RewriteBatch, Rewritten, Unmap, CleanedUp, stop_progressbar, Join,
      DisplayReport, MainExits, rounds
<1> QED
  BY <1>2, <1>3, <1>4, <1>5, <1>6, <1>7, <1>8 DEF Next, MainStep, Work, TaskStep

\* The chunks whose bytes were reported in this round.
Reported ==
    {j \in 1 .. NumChunks :
        j = mainChunk \/ (j > mainChunk /\ work[<<mainChunk, j>>] = "done")}

\* Twice what may be reported in the first k rounds, if all goes as planned.
Planned(k) == conf.chunk_size * Pairs(k)

\* A number.
LEMMA PlannedType ==
    ASSUME ConfOK, EndsOK, NEW k \in Int
    PROVE  Planned(k) \in Int
<1>1. PICK n \in Nat : n = NumChunks
  BY DEF EndsOK, NumChunks
<1>2. PICK c \in Nat : c = conf.chunk_size
  BY DEF ConfOK, ConfType
<1>3. PICK p \in Int : p = Pairs(k)
  <2>1. k * (2 * n - k + 1) \in Int
    OBVIOUS
  <2> QED BY <1>1, <2>1 DEF Pairs
<1>4. c * p \in Int
  OBVIOUS
<1> QED BY <1>2, <1>3, <1>4 DEF Planned

\* A round reports no more than its chunks have.
TagdupOK ==
    AsPlanned =>
        /\ main \in {"next"} \cup Delivering => 2 * status.tagdup_bytes <= Planned(mainChunk)
        /\ main = "populate" => 2 * status.tagdup_bytes <= Planned(mainChunk - 1)
        /\ main \in {"populated", "subchunks", "wait"} =>
              \E b \in Nat : /\ Reports(Reported, b)
                             /\ 2 * status.tagdup_bytes <= Planned(mainChunk - 1) + 2 * b

\* The rounds have not begun at first.
LEMMA InitTagdup == Init => TagdupOK
BY DEF Init, TagdupOK, Delivering

\* At the end of a round, too.
LEMMA RoundReported ==
    ASSUME ConfOK, EndsOK, LongOK, PoolOK, status \in StatusType, TagdupOK, AsPlanned,
           main \in {"populated", "subchunks", "wait"}
    PROVE  2 * status.tagdup_bytes <= Planned(mainChunk)
<1>1. PICK n \in Nat : n = NumChunks
  BY DEF EndsOK, NumChunks
<1>2. PICK k \in 1 .. n : k = mainChunk
  BY <1>1 DEF PoolOK, InRounds
<1>3. PICK b \in Nat :
          Reports(Reported, b) /\ 2 * status.tagdup_bytes <= Planned(mainChunk - 1) + 2 * b
  BY DEF TagdupOK
<1>4. Reported \subseteq k .. NumChunks
  BY <1>1, <1>2 DEF Reported
<1>5. b <= EndOf(NumChunks) - EndOf(k - 1)
  BY <1>1, <1>2, <1>3, <1>4, ReportsBounded
<1>6. Remaining = 0
  BY DEF EndsOK, Before
<1>7. Planned(k - 1) + (2 * b) <= Planned(k)
  BY <1>1, <1>2, <1>5, <1>6, RoundBound DEF Planned
<1>8. Planned(k - 1) \in Int /\ Planned(k) \in Int
  BY <1>1, <1>2, PlannedType
<1>9. PICK x \in Nat : x = status.tagdup_bytes
  BY DEF StatusType
<1> QED BY <1>2, <1>3, <1>7, <1>8, <1>9

\* Each report adds the bytes of a chunk that was not reported in the round.
LEMMA TagdupStep ==
    ASSUME ConfOK, EndsOK, LongOK, PoolOK, work \in WorkType, WorkOK, status \in StatusType,
           CountersOK, TagdupOK, Next
    PROVE  TagdupOK'
<1> SUFFICES ASSUME AsPlanned', main' \in InRounds \cup Delivering
             PROVE  TagdupOK'
  BY DEF TagdupOK, InRounds
<1>1. PICK x \in Nat : x = status.tagdup_bytes
  BY DEF StatusType
<1>2. CASE TasksCounted
  <2>1. /\ main = "count_ctasks" /\ main' = "next" /\ conf' = conf /\ mainChunk' = mainChunk
        /\ status'.tagdup_bytes = x
    BY <1>1, <1>2 DEF TasksCounted, StatusType, setup, rounds
  <2>2. x = 0 /\ mainChunk = 0
    BY <1>1, <2>1 DEF CountersOK, PoolOK, Counting
  <2>3. NumChunks' \in Nat
    BY EndsStep DEF EndsOK, NumChunks
  <2>4. Planned(mainChunk)' = 0
    <3>1. Pairs(0)' = 0
      <4>1. \A n \in Nat : 0 * (2 * n - 0 + 1) = 0
        OBVIOUS
      <4> QED BY <2>3, <4>1 DEF Pairs
    <3>2. conf.chunk_size \in Nat
      BY DEF ConfOK, ConfType
    <3>3. Pairs(mainChunk)' = 0
      BY <2>1, <2>2, <3>1 DEF Pairs
    <3>4. \A c \in Nat : c * 0 = 0
      OBVIOUS
    <3> QED BY <2>1, <3>2, <3>3, <3>4 DEF Planned
  <2> QED BY <2>1, <2>2, <2>4 DEF TagdupOK, Delivering
<1>3. CASE ~ TasksCounted
  <2>1. main \in InRounds \cup Delivering
    BY <1>3, MainMoves DEF InRounds, Before, Counting, Delivering
  <2>2. UNCHANGED <<input, conf, ends>>
    BY <2>1, Fixed DEF InRounds, Before, Delivering
  <2>3. PICK n \in Nat : n = NumChunks /\ n = NumChunks'
    BY <2>2 DEF EndsOK, NumChunks
  <2>4. AsPlanned
    BY <2>2, <2>3 DEF AsPlanned, TasksFit
  <2>5. PICK k \in 0 .. n : k = mainChunk
    BY <2>3 DEF PoolOK
  <2>6. \A i : Planned(i)' = Planned(i)
    BY <2>2, <2>3 DEF Planned, Pairs
  <2>7. \A j : BytesOf(j)' = BytesOf(j)
    BY <2>2, <2>3 DEF BytesOf, EndOf
  <2>8. ASSUME NEW R, NEW b, Reports(R, b), Reported' = R
        PROVE  Reports(Reported, b)'
    BY <2>3, <2>7, <2>8 DEF Reports
  <2>9. ASSUME mainChunk' = mainChunk
        PROVE  /\ Planned(mainChunk)' = Planned(mainChunk)
               /\ Planned(mainChunk - 1)' = Planned(mainChunk - 1)
    BY <2>6, <2>9 DEF Planned, Pairs
  <2>10. ASSUME UNCHANGED <<status.tagdup_bytes, mainChunk>>, Reported' = Reported,
                \/ main' = main
                \/ main \in {"next"} \cup Delivering /\ main' \in {"next"} \cup Delivering
                \/ main \in {"populated", "subchunks"} /\ main' \in {"subchunks", "wait"}
         PROVE  TagdupOK'
    <3>1. CASE main' \in {"next"} \cup Delivering \cup {"populate"}
      <4>1. \/ main \in {"next"} \cup Delivering /\ main' \in {"next"} \cup Delivering
            \/ main = "populate" /\ main' = "populate"
        BY <2>10, <3>1 DEF Delivering
      <4> QED BY <2>4, <2>9, <2>10, <3>1, <4>1 DEF TagdupOK, Delivering
    <3>2. CASE main' \in {"populated", "subchunks", "wait"}
      <4>1. PICK b \in Nat :
                Reports(Reported, b) /\ 2 * status.tagdup_bytes <= Planned(mainChunk - 1) + 2 * b
        BY <2>4, <2>10, <3>2 DEF TagdupOK, Delivering
      <4>2. Reports(Reported, b)'
        BY <2>8, <2>10, <4>1
      <4> QED BY <2>9, <2>10, <3>2, <4>1, <4>2 DEF TagdupOK, Delivering
    <3> QED BY <3>1, <3>2 DEF InRounds
  <2>11. ASSUME UNCHANGED <<work, mainChunk>>
         PROVE  Reported' = Reported
    BY <2>3, <2>11 DEF Reported
  <2>12. CASE NextChunk
    <3>1. /\ main = "next" /\ main' = "populate" /\ mainChunk' = mainChunk + 1
          /\ status' = status
      BY <2>12 DEF NextChunk
    <3>2. mainChunk' - 1 = mainChunk
      BY <2>5, <3>1
    <3>3. Planned(mainChunk - 1)' = Planned(mainChunk)
      BY <2>2, <2>3, <3>2 DEF Planned, Pairs
    <3> QED BY <2>4, <3>1, <3>3 DEF TagdupOK, Delivering
  <2>13. CASE Populate /\ ~ MainExits(1)
    <3>1. /\ main = "populate" /\ main' = "populated" /\ UNCHANGED <<mainChunk, work>>
          /\ status' = [status EXCEPT !.tagdup_bytes = @ + BytesOf(mainChunk)]
      BY <2>13 DEF Populate, rounds
    <3>2. k >= 1 /\ k \in 1 .. n
      BY <2>5, <3>1 DEF PoolOK, InRounds
    <3>3. PICK y \in Nat : y = BytesOf(k)
      BY <2>3, <3>1, <3>2, BytesType DEF InRounds
    <3>4. Reports({}, 0)
      BY NoReports
    <3>5. Reports({k}, y)
      <4>1. Reports({} \cup {k}, 0 + BytesOf(k))
        BY <2>3, <3>2, <3>3, <3>4, ReportAdds
      <4>2. {} \cup {k} = {k} /\ 0 + BytesOf(k) = y
        BY <3>3
      <4> QED BY <4>1, <4>2
    <3>6. Reported' = {k}
      <4>1. ASSUME NEW j \in 1 .. n, j > k
            PROVE  work[<<k, j>>] = "lookup"
        <5>1. <<k, j>> \in Task
          <6>1. n <= MaxChunks /\ MaxChunks \in Nat
            BY <2>3, SessionAssumption DEF EndsOK
          <6> QED BY <3>2, <4>1, <6>1 DEF Task, Chunk
        <5> QED BY <2>5, <3>1, <5>1 DEF WorkOK, Fresh
      <4> QED BY <2>3, <2>5, <3>1, <3>2, <4>1 DEF Reported
    <3>7. Reports(Reported, y)'
      BY <2>8, <3>5, <3>6
    <3>8. status'.tagdup_bytes = x + y
      BY <1>1, <2>5, <3>1, <3>3 DEF StatusType
    <3>9. 2 * x <= Planned(mainChunk - 1)
      BY <1>1, <2>4, <3>1 DEF TagdupOK
    <3>10. Planned(mainChunk - 1) \in Int
      BY <2>5, PlannedType
    <3>11. 2 * (x + y) <= Planned(mainChunk - 1) + 2 * y
      BY <3>9, <3>10
    <3> QED BY <2>9, <3>1, <3>7, <3>8, <3>11 DEF TagdupOK, Delivering
  <2>14. ASSUME NEW t \in Task, t \in running, Report(t)
         PROVE  TagdupOK'
    <3>1. /\ work[t] = "report" /\ work' = [work EXCEPT ![t] = "done"]
          /\ status' = [status EXCEPT !.tagdup_bytes = @ + BytesOf(t[2])]
          /\ UNCHANGED <<main, mainChunk>>
      BY <2>14 DEF Report, rounds
    <3>2. PICK i : i = t[2]
      OBVIOUS
    <3>3. t = <<k, i>> /\ i \in 1 .. n /\ i > k /\ k >= 1 /\ main \in {"subchunks", "wait"}
      <4>1. t = <<t[1], t[2]>> /\ t[1] \in Nat \ {0} /\ t[2] \in Nat /\ t[1] < t[2]
        BY DEF Task, Chunk
      <4>2. t[1] = mainChunk /\ t[2] <= subChunk - Len(pending) /\ subChunk \in 0 .. NumChunks
            /\ Len(pending) \in Nat /\ main \in {"subchunks", "wait"}
        BY <2>14 DEF PoolOK, InTasks
      <4> QED BY <2>3, <2>5, <3>2, <4>1, <4>2
    <3>4. PICK y \in Nat : y = BytesOf(i)
      BY <2>3, <3>3, BytesType DEF InRounds
    <3>5. PICK b \in Nat :
              Reports(Reported, b) /\ 2 * status.tagdup_bytes <= Planned(mainChunk - 1) + 2 * b
      BY <2>4, <3>3 DEF TagdupOK
    <3>6. i \notin Reported
      BY <2>3, <2>5, <3>1, <3>3 DEF Reported
    <3>7. Reports(Reported \cup {i}, b + y)
      BY <2>3, <3>3, <3>4, <3>5, <3>6, ReportAdds
    <3>8. Reported' = Reported \cup {i}
      <4>1. ASSUME NEW j \in 1 .. n
            PROVE  j \in Reported' <=> j \in Reported \cup {i}
        <5>1. CASE j = i
          <6>1. work'[<<k, i>>] = "done"
            BY <3>1, <3>3 DEF WorkType
          <6> QED BY <2>3, <2>5, <3>1, <3>3, <5>1, <6>1 DEF Reported
        <5>2. CASE j # i /\ j > k
          <6>1. <<k, j>> # t
            BY <3>3, <5>2
          <6>2. <<k, j>> \in Task
            <7>1. n <= MaxChunks /\ MaxChunks \in Nat
              BY <2>3, SessionAssumption DEF EndsOK
            <7> QED BY <3>3, <5>2, <7>1 DEF Task, Chunk
          <6>3. work'[<<k, j>>] = work[<<k, j>>]
            BY <3>1, <6>1, <6>2 DEF WorkType
          <6> QED BY <2>3, <2>5, <3>1, <5>2, <6>3 DEF Reported
        <5>3. CASE j # i /\ ~ (j > k)
          BY <2>3, <2>5, <3>1, <5>3 DEF Reported
        <5> QED BY <5>1, <5>2, <5>3
      <4>2. Reported \subseteq 1 .. n /\ Reported' \subseteq 1 .. n
        BY <2>3 DEF Reported
      <4> QED BY <3>3, <4>1, <4>2
    <3>9. Reports(Reported, b + y)'
      BY <2>8, <3>7, <3>8
    <3>10. status'.tagdup_bytes = x + y
      BY <1>1, <3>1, <3>2, <3>4 DEF StatusType
    <3>11. Planned(mainChunk - 1) \in Int
      BY <2>5, PlannedType
    <3>12. 2 * (x + y) <= Planned(mainChunk - 1) + 2 * (b + y) /\ b + y \in Nat
      BY <1>1, <3>5, <3>11
    <3> QED BY <2>9, <3>1, <3>3, <3>9, <3>10, <3>12 DEF TagdupOK, Delivering
  <2>15. ASSUME NEW t \in Task, t \in running, Lookup(t) \/ Log(t)
         PROVE  TagdupOK'
    <3>1. /\ UNCHANGED <<status, main, mainChunk>> /\ work[t] \in {"lookup", "log"}
          /\ work'[t] \in {"lookup", "log", "report"}
          /\ \A u \in Task : u # t => work'[u] = work[u]
      BY <2>15 DEF Lookup, Log, rounds, WorkType
    <3>2. ASSUME NEW j \in 1 .. n, j > k, k >= 1
          PROVE  work'[<<k, j>>] = "done" <=> work[<<k, j>>] = "done"
      <4>1. <<k, j>> \in Task
        <5>1. n <= MaxChunks /\ MaxChunks \in Nat
          BY <2>3, SessionAssumption DEF EndsOK
        <5> QED BY <3>2, <5>1 DEF Task, Chunk
      <4>2. CASE <<k, j>> = t
        BY <3>1, <4>2
      <4>3. CASE <<k, j>> # t
        BY <3>1, <4>1, <4>3
      <4> QED BY <4>2, <4>3
    <3>3. k >= 1
      BY <2>5, <2>15 DEF PoolOK, InTasks, InRounds
    <3>4. Reported' = Reported
      BY <2>3, <2>5, <3>1, <3>2, <3>3 DEF Reported
    <3> QED BY <2>10, <3>1, <3>4
  <2>16. ASSUME UNCHANGED <<status.tagdup_bytes, mainChunk>>, main \in {"subchunks", "wait"},
                main' = "next"
         PROVE  TagdupOK'
    <3>1. 2 * status.tagdup_bytes <= Planned(mainChunk)
      BY <2>4, <2>16, RoundReported
    <3> QED BY <2>9, <2>16, <3>1 DEF TagdupOK, Delivering
  <2>17. CASE ChunkDone \/ WaitReturns
    <3>1. UNCHANGED <<status.tagdup_bytes, mainChunk, work>>
      BY <2>17 DEF ChunkDone, WaitReturns, rounds, StatusType
    <3>2. main \in {"subchunks", "wait"} /\ main' \in {"next", "wait"}
          /\ (main' = "wait" => main = "subchunks")
      BY <2>17 DEF ChunkDone, WaitReturns
    <3> QED BY <2>10, <2>11, <2>16, <3>1, <3>2
  <2>18. ASSUME MainExits(1)
         PROVE  TagdupOK'
    BY <2>10, <2>11, <2>18 DEF MainExits, rounds
  <2>19. CASE Populated \/ CreatePool \/ AddTask \/ DestroyHmap
    BY <2>10, <2>11, <2>18, <2>19
    DEF Populated, CreatePool, AddTask, DestroyHmap, rounds, StatusType, Delivering
  <2>20. CASE FcleanStart \/ RewriteBatch \/ Rewritten
    BY <2>10, <2>11, <2>20
    DEF FcleanStart, RewriteBatch, Rewritten, rounds, StatusType, Delivering
  <2>21. CASE Unmap \/ CleanedUp \/ stop_progressbar \/ Join \/ DisplayReport
    BY <2>10, <2>11, <2>18, <2>21
    DEF Unmap, CleanedUp, stop_progressbar, Join, DisplayReport, rounds, Delivering
  <2>22. CASE Exits \/ BarStep \/ Begin \/ Ended
    BY <2>10, <2>11, <2>22, BarKeeps
    DEF Exits, ExitStep, PopHandler, RunHandler, EndProcess, Begin, Ended, vars, rounds
  <2>23. ASSUME NEW t \in Task, TaskDone(t)
         PROVE  TagdupOK'
    BY <2>10, <2>11, <2>23 DEF TaskDone, rounds, StatusType
  <2>24. ~ (OptParse \/ OptParsed \/ start_progressbar \/ InitFiles \/ CopyBlockDone \/ FilesReady
            \/ ConfigHmap \/ ConfigChunk \/ init_hmap \/ TagdupStart \/ CountChunk
            \/ ChunksCounted)
    BY <2>1
    DEF OptParse, OptParsed, start_progressbar, InitFiles, CopyBlockDone, FilesReady, ConfigHmap,
        ConfigChunk, init_hmap, TagdupStart, CountChunk, ChunksCounted, InRounds, Delivering
  <2> QED
    BY <1>3, <2>12, <2>13, <2>14, <2>15, <2>17, <2>18, <2>19, <2>20, <2>21, <2>22, <2>23, <2>24
    DEF Next, MainStep, Work, TaskStep
<1> QED BY <1>2, <1>3


-----------------------------------------------------------------------------
(* What is shown                                                           *)

\* The sums that the rounds are told by are known from here on.
Counted == main \notin Before \cup Counting

\* What the progress thread computed holds when it writes it, too.
ShownOK ==
    /\ shown \in [phase : 0 .. 3, over : BOOLEAN]
    /\ shown.phase <= Phase
    /\ shown.phase = 2 => Counted
    /\ shown.over => IF shown.phase = 2 THEN ~ AsPlanned ELSE input.pipe

\* A counter that it has read is not behind what it was read as; what it will
\* write, with the task under way, is not beyond the total.
CurOK ==
    /\ \A c \in Counter : bar = c => cur[c] <= Done(c)
    /\ cur["chunk"] <= status.total_chunks
    /\ cur["ctask"] = 0 \/ (Counted /\ (TasksFit => cur["ctask"] <= status.total_ctasks))

\* All that the progress depends on.
Knows ==
    /\ ConfOK /\ EndsOK /\ LongOK /\ PoolOK
    /\ main \in Places /\ work \in WorkType /\ WorkOK
    /\ status \in StatusType /\ CountersOK /\ CountsOK /\ TagdupOK

\* Nothing is shown at first.
LEMMA InitShown == Init => ShownOK /\ CurOK
BY DEF Init, ShownOK, CurOK, Phase, Counter

\* Where main is when the sums are known.
LEMMA WhenCounted ==
    ASSUME Knows, Counted
    PROVE  /\ main \in InRounds \cup Delivering
           /\ status.total_chunks = NumChunks
           /\ status.total_ctasks = Triangular(NumChunks)
BY DEF Knows, Counted, CountersOK, Before, Counting, InRounds, Delivering, Places

\* The bytes done are within the total.
LEMMA BytesInRange ==
    ASSUME Knows, Counted, AsPlanned
    PROVE  status.tagdup_bytes <= status.total_ctasks * status.chunk_size
<1>1. PICK n \in Nat : n = NumChunks
  BY DEF Knows, EndsOK, NumChunks
<1>2. PICK k \in 0 .. n : k = mainChunk
  BY <1>1 DEF Knows, PoolOK
<1>3. PICK c \in Nat : c = conf.chunk_size /\ c = status.chunk_size
  BY DEF Knows, ConfOK, ConfType, CountersOK, Counted, Before, Counting
<1>4. PICK x \in Nat : x = status.tagdup_bytes
  BY DEF Knows, StatusType
<1>5. main \in InRounds \cup Delivering /\ status.total_ctasks = Triangular(n)
  BY <1>1, WhenCounted
<1>6. n * (n + 1) <= INT_MAX
  BY <1>1 DEF AsPlanned, TasksFit
<1>7. PICK total \in Nat : total = Triangular(n) /\ 2 * total = n * (n + 1)
  BY <1>6, TriangularIs
<1>8. \A i \in 0 .. n : Pairs(i) <= 2 * total /\ Pairs(i) \in Int
  BY <1>1, <1>7, PairsNext, PairsGrow
<1>9. \A i \in 0 .. n : Planned(i) <= c * (2 * total) /\ Planned(i) \in Int
  <2> TAKE i \in 0 .. n
  <2>1. PICK p \in Int : p = Pairs(i) /\ p <= 2 * total
    BY <1>8
  <2>2. c * p <= c * (2 * total) /\ c * p \in Int
    BY <2>1, TimesMore
  <2> QED BY <1>3, <2>1, <2>2 DEF Planned
<1>10. \E i \in 0 .. n : 2 * x <= Planned(i)
  <2>1. CASE main \in {"next"} \cup Delivering
    BY <1>2, <1>4, <2>1 DEF Knows, TagdupOK
  <2>2. CASE main = "populate"
    <3>1. k - 1 \in 0 .. n
      BY <1>2, <2>2 DEF Knows, PoolOK, InRounds
    <3> QED BY <1>2, <1>4, <2>2, <3>1 DEF Knows, TagdupOK
  <2>3. CASE main \in {"populated", "subchunks", "wait"}
    BY <1>2, <1>4, <2>3, RoundReported DEF Knows
  <2> QED BY <1>5, <2>1, <2>2, <2>3 DEF InRounds
<1>11. 2 * x <= c * (2 * total)
  <2>1. PICK i \in 0 .. n : 2 * x <= Planned(i)
    BY <1>10
  <2>2. PICK p \in Int : p = Planned(i) /\ p <= c * (2 * total)
    BY <1>9
  <2>3. c * (2 * total) \in Int
    OBVIOUS
  <2> QED BY <2>1, <2>2, <2>3
<1>12. c * (2 * total) = 2 * (total * c) /\ total * c \in Int
  OBVIOUS
<1>13. x <= total * c
  BY <1>11, <1>12
<1> QED BY <1>3, <1>4, <1>5, <1>7, <1>13

\* The chunks and the tasks done are within the totals, which they do not
\* reach before the last round.
LEMMA DoneInRange ==
    ASSUME Knows
    PROVE  /\ status.done_chunks <= status.total_chunks
           /\ IF Counted THEN TasksFit => status.done_ctasks <= status.total_ctasks
              ELSE status.done_ctasks = 0 /\ status.total_ctasks = 0
<1>1. PICK n \in Nat : n = NumChunks
  BY DEF Knows, EndsOK, NumChunks
<1>2. PICK k \in 0 .. n : k = mainChunk
  BY <1>1 DEF Knows, PoolOK
<1>3. PICK d \in Nat, e \in Nat : d = status.done_ctasks /\ e = status.done_chunks
  BY DEF Knows, StatusType
<1>4. CASE ~ Counted
  <2>1. d = 0 /\ e = 0 /\ status.total_ctasks = 0 /\ status.total_chunks \in Nat
    BY <1>3, <1>4 DEF Counted, Knows, CountersOK, CountsOK, StatusType
  <2> QED BY <1>3, <1>4, <2>1
<1>5. CASE Counted
  <2>1. /\ main \in InRounds \cup Delivering
        /\ status.total_chunks = n /\ status.total_ctasks = Triangular(n)
    BY <1>1, <1>5, WhenCounted
  <2>2. PICK w \in Int : w = Pairs(n) /\ \A i \in 0 .. n : Pairs(i) <= w /\ Pairs(i) \in Int
    BY <1>1, PairsGrow
  <2>3. e <= n /\ 2 * d <= w
    <3>1. CASE main \in {"next"} \cup Delivering
      <4>1. 2 * d = Pairs(k) /\ e = k
        BY <1>2, <1>3, <3>1 DEF Knows, CountsOK
      <4> QED BY <1>3, <2>2, <4>1
    <3>2. CASE main \in {"populate", "populated"}
      <4>1. 2 * d = Pairs(k - 1) /\ e = k - 1 /\ k - 1 \in 0 .. n
        BY <1>2, <1>3, <3>2 DEF Knows, CountsOK, PoolOK, InRounds
      <4> QED BY <1>3, <2>2, <4>1
    <3>3. CASE InTasks
      <4>1. PICK s \in 0 .. n, p \in Nat, r \in Nat :
                s = subChunk /\ p = Len(pending) /\ r = Cardinality(running)
        <5>1. Cardinality(running) \in Nat
          BY FS_CardinalityType DEF Knows, PoolOK
        <5>2. subChunk \in 0 .. n /\ Len(pending) \in Nat
          BY <1>1 DEF Knows, PoolOK
        <5> QED BY <5>1, <5>2
      <4>2. k \in 1 .. n
        BY <1>2, <3>3 DEF Knows, PoolOK, InRounds, InTasks
      <4>3. 2 * (d + p + r) = Pairs(k - 1) + 2 * (1 + s - k) /\ e \in {k - 1, k}
        BY <1>2, <1>3, <3>3, <4>1 DEF Knows, CountsOK
      <4>4. Pairs(k) = Pairs(k - 1) + 2 * (n - k + 1)
        BY <1>1, <4>2, PairsNext
      <4>5. PICK a \in Int, b \in Int : a = Pairs(k - 1) /\ b = Pairs(k) /\ b <= w
        BY <2>2, <4>2
      <4>6. 2 * (d + p + r) = a + 2 * (1 + s - k) /\ b = a + 2 * (n - k + 1)
        BY <4>3, <4>4, <4>5
      <4>7. 2 * d <= b
        BY <1>3, <4>1, <4>2, <4>6
      <4> QED BY <1>3, <2>2, <4>2, <4>3, <4>5, <4>7
    <3> QED BY <2>1, <3>1, <3>2, <3>3 DEF InRounds, InTasks
  <2>4. ASSUME TasksFit
        PROVE  d <= Triangular(n)
    <3>1. PICK total \in Nat : total = Triangular(n) /\ 2 * total = n * (n + 1)
      BY <1>1, <2>4, TriangularIs DEF TasksFit
    <3>2. w = 2 * total
      BY <1>1, <2>2, <3>1, PairsNext
    <3> QED BY <1>3, <2>3, <3>1, <3>2
  <2> QED BY <1>3, <1>5, <2>1, <2>3, <2>4
<1> QED BY <1>4, <1>5

\* The chunks and the tasks done only become more.
LEMMA DoneGrows ==
    ASSUME Knows, Next
    PROVE  /\ status.done_chunks \in Nat /\ status'.done_chunks >= status.done_chunks
           /\ status.done_ctasks \in Nat /\ status'.done_ctasks >= status.done_ctasks
<1>1. status.done_chunks \in Nat /\ status.done_ctasks \in Nat
  BY DEF Knows, StatusType
<1>2. CASE UNCHANGED <<status.done_chunks, status.done_ctasks>>
  BY <1>1, <1>2
<1>3. CASE status' = status
  BY <1>2, <1>3
<1>4. CASE Populated
  BY <1>1, <1>4 DEF Populated, Knows, StatusType
<1>5. CASE ChunkDone
  BY <1>1, <1>5 DEF ChunkDone, Knows, StatusType
<1>6. ASSUME NEW t \in Task, TaskStep(t)
      PROVE  /\ status'.done_chunks >= status.done_chunks
             /\ status'.done_ctasks >= status.done_ctasks
  <2>1. CASE TaskDone(t)
    BY <1>1, <2>1 DEF TaskDone, Knows, StatusType
  <2>2. CASE Report(t)
    BY <1>1, <2>2 DEF Report, Knows, StatusType
  <2>3. CASE Lookup(t) \/ Log(t)
    BY <1>3, <2>3, <1>1 DEF Lookup, Log
  <2> QED BY <1>6, <2>1, <2>2, <2>3 DEF TaskStep
<1>7. CASE Exits \/ BarStep \/ Begin \/ Ended
  BY <1>3, <1>7, BarKeeps
  DEF Exits, ExitStep, PopHandler, RunHandler, EndProcess, Begin, Ended, vars
<1>8. CASE OptParse \/ OptParsed \/ start_progressbar \/ FilesReady \/ ConfigHmap \/ init_hmap
           \/ CountChunk
  BY <1>3, <1>8
  DEF OptParse, OptParsed, start_progressbar, FilesReady, ConfigHmap, init_hmap, CountChunk,
      MainExits
<1>9. CASE InitFiles \/ CopyBlockDone \/ ConfigChunk \/ TagdupStart \/ ChunksCounted
           \/ TasksCounted \/ Populate
  BY <1>1, <1>2, <1>3, <1>9
  DEF InitFiles, CopyBlockDone, ConfigChunk, TagdupStart, ChunksCounted, TasksCounted, Populate,
      MainExits, Knows, StatusType
<1>10. CASE NextChunk \/ CreatePool \/ AddTask \/ WaitReturns \/ DestroyHmap
  BY <1>3, <1>10
  DEF NextChunk, CreatePool, AddTask, WaitReturns, DestroyHmap, MainExits
<1>11. CASE FcleanStart \/ RewriteBatch \/ Rewritten
  BY <1>1, <1>2, <1>11 DEF FcleanStart, RewriteBatch, Rewritten, Knows, StatusType
<1>12. CASE Unmap \/ CleanedUp \/ stop_progressbar \/ Join \/ DisplayReport
  BY <1>3, <1>12
  DEF Unmap, CleanedUp, stop_progressbar, Join, DisplayReport, MainExits
<1> QED
  BY <1>1, <1>4, <1>5, <1>6, <1>7, <1>8, <1>9, <1>10, <1>11, <1>12 DEF Next, MainStep, Work

\* The phases follow each other, the sums stay, and so do the chunks' ends.
LEMMA PhaseGrows ==
    ASSUME CountersOK, CountersOK', EndsOK, EndsOK', Next
    PROVE  /\ Phase <= Phase' /\ Phase \in 1 .. 3 /\ Phase' \in 1 .. 3
           /\ status.total_chunks \in Nat /\ status'.total_chunks >= status.total_chunks
           /\ Counted => /\ Counted' /\ (AsPlanned' <=> AsPlanned) /\ (TasksFit' <=> TasksFit)
                         /\ status'.total_ctasks = status.total_ctasks
<1>1. NumChunks \in Nat /\ NumChunks' \in Nat
  BY DEF EndsOK, NumChunks
<1>2. main' \in Before => main \in Before
  BY MainMoves DEF Before, Counting, InRounds, Delivering
<1>3. main' \in Before \cup {"count_chunks"} => main \in Before \cup {"count_chunks"}
  BY MainMoves DEF Before, Counting, InRounds, Delivering
<1>4. main' \in Before \cup Counting => main \in Before \cup Counting
  BY MainMoves DEF Before, Counting, InRounds, Delivering
<1>5. main \in Delivering \ {"fclean_start"} => main' \in Delivering \ {"fclean_start"}
  <2>1. CASE FcleanStart \/ RewriteBatch \/ Rewritten \/ Unmap \/ CleanedUp \/ stop_progressbar
             \/ Join \/ DisplayReport
    BY <2>1
    DEF FcleanStart, RewriteBatch, Rewritten, Unmap, CleanedUp, stop_progressbar, Join,
        DisplayReport, MainExits, Delivering
  <2>2. CASE OtherStep
    BY <2>2, OthersKeep DEF RunHandler
  <2>3. main \in Delivering =>
            ~ (OptParse \/ OptParsed \/ start_progressbar \/ InitFiles \/ CopyBlockDone
               \/ FilesReady \/ ConfigHmap \/ ConfigChunk \/ init_hmap \/ TagdupStart
               \/ CountChunk \/ ChunksCounted \/ TasksCounted \/ NextChunk \/ Populate
               \/ Populated \/ CreatePool \/ AddTask \/ ChunkDone \/ WaitReturns \/ DestroyHmap)
    BY DEF OptParse, OptParsed, start_progressbar, InitFiles, CopyBlockDone, FilesReady,
           ConfigHmap, ConfigChunk, init_hmap, TagdupStart, CountChunk, ChunksCounted,
           TasksCounted, NextChunk, Populate, Populated, CreatePool, AddTask, ChunkDone,
           WaitReturns, DestroyHmap, Delivering
  <2> QED BY <2>1, <2>2, <2>3 DEF Next, MainStep, OtherStep, Ended, vars
<1>6. Phase <= Phase' /\ Phase \in 1 .. 3 /\ Phase' \in 1 .. 3
  <2>1. /\ status.ctasks_date => status'.ctasks_date
        /\ status.fclean_date => status'.fclean_date
        /\ status.fclean_date => status.ctasks_date
        /\ status'.fclean_date => status'.ctasks_date
    BY <1>2, <1>5 DEF CountersOK, Before, Delivering
  <2> QED BY <2>1 DEF Phase
<1>7. main \notin Before \cup {"count_chunks"} => NumChunks' = NumChunks
  BY Fixed DEF NumChunks
<1>8. status.total_chunks \in Nat /\ status'.total_chunks >= status.total_chunks
  BY <1>1, <1>3, <1>7 DEF CountersOK
<1>9. ASSUME Counted
      PROVE  /\ Counted' /\ (AsPlanned' <=> AsPlanned) /\ (TasksFit' <=> TasksFit)
             /\ status'.total_ctasks = status.total_ctasks
  <2>1. Counted'
    BY <1>4, <1>9 DEF Counted
  <2>2. conf' = conf /\ input' = input /\ NumChunks' = NumChunks
    BY <1>7, <1>9, Fixed DEF Counted, Counting, Before
  <2>3. (AsPlanned' <=> AsPlanned) /\ (TasksFit' <=> TasksFit)
    BY <2>2 DEF AsPlanned, TasksFit
  <2>4. status'.total_ctasks = Triangular(NumChunks)' /\ status.total_ctasks = Triangular(NumChunks)
    BY <1>9, <2>1 DEF CountersOK, Counted
  <2>5. Triangular(NumChunks)' = Triangular(NumChunks)
    BY <2>2 DEF Triangular
  <2> QED BY <2>1, <2>3, <2>4, <2>5
<1> QED BY <1>6, <1>8, <1>9

\* Only the progress thread, and main when it starts it, change what it knows.
LEMMA OnlyBar ==
    ASSUME Next, ~ BarStep
    PROVE  UNCHANGED <<shown, todo, cur>> /\ bar' \in {bar, "loop"}
<1>1. CASE Exits \/ Begin \/ Ended
  BY <1>1
  DEF Exits, ExitStep, PopHandler, RunHandler, EndProcess, Begin, Ended, vars, pbar, progress
<1>2. ASSUME NEW t \in Task, TaskStep(t)
      PROVE  UNCHANGED progress
  BY <1>2 DEF TaskStep, Lookup, Log, Report, TaskDone, pbar
<1>3. CASE OptParse \/ OptParsed \/ start_progressbar \/ InitFiles \/ CopyBlockDone \/ FilesReady
           \/ ConfigHmap \/ ConfigChunk \/ init_hmap \/ TagdupStart \/ CountChunk
           \/ ChunksCounted \/ TasksCounted
  BY <1>3
  DEF OptParse, OptParsed, start_progressbar, InitFiles, CopyBlockDone, FilesReady, ConfigHmap,
      ConfigChunk, init_hmap, TagdupStart, CountChunk, ChunksCounted, TasksCounted, MainExits,
      pbar, progress
<1>4. CASE NextChunk \/ Populate \/ Populated \/ CreatePool \/ AddTask \/ ChunkDone
           \/ WaitReturns \/ DestroyHmap
  BY <1>4
  DEF NextChunk, Populate, Populated, CreatePool, AddTask, ChunkDone, WaitReturns, DestroyHmap,
      MainExits, pbar, progress
<1>5. CASE FcleanStart \/ RewriteBatch \/ Rewritten \/ Unmap \/ CleanedUp \/ stop_progressbar
           \/ Join \/ DisplayReport
  BY <1>5
  DEF FcleanStart, RewriteBatch, Rewritten, Unmap, CleanedUp, stop_progressbar, Join,
      DisplayReport, MainExits, pbar, progress
<1> QED BY <1>1, <1>2, <1>3, <1>4, <1>5 DEF Next, MainStep, Work, progress

\* The phase that is shown was the current one when it was read.
LEMMA ShownStep ==
    ASSUME Knows, CountersOK', EndsOK', ShownOK, Next
    PROVE  ShownOK'
<1>1. /\ Phase <= Phase' /\ Phase \in 1 .. 3 /\ Phase' \in 1 .. 3
      /\ Counted => Counted' /\ (AsPlanned' <=> AsPlanned)
  BY PhaseGrows DEF Knows
<1>2. input' = input
  BY Fixed
<1>3. CASE shown' = shown
  BY <1>1, <1>2, <1>3 DEF ShownOK
<1>4. CASE shown' = [phase |-> 0, over |-> FALSE]
  <2>1. shown'.phase = 0 /\ ~ shown'.over /\ shown' \in [phase : 0 .. 3, over : BOOLEAN]
    BY <1>4
  <2> QED BY <1>1, <2>1 DEF ShownOK
<1>5. ASSUME NEW p \in 1 .. 3, shown' = [phase |-> p, over |-> FALSE], p <= Phase,
             p = 2 => Counted
      PROVE  ShownOK'
  <2>1. shown'.phase = p /\ ~ shown'.over /\ shown' \in [phase : 0 .. 3, over : BOOLEAN]
    BY <1>5 DEF ShownOK
  <2> QED BY <1>1, <1>5, <2>1 DEF ShownOK
<1>6. CASE BarRead
  <2>1. CASE status.fclean_bytes # 0 /\ bar' = "ratio" /\ shown' = [phase |-> 3, over |-> FALSE]
    <3>1. main \in Delivering \ {"fclean_start"}
      BY <2>1 DEF Knows, CountersOK
    <3>2. Phase = 3
      BY <3>1 DEF Knows, CountersOK, Phase, Before, Delivering
    <3> QED BY <1>5, <2>1, <3>2
  <2> QED BY <1>3, <1>6, <2>1 DEF BarRead
<1>7. CASE BarTagdup
  <2> DEFINE p == IF status.tagdup_bytes # 0 THEN 2 ELSE 1
  <2>1. shown' = [phase |-> p, over |-> FALSE] /\ p \in 1 .. 3
    BY <1>7 DEF BarTagdup
  <2>2. status.tagdup_bytes # 0 => Counted /\ status.ctasks_date
    BY DEF Knows, CountersOK, Counted
  <2>3. p <= Phase /\ (p = 2 => Counted)
    BY <1>1, <2>2 DEF Phase
  <2> QED BY <1>5, <2>1, <2>3
<1>8. CASE BarRatio
  <2>1. shown' = [shown EXCEPT !.over = Beyond] /\ Beyond \in BOOLEAN
    BY <1>8 DEF BarRatio, Beyond
  <2>2. CASE shown.phase = 3
    <3>1. main \in Delivering \ {"fclean_start"}
      BY <1>1, <2>2 DEF ShownOK, Knows, CountersOK, Phase
    <3>2. PICK s \in Nat, t \in Nat, x \in Nat :
              s = input.size /\ t = input.tail /\ x = status.fclean_bytes
      BY SessionAssumption DEF Knows, ConfOK, StatusType
    <3>3. x <= s - t
      BY <3>2 DEF Knows, CountersOK
    <3>4. ~ input.pipe => status.file_size = s
      BY <3>1, <3>2 DEF Knows, CountersOK, Early, Delivering
    <3>5. ~ input.pipe => ~ Beyond
      BY <2>2, <3>2, <3>3, <3>4 DEF Beyond
    <3> QED BY <1>1, <1>2, <2>1, <2>2, <3>5 DEF ShownOK
  <2>3. CASE shown.phase = 2
    <3>1. Counted
      BY <2>3 DEF ShownOK
    <3>2. ASSUME AsPlanned
          PROVE  ~ Beyond
      <4>1. PICK x \in Nat, z \in Int :
                x = status.tagdup_bytes /\ z = status.total_ctasks * status.chunk_size
        <5>1. \A a, b \in Int : a * b \in Int
          OBVIOUS
        <5> QED BY <5>1 DEF Knows, StatusType
      <4>2. x <= z
        BY <3>1, <3>2, <4>1, BytesInRange
      <4> QED BY <2>3, <4>1, <4>2 DEF Beyond
    <3> QED BY <1>1, <2>1, <2>3, <3>1, <3>2 DEF ShownOK
  <2>4. CASE shown.phase \notin {2, 3}
    <3>1. status.file_size \in Nat /\ status.fcopy_bytes \in Nat
      BY DEF Knows, StatusType
    <3>2. ~ input.pipe => ~ Beyond
      BY <2>4, <3>1 DEF Knows, CountersOK, Beyond
    <3> QED BY <1>1, <1>2, <2>1, <2>4, <3>2 DEF ShownOK
  <2> QED BY <2>2, <2>3, <2>4
<1>9. CASE BarText \/ BarPrint
  BY <1>3, <1>4, <1>9 DEF BarText, BarPrint, Displayed
<1>10. ASSUME NEW c \in Counter, BarFirst(c) \/ BarSecond(c)
       PROVE  ShownOK'
  BY <1>3, <1>10 DEF BarFirst, BarSecond
<1>11. CASE ~ BarStep
  BY <1>3, <1>11, OnlyBar
<1> QED BY <1>6, <1>7, <1>8, <1>9, <1>10, <1>11 DEF BarStep

\* Between its two readings of a counter, and behind them, the threads count
\* on; that only brings what it writes farther from the total.
LEMMA CurStep ==
    ASSUME Knows, CountersOK', EndsOK', cur \in [Counter -> Nat], CurOK, Next
    PROVE  CurOK'
<1>1. /\ status.done_chunks \in Nat /\ status'.done_chunks >= status.done_chunks
      /\ status.done_ctasks \in Nat /\ status'.done_ctasks >= status.done_ctasks
      /\ status'.done_chunks \in Nat /\ status'.done_ctasks \in Nat
  <2>1. status' \in StatusType
    BY StatusStep DEF Knows
  <2> QED BY <2>1, DoneGrows DEF StatusType
<1>2. /\ status.total_chunks \in Nat /\ status'.total_chunks >= status.total_chunks
      /\ status'.total_chunks \in Nat
      /\ Counted => Counted' /\ (TasksFit' <=> TasksFit)
                    /\ status'.total_ctasks = status.total_ctasks
  <2>1. status' \in StatusType
    BY StatusStep DEF Knows
  <2> QED BY <2>1, PhaseGrows DEF Knows, StatusType
<1>3. \A c \in Counter : Done(c) \in Nat /\ Done(c)' >= Done(c) /\ Done(c)' \in Nat
  BY <1>1 DEF Done, Counter
<1>4. /\ Done("chunk") <= Total("chunk") /\ Total("chunk") \in Nat
      /\ IF Counted THEN TasksFit => Done("ctask") <= Total("ctask")
         ELSE Done("ctask") = 0 /\ Total("ctask") = 0
      /\ Total("ctask") \in Int
  BY <1>2, DoneInRange DEF Done, Total, Knows, StatusType
<1>5. ASSUME cur' = cur, \A c \in Counter : bar' = c => bar = c
      PROVE  CurOK'
  <2>1. \A c \in Counter : bar' = c => cur'[c] <= Done(c)'
    <3> TAKE c \in Counter
    <3> HAVE bar' = c
    <3>1. cur[c] <= Done(c) /\ cur[c] \in Nat
      BY <1>5 DEF CurOK
    <3> QED BY <1>3, <1>5, <3>1
  <2>2. cur'["chunk"] <= status'.total_chunks
    BY <1>2, <1>5 DEF CurOK, Counter
  <2>3. cur'["ctask"] = 0 \/ (Counted' /\ (TasksFit' => cur'["ctask"] <= status'.total_ctasks))
    BY <1>2, <1>5 DEF CurOK
  <2> QED BY <2>1, <2>2, <2>3 DEF CurOK
<1>6. CASE cur' = [c \in Counter |-> 0] /\ bar' \notin Counter
  BY <1>2, <1>6 DEF CurOK, Counter
<1>7. ASSUME NEW c \in Counter, NEW x \in Nat, cur' = [cur EXCEPT ![c] = x],
             UNCHANGED <<status, Counted, TasksFit>>,
             \A d \in Counter : bar' = d => d = c /\ x <= Done(c),
             IF c = "chunk" THEN x <= Total("chunk")
             ELSE x = 0 \/ (Counted /\ (TasksFit => x <= Total("ctask")))
      PROVE  CurOK'
  <2>1. cur'[c] = x /\ \A d \in Counter : d # c => cur'[d] = cur[d]
    BY <1>7
  <2>2. \A d \in Counter : bar' = d => cur'[d] <= Done(d)'
    BY <1>7, <2>1 DEF Done
  <2>3. cur'["chunk"] <= status'.total_chunks
    BY <1>7, <2>1 DEF CurOK, Counter, Total
  <2>4. cur'["ctask"] = 0 \/ (Counted' /\ (TasksFit' => cur'["ctask"] <= status'.total_ctasks))
    BY <1>7, <2>1 DEF CurOK, Counter, Total
  <2> QED BY <2>2, <2>3, <2>4 DEF CurOK
<1>8. ASSUME BarStep
      PROVE  UNCHANGED <<status, Counted, TasksFit>>
  BY <1>8, BarKeeps DEF Counted, TasksFit, NumChunks
<1>9. ASSUME NEW c \in Counter, BarFirst(c)
      PROVE  CurOK'
  <2>1. /\ cur' = [cur EXCEPT ![c] = Done(c)] /\ bar' = c
        /\ UNCHANGED <<status, Counted, TasksFit>>
    BY <1>8, <1>9 DEF BarFirst, BarStep
  <2>2. IF c = "chunk" THEN Done(c) <= Total("chunk")
        ELSE Done(c) = 0 \/ (Counted /\ (TasksFit => Done(c) <= Total("ctask")))
    BY <1>4 DEF Counter
  <2>3. Done(c) \in Nat /\ Done(c) <= Done(c)
    BY <1>3
  <2> QED BY <1>7, <2>1, <2>2, <2>3
<1>10. ASSUME NEW c \in Counter, BarSecond(c)
       PROVE  CurOK'
  <2> DEFINE x == IF Done(c) < Total(c) THEN cur[c] + 1 ELSE cur[c]
  <2>1. /\ cur' = [cur EXCEPT ![c] = x] /\ bar' \in {"print", "counters"} /\ bar = c
        /\ UNCHANGED <<status, Counted, TasksFit>>
    BY <1>8, <1>10 DEF BarSecond, BarStep
  <2>2. cur[c] \in Nat /\ cur[c] <= Done(c) /\ Done(c) \in Nat
    BY <1>3, <2>1 DEF CurOK
  <2>3. Total(c) \in Int
    BY <1>4 DEF Counter
  <2>4. x \in Nat /\ (x = cur[c] \/ x <= Total(c))
    BY <2>2, <2>3
  <2>5. IF c = "chunk" THEN x <= Total("chunk")
        ELSE x = 0 \/ (Counted /\ (TasksFit => x <= Total("ctask")))
    <3>1. CASE c = "chunk"
      BY <1>4, <2>2, <2>4, <3>1
    <3>2. CASE c = "ctask" /\ Counted
      BY <1>4, <2>2, <2>4, <3>2
    <3>3. CASE c = "ctask" /\ ~ Counted
      <4>1. Done(c) = 0 /\ Total(c) = 0
        BY <1>4, <3>3
      <4>2. cur[c] = 0
        BY <2>2, <4>1
      <4> QED BY <3>3, <4>1, <4>2
    <3> QED BY <3>1, <3>2, <3>3 DEF Counter
  <2> HIDE DEF x
  <2>6. \A d \in Counter : bar' # d
    BY <2>1 DEF Counter
  <2> QED BY <1>7, <2>1, <2>4, <2>5, <2>6
<1>11. CASE BarRead \/ BarTagdup \/ BarRatio
  BY <1>5, <1>11 DEF BarRead, BarTagdup, BarRatio, Counter
<1>12. CASE BarText \/ BarPrint
  BY <1>5, <1>6, <1>12 DEF BarText, BarPrint, Displayed, Counter
<1>13. CASE ~ BarStep
  BY <1>5, <1>13, OnlyBar DEF Counter
<1> QED BY <1>9, <1>10, <1>11, <1>12, <1>13 DEF BarStep


\* A step of nobody.
LEMMA ShownStutter ==
    ASSUME LongOK, WorkOK, CountersOK, TagdupOK, ShownOK, CurOK, UNCHANGED vars
    PROVE  LongOK' /\ WorkOK' /\ CountersOK' /\ TagdupOK' /\ ShownOK' /\ CurOK'
<1>1. UNCHANGED <<conf, input, main, ends, mainChunk, work, status, bar, shown, cur>>
  BY DEF vars, setup, rounds, pbar, progress
<1>2. /\ NumChunks' = NumChunks /\ \A j : EndOf(j)' = EndOf(j)
      /\ Fresh' = Fresh /\ Phase' = Phase /\ (AsPlanned' <=> AsPlanned)
      /\ (TasksFit' <=> TasksFit) /\ (Counted' <=> Counted)
      /\ Triangular(NumChunks)' = Triangular(NumChunks)
  BY <1>1 DEF NumChunks, EndOf, Fresh, Phase, AsPlanned, TasksFit, Counted, Triangular
<1>3. /\ \A j : BytesOf(j)' = BytesOf(j)
      /\ Planned(mainChunk)' = Planned(mainChunk)
      /\ Planned(mainChunk - 1)' = Planned(mainChunk - 1)
      /\ Reported' = Reported
  BY <1>1, <1>2 DEF BytesOf, Planned, Pairs, Reported
<1>4. \A b : Reports(Reported, b)' <=> Reports(Reported, b)
  BY <1>2, <1>3 DEF Reports
<1>5. LongOK' /\ WorkOK'
  BY <1>1, <1>2 DEF LongOK, WorkOK
<1>6. CountersOK'
  BY <1>1, <1>2 DEF CountersOK
<1>7. TagdupOK'
  BY <1>1, <1>2, <1>3, <1>4 DEF TagdupOK
<1>8. ShownOK' /\ CurOK'
  BY <1>1, <1>2 DEF ShownOK, CurOK, Done
<1> QED BY <1>5, <1>6, <1>7, <1>8

\* All of it holds in every reachable state.
LEMMA ShownInductive == Spec => [](Knows /\ ShownOK /\ CurOK)
<1> DEFINE More == LongOK /\ WorkOK /\ CountersOK /\ TagdupOK /\ ShownOK /\ CurOK
<1>1. Init => More
  <2>1. Init => LongOK
    <3> SUFFICES ASSUME Init PROVE LongOK
      OBVIOUS
    <3>1. NumChunks = 0 /\ EndOf(0) = 0 /\ conf.chunk_size = 0
      BY DEF Init, NumChunks, EndOf, DefaultConf
    <3>2. 0 * 0 = 0 /\ \A j \in 0 .. 0 : j = 0
      OBVIOUS
    <3> QED BY <3>1, <3>2 DEF LongOK
  <2> QED BY <2>1, InitWork, InitCounters, InitTagdup, InitShown
<1>2. IInv /\ More /\ [Next]_vars => More'
  <2>1. ASSUME IInv, More, Next
        PROVE  More'
    <3>1. /\ ConfOK /\ EndsOK /\ PoolOK /\ main \in Places /\ work \in WorkType
          /\ status \in StatusType /\ CountsOK /\ cur \in [Counter -> Nat]
      BY <2>1 DEF IInv, RestOK
    <3>2. CountersOK'
      BY <2>1, <3>1, CountersStep
    <3>3. LongOK' /\ WorkOK' /\ TagdupOK'
      BY <2>1, <3>1, LongStep, WorkStep, TagdupStep
    <3>4. ShownOK' /\ CurOK'
      <4>1. EndsOK' /\ Knows
        BY <2>1, <3>1, EndsStep DEF Knows
      <4> QED BY <2>1, <3>1, <3>2, <4>1, ShownStep, CurStep
    <3> QED BY <3>2, <3>3, <3>4
  <2>2. ASSUME More, UNCHANGED vars
        PROVE  More'
    BY <2>2, ShownStutter
  <2> QED BY <2>1, <2>2
<1>3. IInv /\ More => Knows /\ ShownOK /\ CurOK
  BY DEF IInv, RestOK, Knows
<1> QED BY <1>1, <1>2, <1>3, Inductive, PTL DEF Spec

(***************************************************************************)
(* What the progress thread writes is in range, although it reads the      *)
(* counters one after the other while the threads count on: for every      *)
(* number of processors and chunks, the bytes reported in a round are      *)
(* those of different chunks, so they are no more than what is left of the *)
(* file; and a counter that is below its total at a second reading was so  *)
(* at the first one.                                                       *)
(***************************************************************************)
THEOREM ProgressStaysInRange == Spec => []ProgressInRange
<1>1. Knows /\ ShownOK /\ CurOK => ProgressInRange
  <2> SUFFICES ASSUME Knows, ShownOK, CurOK PROVE ProgressInRange
    OBVIOUS
  <2>1. TasksFit => cur["ctask"] <= status.total_ctasks
    <3> SUFFICES ASSUME TasksFit, cur["ctask"] = 0 PROVE 0 <= status.total_ctasks
      BY DEF CurOK
    <3>1. IF Counted THEN status.done_ctasks <= status.total_ctasks ELSE status.total_ctasks = 0
      BY DoneInRange
    <3>2. status.done_ctasks \in Nat /\ status.total_ctasks \in Int
      BY DEF Knows, StatusType
    <3> QED BY <3>1, <3>2
  <2> QED BY <2>1 DEF ShownOK, CurOK, ProgressInRange
<1> QED BY <1>1, ShownInductive, PTL

-----------------------------------------------------------------------------
(* The order of the work                                                   *)

\* The places behind a round.
Over == {"next"} \cup Delivering

\* The tasks that a thread has taken from the queue.
Begun(t) ==
    /\ t[2] <= NumChunks
    /\ \/ t[1] < mainChunk
       \/ t[1] = mainChunk /\ main \in Over
       \/ t[1] = mainChunk /\ InTasks /\ t[2] <= subChunk - Len(pending)

\* Each is being worked on or done, and no other one was touched.
Worked ==
    \A t \in Task : IF Begun(t) THEN t \in running \/ work[t] = "done"
                    ELSE t \notin running /\ work[t] = "lookup"

\* The steps that have to do with the order of the tasks.
OrderStep ==
    \/ TagdupStart \/ CountChunk \/ ChunksCounted \/ TasksCounted \/ NextChunk \/ Populated
    \/ (AddTask /\ ~ MainExits(1)) \/ ChunkDone \/ WaitReturns \/ DestroyHmap
    \/ Begin \/ \E t \in Task : t \in running /\ (Lookup(t) \/ Log(t) \/ Report(t) \/ TaskDone(t))

\* What the steps leave alone that have nothing to do with it.
Elsewhere ==
    /\ UNCHANGED <<ends, mainChunk, subChunk, pending, running>>
    /\ main' \in Over <=> main \in Over
    /\ main' \in Delivering <=> main \in Delivering
    /\ main' \in {"populate", "populated"} <=> main \in {"populate", "populated"}
    /\ InTasks' <=> InTasks

\* All the others.
LEMMA OtherOrder ==
    ASSUME [Next]_vars, ~ OrderStep
    PROVE  Elsewhere /\ UNCHANGED work
<1>1. CASE Exits \/ BarStep \/ Ended \/ UNCHANGED vars
  BY <1>1, BarKeeps
  DEF Exits, ExitStep, PopHandler, RunHandler, EndProcess, Ended, vars, rounds, pool, Elsewhere,
      InTasks
<1>2. CASE MainExits(0) \/ MainExits(1)
  BY <1>2 DEF MainExits, rounds, pool, Elsewhere, InTasks
<1>3. CASE OptParse \/ OptParsed \/ start_progressbar \/ InitFiles \/ CopyBlockDone \/ FilesReady
           \/ ConfigHmap \/ ConfigChunk \/ init_hmap
  BY <1>2, <1>3
  DEF OptParse, OptParsed, start_progressbar, InitFiles, CopyBlockDone, FilesReady, ConfigHmap,
      ConfigChunk, init_hmap, rounds, pool, Elsewhere, InTasks, Over, Delivering
<1>4. CASE Populate \/ CreatePool \/ AddTask
  BY <1>2, <1>4
  DEF Populate, CreatePool, AddTask, Pool!Create, rounds, pool, Elsewhere, InTasks, Over,
      Delivering, OrderStep
<1>5. CASE FcleanStart \/ RewriteBatch \/ Rewritten \/ Unmap \/ CleanedUp \/ stop_progressbar
           \/ Join \/ DisplayReport
  BY <1>2, <1>5
  DEF FcleanStart, RewriteBatch, Rewritten, Unmap, CleanedUp, stop_progressbar, Join,
      DisplayReport, rounds, pool, Elsewhere, InTasks, Over, Delivering
<1> QED
  BY <1>1, <1>3, <1>4, <1>5 DEF Next, MainStep, Work, TaskStep, OrderStep

\* The steps that begin no task.
LEMMA BegunSame ==
    ASSUME EndsOK, PoolOK, Next, ~ Begin
    PROVE  \A t \in Task : Begun(t)' <=> Begun(t)
<1>1. /\ mainChunk \in Nat /\ NumChunks \in Nat /\ mainChunk <= NumChunks
      /\ \A t \in Task : t[1] \in Nat /\ t[2] \in Nat /\ t[1] >= 1 /\ t[1] < t[2]
  BY DEF EndsOK, PoolOK, NumChunks, Task, Chunk
<1>2. CASE ~ OrderStep
  <2>1. Elsewhere
    BY <1>2, OtherOrder
  <2>2. UNCHANGED NumChunks
    BY <2>1 DEF Elsewhere, NumChunks
  <2> QED BY <2>1, <2>2 DEF Elsewhere, Begun
<1>3. CASE CountChunk \/ TagdupStart \/ ChunksCounted \/ TasksCounted
  <2>1. mainChunk = 0 /\ mainChunk' = 0
    BY <1>3
    DEF CountChunk, TagdupStart, ChunksCounted, TasksCounted, PoolOK, rounds, Before, Counting
  <2> QED BY <1>1, <2>1 DEF Begun
<1>4. CASE NextChunk
  <2>1. /\ main = "next" /\ main' = "populate" /\ mainChunk' = mainChunk + 1 /\ UNCHANGED NumChunks
    BY <1>4 DEF NextChunk, NumChunks
  <2>2. \A t \in Task : Begun(t)' <=> (t[2] <= NumChunks /\ t[1] < mainChunk + 1)
    BY <2>1 DEF Begun, InTasks, Over, Delivering
  <2>3. \A t \in Task : Begun(t) <=> (t[2] <= NumChunks /\ (t[1] < mainChunk \/ t[1] = mainChunk))
    BY <2>1 DEF Begun, InTasks, Over
  <2> QED BY <1>1, <2>2, <2>3
<1>5. CASE Populated
  <2>1. /\ main = "populated" /\ main' = "subchunks" /\ subChunk' = mainChunk
        /\ UNCHANGED <<mainChunk, NumChunks, pending>> /\ pending = << >> /\ Len(pending) = 0
    BY <1>5 DEF Populated, NumChunks, pool, PoolOK, InTasks
  <2>2. \A t \in Task : Begun(t)' <=> (t[2] <= NumChunks /\ (t[1] < mainChunk
                                             \/ (t[1] = mainChunk /\ t[2] <= mainChunk)))
    BY <1>1, <2>1 DEF Begun, InTasks, Over, Delivering
  <2>3. \A t \in Task : Begun(t) <=> (t[2] <= NumChunks /\ t[1] < mainChunk)
    BY <2>1 DEF Begun, InTasks, Over, Delivering
  <2> QED BY <1>1, <2>2, <2>3
<1>6. CASE AddTask /\ ~ MainExits(1)
  <2>1. /\ main = "subchunks" /\ main' = main /\ UNCHANGED <<mainChunk, ends>>
        /\ subChunk' = subChunk + 1 /\ pending' = Append(pending, <<mainChunk, subChunk + 1>>)
    BY <1>6 DEF AddTask, Pool!Add
  <2>2. Len(pending') = Len(pending) + 1 /\ Len(pending) \in Nat /\ subChunk \in Nat
    BY <1>1, <2>1 DEF PoolOK
  <2>3. subChunk' - Len(pending') = subChunk - Len(pending) /\ UNCHANGED NumChunks
    BY <2>1, <2>2 DEF NumChunks
  <2> QED BY <2>1, <2>3 DEF Begun, InTasks
<1>7. CASE ChunkDone \/ WaitReturns \/ DestroyHmap
  <2>1. /\ UNCHANGED <<ends, mainChunk, subChunk, pending, running>>
        /\ \/ main = "subchunks" /\ main' = "wait"
           \/ /\ main = "next" /\ main' = "fclean_start"
           \/ /\ InTasks /\ main' = "next" /\ subChunk = NumChunks /\ pending = << >>
    BY <1>7
    DEF ChunkDone, WaitReturns, DestroyHmap, rounds, pool, Pool!Wait, Pool!WaitReturns,
        Pool!Destroy, PoolOK, InTasks
  <2>2. UNCHANGED NumChunks /\ Len(<< >>) = 0
    BY <2>1 DEF NumChunks
  <2>3. CASE main # "next" /\ main' = "next"
    <3>1. subChunk - Len(pending) = NumChunks
      BY <1>1, <2>1, <2>2, <2>3
    <3> QED BY <2>1, <2>2, <2>3, <3>1 DEF Begun, InTasks, Over
  <2>4. CASE main = "next" \/ main' # "next"
    BY <2>1, <2>2, <2>4 DEF Begun, InTasks, Over, Delivering
  <2> QED BY <2>3, <2>4
<1>8. ASSUME NEW t \in Task, Lookup(t) \/ Log(t) \/ Report(t) \/ TaskDone(t)
      PROVE  \A u \in Task : Begun(u)' <=> Begun(u)
  <2>1. UNCHANGED <<ends, main, mainChunk, subChunk, pending>>
    BY <1>8 DEF Lookup, Log, Report, TaskDone, rounds, pool, Pool!Finish
  <2>2. UNCHANGED NumChunks
    BY <2>1 DEF NumChunks
  <2> QED BY <2>1, <2>2 DEF Begun, InTasks
<1> QED BY <1>2, <1>3, <1>4, <1>5, <1>6, <1>7, <1>8 DEF OrderStep

\* A thread takes the next task of the round.
LEMMA BegunNext ==
    ASSUME EndsOK, PoolOK, Begin
    PROVE  /\ Head(pending) \in Task /\ ~ Begun(Head(pending))
           /\ running' = running \cup {Head(pending)}
           /\ \A t \in Task : Begun(t)' <=> Begun(t) \/ t = Head(pending)
<1>1. /\ UNCHANGED <<main, mainChunk, subChunk, ends>> /\ pending # << >> /\ pending \in Seq(Task)
      /\ running' = running \cup {Head(pending)} /\ pending' = Tail(pending)
  BY DEF Begin, Pool!Begin, rounds, PoolOK
<1>2. InTasks
  BY <1>1 DEF PoolOK
<1>3. PICK p \in Nat : p = Len(pending) /\ p >= 1
  BY <1>1
<1>4. PICK n \in Nat : n = NumChunks /\ n = NumChunks'
  BY <1>1 DEF EndsOK, NumChunks
<1>5. PICK s \in 0 .. n, c \in 0 .. n : s = subChunk /\ c = mainChunk
  BY <1>4 DEF PoolOK
<1>6. Len(pending') = p - 1 /\ Head(pending) = pending[1] /\ Head(pending) \in Task
  BY <1>1, <1>3
<1> DEFINE h == <<c, s - p + 1>>
<1>7. Head(pending) = h /\ h[1] = c /\ h[2] = s - p + 1
  <2>1. 1 \in 1 .. p
    BY <1>3
  <2> QED BY <1>3, <1>5, <1>6, <2>1 DEF PoolOK
<1> HIDE DEF h
<1>8. main \notin Over
  BY <1>2 DEF InTasks, Over, Delivering
<1>9. \A t \in Task : Begun(t) <=> (t[2] <= n /\ (t[1] < c \/ (t[1] = c /\ t[2] <= s - p)))
  BY <1>2, <1>3, <1>4, <1>5, <1>8 DEF Begun
<1>10. \A t \in Task : Begun(t)' <=> (t[2] <= n /\ (t[1] < c \/ (t[1] = c /\ t[2] <= s - (p - 1))))
  BY <1>1, <1>2, <1>3, <1>4, <1>5, <1>6, <1>8 DEF Begun, InTasks
<1>11. \A t \in Task : t[1] \in Nat /\ t[2] \in Nat /\ (t[1] = h[1] /\ t[2] = h[2] => t = h)
  <2>1. h \in Task
    BY <1>6, <1>7
  <2>2. \A t \in Task : t[1] \in Nat /\ t[2] \in Nat /\ t = <<t[1], t[2]>>
    BY DEF Task, Chunk
  <2> QED BY <2>1, <2>2
<1>12. s - p + 1 <= n /\ s - (p - 1) = s - p + 1 /\ ~ (s - p + 1 <= s - p) /\ ~ (c < c)
  BY <1>3, <1>5
<1>13. ~ Begun(h)
  BY <1>6, <1>7, <1>9, <1>12
<1>14. \A t \in Task : Begun(t)' <=> Begun(t) \/ t = h
  <2> TAKE t \in Task
  <2>1. t[2] <= s - (p - 1) <=> t[2] <= s - p \/ t[2] = s - p + 1
    BY <1>3, <1>5, <1>11
  <2> QED BY <1>7, <1>9, <1>10, <1>11, <1>12, <2>1
<1> QED BY <1>1, <1>6, <1>7, <1>13, <1>14

\* Each task is done once, in its round.
LEMMA WorkedStep ==
    ASSUME EndsOK, PoolOK, work \in WorkType, Worked, Next
    PROVE  Worked'
<1>1. CASE Begin
  BY <1>1, BegunNext DEF Worked, Begin
<1>2. ASSUME NEW t \in Task, t \in running, Lookup(t) \/ Log(t) \/ Report(t)
      PROVE  Worked'
  <2>1. Begun(t)
    BY <1>2 DEF Worked
  <2>2. running' = running /\ \A u \in Task : u # t => work'[u] = work[u]
    BY <1>2 DEF Lookup, Log, Report, pool, WorkType
  <2>3. \A u \in Task : Begun(u)' <=> Begun(u)
    BY <1>2, BegunSame DEF Lookup, Log, Report, pool, Begin, Pool!Begin
  <2> QED BY <1>2, <2>1, <2>2, <2>3 DEF Worked
<1>3. ASSUME NEW t \in Task, TaskDone(t)
      PROVE  Worked'
  <2>1. /\ running' = running \ {t} /\ work' = work /\ work[t] = "done" /\ UNCHANGED pending
        /\ t \in running
    BY <1>3 DEF TaskDone, Pool!Finish
  <2>2. ~ Begin
    BY <2>1 DEF Begin, Pool!Begin
  <2>3. \A u \in Task : Begun(u)' <=> Begun(u)
    BY <2>2, BegunSame
  <2> QED BY <2>1, <2>3 DEF Worked
<1>4. CASE ~ OrderStep
  <2>1. UNCHANGED <<running, work, pending>>
    BY <1>4, OtherOrder DEF Elsewhere
  <2>2. ~ Begin
    BY <1>4 DEF OrderStep
  <2> QED BY <2>1, <2>2, BegunSame DEF Worked
<1>5. CASE TagdupStart \/ CountChunk \/ ChunksCounted \/ TasksCounted \/ NextChunk \/ Populated
           \/ (AddTask /\ ~ MainExits(1)) \/ ChunkDone \/ WaitReturns \/ DestroyHmap
  <2>1. UNCHANGED <<running, work>> /\ ~ Begin
    BY <1>5
    DEF TagdupStart, CountChunk, ChunksCounted, TasksCounted, NextChunk, Populated, AddTask,
        ChunkDone, WaitReturns, DestroyHmap, Pool!Add, Pool!Wait, Pool!WaitReturns, Pool!Destroy,
        pool, Begin, Pool!Begin, PoolOK, InTasks
  <2> QED BY <2>1, BegunSame DEF Worked
<1> QED BY <1>1, <1>2, <1>3, <1>4, <1>5 DEF OrderStep

\* The main thread's own pairs.
MainPairs ==
    {<<c, c>> : c \in {k \in 1 .. mainChunk :
                         k = mainChunk => main \notin {"populate", "populated"}}}

\* The pairs that are done, and what Rounds wants to know of them.
LEMMA PairsAre ==
    ASSUME EndsOK, PoolOK, work \in WorkType, Worked
    PROVE  /\ PairsDone = {t \in Task : Begun(t) /\ t \notin running} \cup MainPairs
           /\ main \in Over =>
                 /\ running = {}
                 /\ \A p \in Rounds!Pairs : p[1] <= mainChunk => p \in PairsDone
           /\ main = "next" /\ mainChunk = NumChunks => PairsDone = Rounds!Pairs
           /\ InTasks => <<mainChunk, mainChunk>> \in PairsDone
           /\ mainChunk = 0 => PairsDone = {}
<1>1. /\ mainChunk \in Nat /\ NumChunks \in Nat /\ mainChunk <= NumChunks /\ NumChunks <= MaxChunks
      /\ \A t \in Task :
            /\ t[1] \in Nat /\ t[2] \in Nat /\ t[1] >= 1 /\ t[1] < t[2]
            /\ t = <<t[1], t[2]>>
  BY DEF EndsOK, PoolOK, NumChunks, Task, Chunk
<1>2. PairsDone = {t \in Task : Begun(t) /\ t \notin running} \cup MainPairs
  <2>1. \A t \in Task : work[t] = "done" /\ t \notin running <=> Begun(t) /\ t \notin running
    BY DEF Worked
  <2> QED BY <2>1 DEF PairsDone, MainPairs
<1>3. \A p \in Rounds!Pairs :
          /\ p = <<p[1], p[2]>> /\ p[1] \in 1 .. NumChunks /\ p[2] \in 1 .. NumChunks
          /\ p[1] = p[2] \/ p \in Task
  <2> SUFFICES ASSUME NEW p \in Rounds!Pairs
               PROVE  /\ p = <<p[1], p[2]>> /\ p[1] \in 1 .. NumChunks /\ p[2] \in 1 .. NumChunks
                      /\ p[1] = p[2] \/ p \in Task
    OBVIOUS
  <2>1. p \in (1 .. NumChunks) \X (1 .. NumChunks) /\ p[1] <= p[2]
    BY DEF Rounds!Pairs
  <2>2. p = <<p[1], p[2]>> /\ p[1] \in 1 .. NumChunks /\ p[2] \in 1 .. NumChunks
    BY <2>1
  <2>3. p[1] # p[2] => p \in Task
    <3>1. p[1] \in Chunk /\ p[2] \in Chunk
      BY <1>1, <2>2, SessionAssumption DEF Chunk
    <3> QED BY <1>1, <2>1, <2>2, <3>1 DEF Task
  <2> QED BY <2>2, <2>3
<1>4. ASSUME main \in Over
      PROVE  running = {} /\ \A p \in Rounds!Pairs : p[1] <= mainChunk => p \in PairsDone
  <2>1. running = {} /\ main \notin {"populate", "populated"}
    BY <1>4 DEF PoolOK, InTasks, Over, Delivering
  <2>2. ASSUME NEW p \in Rounds!Pairs, p[1] <= mainChunk
        PROVE  p \in PairsDone
    <3>1. CASE p[1] = p[2]
      <4>1. p = <<p[1], p[1]>> /\ p[1] \in 1 .. mainChunk
        BY <1>1, <1>3, <2>2, <3>1
      <4> QED BY <1>2, <2>1, <4>1 DEF MainPairs
    <3>2. CASE p[1] # p[2]
      <4>1. p \in Task /\ p[2] <= NumChunks /\ (p[1] < mainChunk \/ p[1] = mainChunk)
        BY <1>1, <1>3, <2>2, <3>2
      <4>2. Begun(p)
        BY <1>4, <4>1 DEF Begun
      <4> QED BY <1>2, <2>1, <4>1, <4>2
    <3> QED BY <3>1, <3>2
  <2> QED BY <2>1, <2>2
<1>5. PairsDone \subseteq Rounds!Pairs
  <2>1. ASSUME NEW t \in Task, Begun(t)
        PROVE  t \in Rounds!Pairs
    <3>1. t[1] \in 1 .. NumChunks /\ t[2] \in 1 .. NumChunks /\ t[1] <= t[2] /\ t = <<t[1], t[2]>>
      BY <1>1, <2>1 DEF Begun
    <3>2. t \in (1 .. NumChunks) \X (1 .. NumChunks)
      BY <3>1
    <3> QED BY <3>1, <3>2 DEF Rounds!Pairs
  <2>2. MainPairs \subseteq Rounds!Pairs
    <3>1. ASSUME NEW c \in 1 .. mainChunk
          PROVE  <<c, c>> \in Rounds!Pairs
      <4>1. c \in 1 .. NumChunks /\ c <= c
        BY <1>1
      <4> QED BY <4>1 DEF Rounds!Pairs
    <3> QED BY <3>1 DEF MainPairs
  <2> QED BY <1>2, <2>1, <2>2
<1>6. ASSUME main = "next", mainChunk = NumChunks
      PROVE  PairsDone = Rounds!Pairs
  <2>1. \A p \in Rounds!Pairs : p \in PairsDone
    <3>1. \A p \in Rounds!Pairs : p[1] <= mainChunk
      BY <1>1, <1>3, <1>6
    <3> QED BY <1>4, <1>6, <3>1 DEF Over
  <2> QED BY <1>5, <2>1
<1>7. InTasks => <<mainChunk, mainChunk>> \in PairsDone
  <2>1. InTasks => mainChunk \in 1 .. mainChunk /\ main \notin {"populate", "populated"}
    BY <1>1 DEF InTasks, PoolOK, InRounds
  <2> QED BY <1>2, <2>1 DEF MainPairs
<1>8. mainChunk = 0 => PairsDone = {}
  <2> SUFFICES ASSUME mainChunk = 0 PROVE PairsDone = {}
    OBVIOUS
  <2>1. \A t \in Task : ~ Begun(t)
    BY <1>1 DEF Begun
  <2>2. MainPairs = {}
    BY DEF MainPairs
  <2> QED BY <1>2, <2>1, <2>2
<1> QED BY <1>2, <1>4, <1>6, <1>7, <1>8

\* The same after a step.
LEMMA PairsAfter ==
    ASSUME Worked'
    PROVE  PairsDone' = {t \in Task : Begun(t)' /\ t \notin running'} \cup MainPairs'
<1>1. \A t \in Task : work'[t] = "done" /\ t \notin running' <=> Begun(t)' /\ t \notin running'
  BY DEF Worked
<1> QED BY <1>1 DEF PairsDone, MainPairs

\* Steps of the rounds that do no pair.
LEMMA PairsSame ==
    ASSUME EndsOK, PoolOK, work \in WorkType, Worked, Next, Worked',
           ~ Begin, UNCHANGED running, MainPairs' = MainPairs
    PROVE  PairsDone' = PairsDone
<1>1. PairsDone = {t \in Task : Begun(t) /\ t \notin running} \cup MainPairs
  BY PairsAre
<1>2. PairsDone' = {t \in Task : Begun(t)' /\ t \notin running'} \cup MainPairs'
  BY PairsAfter
<1>3. \A t \in Task : Begun(t)' <=> Begun(t)
  BY BegunSame
<1> QED BY <1>1, <1>2, <1>3

\* Each step of the program is a step of the rounds or none.
LEMMA RoundsStep ==
    ASSUME EndsOK, PoolOK, work \in WorkType, Worked, Worked', Next
    PROVE  [Rounds!Next]_Rounds!vars
<1>1. /\ mainChunk \in Nat /\ NumChunks \in Nat /\ mainChunk <= NumChunks
      /\ \A t \in Task :
            /\ t[1] \in Nat /\ t[2] \in Nat /\ t[1] >= 1 /\ t[1] < t[2]
            /\ t = <<t[1], t[2]>>
  BY DEF EndsOK, PoolOK, NumChunks, Task, Chunk
<1>2. CASE ~ OrderStep
  <2>1. Elsewhere /\ UNCHANGED work
    BY <1>2, OtherOrder
  <2>2. UNCHANGED <<NumChunks, running>> /\ MainPairs' = MainPairs
    BY <2>1 DEF Elsewhere, NumChunks, MainPairs
  <2>3. PairsDone' = PairsDone
    BY <1>2, <2>2, PairsSame DEF OrderStep
  <2> QED BY <2>1, <2>2, <2>3 DEF Elsewhere, Rounds!vars
<1>3. CASE CountChunk
  <2>1. /\ mainChunk = 0 /\ mainChunk' = 0 /\ main' = main /\ main = "count_chunks"
        /\ UNCHANGED <<running, pending>>
    BY <1>3 DEF CountChunk, PoolOK, pool, Before, Counting
  <2>2. NumChunks' = NumChunks + 1
    <3>1. PICK x : ends' = Append(ends, x)
      BY <1>3 DEF CountChunk
    <3> QED BY <3>1 DEF NumChunks, EndsOK
  <2>3. MainPairs' = MainPairs /\ ~ Begin
    BY <2>1 DEF MainPairs, Begin, Pool!Begin, PoolOK, InTasks
  <2>4. PairsDone' = PairsDone
    BY <2>1, <2>3, PairsSame
  <2>5. Rounds!Cut
    BY <2>1, <2>2, <2>4 DEF Rounds!Cut, Delivering
  <2> QED BY <2>5 DEF Rounds!Next
<1>4. CASE NextChunk
  <2>1. /\ main = "next" /\ main' = "populate" /\ mainChunk < NumChunks
        /\ mainChunk' = mainChunk + 1 /\ UNCHANGED <<NumChunks, running, pending>>
    BY <1>4 DEF NextChunk, NumChunks, pool
  <2>2. MainPairs' = MainPairs
    <3>1. {k \in 1 .. mainChunk + 1 : k = mainChunk + 1 => FALSE} = 1 .. mainChunk
      BY <1>1
    <3> QED BY <2>1, <3>1 DEF MainPairs
  <2>3. ~ Begin
    BY <2>1 DEF Begin, Pool!Begin, PoolOK, InTasks
  <2>4. PairsDone' = PairsDone
    BY <2>1, <2>2, <2>3, PairsSame
  <2>5. \A p \in Rounds!Pairs : p[1] <= mainChunk => p \in PairsDone
    BY <2>1, PairsAre DEF Over
  <2>6. Rounds!NextRound
    BY <2>1, <2>4, <2>5 DEF Rounds!NextRound, Delivering
  <2> QED BY <2>6 DEF Rounds!Next
<1>5. CASE Populated
  <2>1. /\ main = "populated" /\ main' = "subchunks" /\ mainChunk' = mainChunk
        /\ UNCHANGED <<NumChunks, running, pending>> /\ mainChunk \in 1 .. NumChunks
    BY <1>1, <1>5 DEF Populated, NumChunks, pool, PoolOK, InRounds
  <2> DEFINE p == <<mainChunk, mainChunk>>
  <2>2. p \in Rounds!Pairs /\ p[1] = mainChunk /\ p[2] = mainChunk
    BY <2>1 DEF Rounds!Pairs
  <2>3. MainPairs' = MainPairs \cup {p} /\ p \notin MainPairs
    <3>1. {k \in 1 .. mainChunk : k = mainChunk => FALSE} = (1 .. mainChunk) \ {mainChunk}
      OBVIOUS
    <3>2. {k \in 1 .. mainChunk : k = mainChunk => TRUE} = 1 .. mainChunk
      OBVIOUS
    <3>3. MainPairs = {<<c, c>> : c \in (1 .. mainChunk) \ {mainChunk}}
      BY <2>1, <3>1 DEF MainPairs
    <3>4. MainPairs' = {<<c, c>> : c \in 1 .. mainChunk}
      BY <2>1, <3>2 DEF MainPairs
    <3> QED BY <2>1, <3>3, <3>4
  <2>4. p \notin Task
    BY <1>1, <2>2
  <2>5. ~ Begin
    BY <2>1 DEF Begin, Pool!Begin, PoolOK, InTasks
  <2> HIDE DEF p
  <2>6. /\ PairsDone = {t \in Task : Begun(t) /\ t \notin running} \cup MainPairs
        /\ PairsDone' = {t \in Task : Begun(t)' /\ t \notin running'} \cup MainPairs'
        /\ \A t \in Task : Begun(t)' <=> Begun(t)
    BY <2>5, PairsAre, PairsAfter, BegunSame
  <2>7. PairsDone' = PairsDone \cup {p} /\ p \notin PairsDone
    BY <2>1, <2>3, <2>4, <2>6
  <2>8. Rounds!Check(p)
    BY <2>1, <2>2, <2>7 DEF Rounds!Check, Delivering
  <2> QED BY <2>2, <2>8 DEF Rounds!Next
<1>6. CASE TagdupStart \/ ChunksCounted \/ TasksCounted \/ (AddTask /\ ~ MainExits(1))
           \/ ChunkDone \/ WaitReturns
  <2>1. /\ UNCHANGED <<mainChunk, NumChunks, running>> /\ ~ Begin
        /\ main \notin {"populate", "populated"} /\ main' \notin {"populate", "populated"}
        /\ main \notin Delivering /\ main' \notin Delivering
    BY <1>6
    DEF TagdupStart, ChunksCounted, TasksCounted, AddTask, ChunkDone, WaitReturns, Pool!Add,
        Pool!Wait, Pool!WaitReturns, pool, rounds, NumChunks, Delivering, Begin, Pool!Begin, PoolOK,
        InTasks
  <2>2. MainPairs' = MainPairs
    BY <2>1 DEF MainPairs
  <2>3. PairsDone' = PairsDone
    BY <2>1, <2>2, PairsSame
  <2> QED BY <2>1, <2>3 DEF Rounds!vars
<1>7. CASE DestroyHmap
  <2>1. /\ main = "next" /\ main' = "fclean_start" /\ mainChunk = NumChunks
        /\ UNCHANGED <<mainChunk, NumChunks, running>> /\ ~ Begin
    BY <1>7
    DEF DestroyHmap, Pool!Destroy, pool, rounds, NumChunks, Begin, Pool!Begin, PoolOK, InTasks
  <2>2. MainPairs' = MainPairs
    BY <2>1 DEF MainPairs
  <2>3. PairsDone' = PairsDone /\ PairsDone = Rounds!Pairs
    BY <2>1, <2>2, PairsSame, PairsAre
  <2>4. Rounds!Deliver
    BY <2>1, <2>3 DEF Rounds!Deliver, Delivering
  <2> QED BY <2>4 DEF Rounds!Next
<1>8. CASE Begin
  <2>1. /\ UNCHANGED <<main, mainChunk, ends>>
    BY <1>8 DEF Begin, rounds
  <2>2. UNCHANGED <<NumChunks, MainPairs>>
    BY <2>1 DEF NumChunks, MainPairs
  <2>3. /\ PairsDone = {t \in Task : Begun(t) /\ t \notin running} \cup MainPairs
        /\ PairsDone' = {t \in Task : Begun(t)' /\ t \notin running'} \cup MainPairs'
    BY PairsAre, PairsAfter
  <2>4. \A t \in Task : Begun(t)' /\ t \notin running' <=> Begun(t) /\ t \notin running
    BY <1>8, BegunNext
  <2>5. PairsDone' = PairsDone
    BY <2>2, <2>3, <2>4
  <2> QED BY <2>1, <2>2, <2>5 DEF Rounds!vars
<1>9. ASSUME NEW t \in Task, t \in running, Lookup(t) \/ Log(t) \/ Report(t)
      PROVE  UNCHANGED Rounds!vars
  <2>1. UNCHANGED <<main, mainChunk, ends, running, pending>>
    BY <1>9 DEF Lookup, Log, Report, rounds, pool
  <2>2. UNCHANGED <<NumChunks, MainPairs>> /\ ~ Begin
    BY <2>1 DEF NumChunks, MainPairs, Begin, Pool!Begin
  <2>3. PairsDone' = PairsDone
    BY <2>1, <2>2, PairsSame
  <2> QED BY <2>1, <2>2, <2>3 DEF Rounds!vars
<1>10. ASSUME NEW t \in Task, TaskDone(t)
       PROVE  Rounds!Check(t) /\ t \in Rounds!Pairs
  <2>1. /\ UNCHANGED <<main, mainChunk, ends, pending>> /\ t \in running
        /\ running' = running \ {t}
    BY <1>10 DEF TaskDone, rounds, Pool!Finish
  <2>2. UNCHANGED <<NumChunks, MainPairs>> /\ ~ Begin
    BY <2>1 DEF NumChunks, MainPairs, Begin, Pool!Begin
  <2>3. /\ PairsDone = {u \in Task : Begun(u) /\ u \notin running} \cup MainPairs
        /\ PairsDone' = {u \in Task : Begun(u)' /\ u \notin running'} \cup MainPairs'
        /\ \A u \in Task : Begun(u)' <=> Begun(u)
    BY <2>2, PairsAre, PairsAfter, BegunSame
  <2>4. t \notin MainPairs
    <3>1. \A c : t # <<c, c>>
      BY <1>1
    <3> QED BY <3>1 DEF MainPairs
  <2>5. Begun(t) /\ t[1] = mainChunk /\ InTasks
    BY <2>1 DEF Worked, PoolOK
  <2>6. PairsDone' = PairsDone \cup {t} /\ t \notin PairsDone
    BY <2>1, <2>2, <2>3, <2>4, <2>5
  <2>7. t \in Rounds!Pairs
    <3>1. t[1] \in 1 .. NumChunks /\ t[2] \in 1 .. NumChunks /\ t[1] <= t[2] /\ t = <<t[1], t[2]>>
      BY <1>1, <2>5 DEF Begun
    <3>2. t \in (1 .. NumChunks) \X (1 .. NumChunks)
      BY <3>1
    <3> QED BY <3>1, <3>2 DEF Rounds!Pairs
  <2>8. <<mainChunk, mainChunk>> \in PairsDone
    BY <2>5, PairsAre
  <2> QED BY <2>1, <2>2, <2>5, <2>6, <2>7, <2>8 DEF Rounds!Check
<1> QED
  BY <1>2, <1>3, <1>4, <1>5, <1>6, <1>7, <1>8, <1>9, <1>10 DEF OrderStep, Rounds!Next

(***************************************************************************)
(* Whatever fails, in whichever thread: main() gets to rewriting the file  *)
(* only if every pair of chunks was checked and reported, each once and in *)
(* its round, for any number of chunks and processors.                     *)
(***************************************************************************)
THEOREM RoundsRefine == Spec => ImplementsRounds
<1>1. Init => Rounds!Init /\ Worked
  <2> SUFFICES ASSUME Init PROVE Rounds!Init /\ Worked
    OBVIOUS
  <2>1. /\ NumChunks = 0 /\ mainChunk = 0 /\ running = {} /\ main = "optparse"
        /\ work = [t \in Task |-> "lookup"]
    BY DEF Init, NumChunks, Pool!Init
  <2>2. \A t \in Task : ~ Begun(t)
    BY <2>1 DEF Begun, Task, Chunk
  <2>3. PairsDone = {}
    BY <2>1 DEF PairsDone
  <2> QED BY <2>1, <2>2, <2>3 DEF Rounds!Init, Worked, Delivering
<1>2. IInv /\ Worked /\ [Next]_vars => Worked'
  <2>1. UNCHANGED vars => \A t \in Task : Begun(t)' <=> Begun(t)
    BY DEF vars, rounds, pool, Begun, NumChunks, InTasks
  <2>2. Worked /\ UNCHANGED vars => Worked'
    BY <2>1 DEF Worked, vars, pool
  <2> QED BY <2>2, WorkedStep DEF IInv, RestOK
<1>3. IInv /\ Worked /\ Worked' /\ [Next]_vars => [Rounds!Next]_Rounds!vars
  <2>1. UNCHANGED vars => UNCHANGED Rounds!vars
    BY DEF vars, rounds, pool, Rounds!vars, PairsDone, NumChunks
  <2> QED BY <2>1, RoundsStep DEF IInv, RestOK
<1> QED BY <1>1, <1>2, <1>3, Inductive, PTL DEF Spec, ImplementsRounds, Rounds!Spec

=============================================================================
