---------------------------- MODULE Pipeline ----------------------------
(***************************************************************************)
(* What becomes of a batch in the master: the main loop parses it          *)
(* (main_loop_handle_batch), the pool's threads look its entries up        *)
(* (batch_dedup_worker), the main loop counts, dispatches and records what *)
(* is new (process_completed_batch), and the writer thread prints it       *)
(* (print_to_stream).  Devices recover and users are renamed meanwhile.     *)
(*                                                                         *)
(* The workers are the batches that are still to come; the writer's list   *)
(* is the sequence that module RowStream makes of it; the shared state of  *)
(* the slots is left to the bus, and here any of its answers is possible.  *)
(***************************************************************************)
EXTENDS ThreadPool, Records, RowFormat, Metadata, Statistics

CONSTANTS
  Inputs,          \* what a run may be given
  IterationLimit,  \* ITERATION_LIMIT of batch_dedup_worker (100000)
  RecordBatchMax,  \* RECORD_BATCH_COUNT (4096)
  Seconds,         \* bound: how long the panel is watched
  MaxLate          \* bound: the seconds in which no sample is taken

\* What a worker sends of a file: its lstat, and what ioctl will make of it.
Entry ==
  [path : Seq(STRING), dev : Nat, ino : Nat,
   mode : [type : DOMAIN TypeLetter, perm : SUBSET (1 .. 9), special : SUBSET {3, 6, 9}],
   uid : Nat, gid : Nat, size : Nat, mtime : Nat, atime : Nat, ctime : Nat,
   attr : [answer : {"denied", "notty", "error", "flags"}, flags : SUBSET (1 .. 16)]]

GivenTo(in) == Range(in.single) \cup UNION {Range(in.batches[k]) : k \in DOMAIN in.batches}

ASSUME LimitAssumption == IterationLimit \in Nat /\ RecordBatchMax \in Nat \ {0}

\* A target that is a file leaves nothing to scan; the tree does not change, so
\* that no path stands for two entries; the pool knows enough batches, and the
\* system some owners; a worker leaves out what has too long a path.
ASSUME InputAssumption ==
  \A in \in Inputs :
    /\ in.single \in Seq(Entry) /\ in.batches \in Seq(Seq(Entry)) /\ in.format \in Seq(STRING)
    /\ in.single # <<>> => Len(in.single) = 1 /\ in.batches = <<>>
    /\ \A e, f \in GivenTo(in) : e.path = f.path => e = f
    /\ DOMAIN in.batches \subseteq Batch
    /\ in.names \in [DOMAIN in.names -> STRING]
    /\ in.renamed \in [DOMAIN in.renamed -> STRING] /\ DOMAIN in.renamed \subseteq DOMAIN in.names
    /\ \A e \in GivenTo(in) : {e.uid, e.gid} \subseteq DOMAIN in.names
    /\ \A b \in DOMAIN in.batches : \A k \in DOMAIN in.batches[b] :
         Len(in.batches[b][k].path) <= MaxPathLength

VARIABLES
  input,     \* what this run was given
  compiled,  \* cfg.compiled_format
  phase,     \* where main_loop_run is
  coming,    \* payloads that workers will send
  retQ,      \* payloads in the return queues
  tp,        \* the batches: entries and results
  inline,    \* the batch that main looks up itself
  visited,   \* visited_set
  dead,      \* blacklisted devices of dev_mgr
  state,     \* counters and flags of RuntimeState and AppContext
  lost,      \* lost_tasks
  sent,      \* directories given to a worker, or kept in fpbin
  recBatch,  \* record_batch
  slice,     \* cells of the slice
  dirLines,  \* directories named in dir_info_fp, and what it is
  tasks,     \* output tasks the writer was given
  names,     \* the system's user database
  caches,    \* uid_cache, gid_cache and dev_cache
  printed,   \* history: the rows printed, with their columns
  clock,     \* the time, in seconds
  stats,     \* RuntimeState.stats
  samples    \* history: every sample taken

mainVars == <<phase, coming, retQ, inline, state, lost, sent, dirLines, recBatch, slice>>
printVars == <<names, caches, printed>>
cfgVars == <<input, compiled>>
monitorVars == <<clock, stats, samples>>
vars == <<tpVars, cfgVars, monitorVars, mainVars, tp, visited, dead, tasks, printVars>>

Format == IF input.format = <<>> THEN DefaultFormat(input.row) ELSE input.format
Columns == {compiled[k].field : k \in DOMAIN compiled} \ {"text"}

IsDir(e) == e.mode.type = "DIR"
Fingerprint(e) == <<e.path, e.dev, e.ino>>

NoBatchData == [entries |-> <<>>, results |-> <<>>]
NewState == [dirs |-> 0, files |-> 0, dequeued |-> 0, hasError |-> FALSE, pendingBatches |-> 0]

Init ==
  /\ NewPool
  /\ input \in Inputs /\ compiled = Precompile(Format)
  /\ phase = "seed"
  /\ coming = [k \in DOMAIN input.batches |-> BatchPayload(input.batches[k])]
  /\ retQ = <<>> /\ tp = <<>> /\ inline = NoBatch
  /\ visited = {} /\ dead = input.dead
  /\ state = NewState /\ lost = {} /\ sent = {}
  /\ dirLines = <<>> /\ recBatch = <<>> /\ slice = <<>> /\ tasks = <<>>
  /\ names = input.names
  /\ caches = [uid |-> NoOwners, gid |-> NoOwners, dev |-> NoStatus]
  /\ printed = <<>>
  /\ clock = StartTime /\ stats = NewStatistics /\ samples = <<>>

(***************************************************************************)
(* The world outside the master                                            *)
(***************************************************************************)
Arrive ==
  /\ coming # <<>> /\ phase # "seed"
  /\ retQ' = Append(retQ, Head(coming)) /\ coming' = Tail(coming)
  /\ UNCHANGED <<tpVars, cfgVars, monitorVars, phase, inline, state, lost, sent, dirLines,
                 recBatch, slice, tp, visited, dead, tasks, printVars>>

\* A device that the files of an earlier run gave up answers the monitor's
\* probe (dev_mgr_mark_alive).
Recover(d) ==
  /\ d \in dead /\ dead' = dead \ {d}
  /\ UNCHANGED <<tpVars, cfgVars, monitorVars, mainVars, tp, visited, tasks, printVars>>

Rename(id) ==
  /\ id \in DOMAIN input.renamed /\ names[id] # input.renamed[id]
  /\ names' = [names EXCEPT ![id] = input.renamed[id]]
  /\ UNCHANGED <<tpVars, cfgVars, monitorVars, mainVars, tp, visited, dead, tasks, caches, printed>>

(***************************************************************************)
(* batch_dedup_worker, one entry at a time                                 *)
(***************************************************************************)
Entries(b) == tp[b].entries
Results(b) == tp[b].results
Deduped(b) == Len(Results(b)) = Len(Entries(b))

\* DEAD or CONDEMNED
IsBlacklisted(d) == d \in dead

\* The entries from the limit on are marked duplicates unseen.
Marks(b) ==
  LET k == Len(Results(b)) + 1
      e == Entries(b)[k] IN
  IF k > IterationLimit THEN [i \in 1 .. Len(Entries(b)) + 1 - k |-> {"duplicate"}]
  ELSE << (IF Fingerprint(e) \in visited THEN {"duplicate"} ELSE {})
          \cup (IF IsBlacklisted(e.dev) THEN {"blacklisted"} ELSE {}) >>

Dedup(b) ==
  /\ ~Deduped(b)
  /\ tp' = [tp EXCEPT ![b].results = @ \o Marks(b)]
  /\ visited' = IF Len(Results(b)) < IterationLimit
                THEN visited \cup {Fingerprint(Entries(b)[Len(Results(b)) + 1])}
                ELSE visited
  /\ UNCHANGED <<cfgVars, monitorVars, coming, retQ, state, lost, sent, dirLines, recBatch, slice,
                 dead, tasks, printVars>>

(***************************************************************************)
(* process_completed_batch                                                 *)
(***************************************************************************)
Fresh(b) == {k \in DOMAIN Entries(b) : Results(b)[k] = {}}
Skipped(b) == {k \in DOMAIN Entries(b) : Results(b)[k] = {"blacklisted"}}
DirsOf(b) == {k \in Fresh(b) : IsDir(Entries(b)[k])}

\* What can become of a new directory: while the rows of an old run are
\* pumped it is kept in fpbin; else it is sent to a worker, or dropped because
\* a command queue is full, or put on the list of lost tasks.
Fates == IF input.pumpingOld THEN {"fpbin"} ELSE {"sent", "dropped", "lost"}

\* The entries of b at the places in S, in order.
At(b, S) ==
  LET upTo[k \in 0 .. Len(Entries(b))] ==
        IF k = 0 THEN <<>>
        ELSE IF k \in S THEN Append(upTo[k - 1], Entries(b)[k]) ELSE upTo[k - 1]
  IN upTo[Len(Entries(b))]

Pending(n) == [state EXCEPT !.pendingBatches = @ + n]

\* record_path_batch_append, for a sequence of entries: a full recBatch is
\* written to the slice first (record_path_batch_flush_internal).
Written(entries) == FlattenSeq([k \in DOMAIN entries |-> PbinRow(entries[k])])

RecordOne(r, e) ==
  IF Len(r.batch) >= RecordBatchMax
  THEN [batch |-> <<e>>, cells |-> r.cells \o Written(r.batch)]
  ELSE [r EXCEPT !.batch = Append(@, e)]

Record(entries) ==
  LET upTo[k \in 0 .. Len(entries)] ==
        IF k = 0 THEN [batch |-> recBatch, cells |-> slice]
        ELSE RecordOne(upTo[k - 1], entries[k])
      r == upTo[Len(entries)]
  IN recBatch' = r.batch /\ slice' = r.cells

\* MUTANT: a blacklisted entry is passed over without a word.
CountedQuietly(b, handled) ==
  [state EXCEPT !.pendingBatches = @ - 1, !.dequeued = @ + 1,
                !.dirs = @ + Cardinality(handled \cap DirsOf(b)),
                !.files = @ + Cardinality(handled \ DirsOf(b))]

Counted(b, handled) ==
  [state EXCEPT !.pendingBatches = @ - 1, !.dequeued = @ + 1,
                !.dirs = @ + Cardinality(handled \cap DirsOf(b)),
                !.files = @ + Cardinality(handled \ DirsOf(b)),
                !.hasError = @ \/ Skipped(b) # {}]

\* init_output_files: the directories of --print-dir go to a file beside the
\* rows; to stderr when there is none or it cannot be opened.
DirInfo ==
  IF input.output = "stdout" \/ ~input.opens THEN "stderr"
  ELSE [split |-> "scan_dirs.log", file |-> ".dir"][input.output]

Named(dirs) ==
  IF input.printDir
  THEN [k \in DOMAIN dirs |-> [to |-> DirInfo, path |-> dirs[k].path]] ELSE <<>>

\* A directory that goes to the lost tasks is neither counted, listed nor
\* recorded: the rest of its iteration is skipped.
Process(b) ==
  \E fate \in [DirsOf(b) -> Fates] :
    LET dirs == {k \in DirsOf(b) : fate[k] # "lost"}
        files == Fresh(b) \ DirsOf(b)
        paths(what) == {Entries(b)[k].path : k \in {d \in DirsOf(b) : fate[d] = what}} IN
    /\ state' = Counted(b, files \cup dirs)
    /\ tasks' = tasks \o At(b, files \cup IF input.includeDir THEN dirs ELSE {})
    /\ IF input.continueMode
       THEN Record(At(b, files \cup IF input.pumpingOld THEN {} ELSE dirs))
       ELSE UNCHANGED <<recBatch, slice>>
    /\ dirLines' = dirLines \o Named(At(b, dirs))
    /\ lost' = lost \cup paths("lost")
    /\ sent' = sent \cup paths("sent") \cup paths("fpbin")
    /\ tp' = [tp EXCEPT ![b] = NoBatchData]
    /\ UNCHANGED <<cfgVars, monitorVars, coming, retQ, visited, dead, printVars>>

(***************************************************************************)
(* The main loop                                                           *)
(***************************************************************************)
quiet == <<cfgVars, monitorVars, coming, retQ, inline, tp, visited, dead, state, lost, sent,
           dirLines, recBatch, slice, tasks, printVars>>

Phase(here, next) == phase = here /\ phase' = next

\* A target that is not a directory is a row at once, and there is nothing to
\* scan.
Seed ==
  /\ Phase("seed", "create")
  /\ tasks' = input.single
  /\ state' = [state EXCEPT !.files = Len(input.single)]
  /\ UNCHANGED <<tpVars, cfgVars, monitorVars, coming, retQ, inline, tp, visited, dead,
                 lost, sent, dirLines, recBatch, slice, printVars>>

Create ==
  /\ phase = "create" /\ CreateThread /\ phase' = (IF owner' = "open" THEN "recv" ELSE "create")
  /\ UNCHANGED quiet

\* main_loop_run returns, and main goes on to finish the run.
CannotCreate ==
  /\ input.mayFail /\ CreateFails /\ Phase("create", "join") /\ UNCHANGED quiet

\* A batch that does not parse is dropped.
HandleBatch ==
  LET parsed == ParseBatch(Head(retQ))
      b == Len(tp) + 1 IN
  /\ phase = "recv" /\ retQ # <<>> /\ retQ' = Tail(retQ)
  /\ IF parsed.ok
     THEN /\ tp' = Append(tp, [entries |-> parsed.seq, results |-> <<>>])
          /\ state' = Pending(1)
          /\ \/ Submit(b) /\ UNCHANGED <<phase, inline>>
             \/ Refuse /\ inline' = b /\ phase' = "inline"
     ELSE UNCHANGED <<tp, state, phase, inline, tpVars>>
  /\ UNCHANGED <<cfgVars, monitorVars, coming, visited, dead, lost, sent, dirLines, recBatch, slice,
                 tasks, printVars>>

\* The queue was full: main looks the entries up and goes on with them.
InlineDedup ==
  /\ phase = "inline" /\ Dedup(inline) /\ UNCHANGED <<tpVars, phase, inline>>

InlineProcess ==
  /\ Phase("inline", "recv") /\ Deduped(inline)
  /\ Process(inline) /\ inline' = NoBatch /\ UNCHANGED tpVars

RecvEnd == Phase("recv", "drain") /\ retQ = <<>> /\ UNCHANGED <<tpVars, quiet>>

\* drain_completed_batches, after the messages, after each read of the
\* eventfd, and at the end.
Drain ==
  /\ phase \in {"drain", "redrain", "final"}
  /\ Poll /\ Process(Head(completed)) /\ UNCHANGED <<phase, inline>>

AfterDrain == [drain |-> "event", redrain |-> "event", final |-> "flush"]

DrainEnd ==
  /\ phase \in DOMAIN AfterDrain /\ completed = <<>>
  /\ phase' = AfterDrain[phase]
  /\ UNCHANGED <<tpVars, quiet>>

Event ==
  \/ Phase("event", "redrain") /\ ReadEvent /\ UNCHANGED quiet
  \/ Phase("event", "check") /\ ~event /\ UNCHANGED <<tpVars, quiet>>

\* No worker has a task left, and no batch is in hand.
AllDone == coming = <<>> /\ retQ = <<>> /\ state.pendingBatches = 0

Check ==
  /\ phase = "check" /\ phase' = (IF AllDone THEN "final" ELSE "recv")
  /\ UNCHANGED <<tpVars, quiet>>

\* record_path_batch_flush
Flush ==
  /\ Phase("flush", "destroy")
  /\ slice' = slice \o Written(recBatch) /\ recBatch' = <<>>
  /\ UNCHANGED <<tpVars, cfgVars, monitorVars, coming, retQ, inline, tp, visited, dead, state, lost,
                 sent, dirLines, tasks, printVars>>

DestroyPool == Phase("destroy", "join") /\ Destroy /\ UNCHANGED quiet

JoinPool == Phase("join", "finalize") /\ Joined /\ UNCHANGED quiet

\* finalize_archive, when there is an open slice.
Finalize ==
  /\ Phase("finalize", "done")
  /\ slice' = IF slice = <<>> THEN slice ELSE slice \o Footer(Len(ParseBuffer(slice)))
  /\ UNCHANGED <<tpVars, cfgVars, monitorVars, coming, retQ, inline, tp, visited, dead, state, lost,
                 sent, dirLines, recBatch, tasks, printVars>>

MainStep ==
  \/ Seed \/ Create \/ HandleBatch \/ InlineDedup \/ InlineProcess \/ RecvEnd
  \/ Drain \/ DrainEnd \/ Event \/ Check \/ Flush \/ DestroyPool \/ JoinPool \/ Finalize

(***************************************************************************)
(* The pool's threads                                                      *)
(***************************************************************************)
PoolDedup(t) ==
  /\ pc[t] = "working" /\ Dedup(hand[t])
  /\ UNCHANGED <<tpVars, phase, inline>>

PoolComplete(t) ==
  /\ Complete(t) /\ Deduped(hand[t]) /\ UNCHANGED <<phase, quiet>>

PoolThread(t) ==
  \/ PoolDedup(t) \/ PoolComplete(t)
  \/ /\ Take(t) \/ Test(t) \/ FallAsleep(t) \/ Notify(t)
     /\ UNCHANGED <<phase, quiet>>

PoolWake(t) == input.wakes /\ Wake(t) /\ UNCHANGED <<phase, quiet>>

(***************************************************************************)
(* The writer thread: print_to_stream                                      *)
(***************************************************************************)
\* The owners and the attributes a row asks for, and the caches after it.
Asked(e) ==
  LET none == [text |-> <<>>, cache |-> <<>>]
      owner_(column, cache, id) ==
        IF column \in Columns THEN NameOf(cache, names, id) ELSE [none EXCEPT !.cache = cache]
  IN [u |-> owner_("u", caches.uid, e.uid), g |-> owner_("g", caches.gid, e.gid),
      X |-> IF "X" \in Columns THEN XattrOf(caches.dev, e.dev, e.attr)
            ELSE [none EXCEPT !.cache = caches.dev]]

\* The text of every column.
Values(e, asked) ==
  [p |-> e.path, s |-> Number(e.size), U |-> Number(e.uid), G |-> Number(e.gid),
   u |-> asked.u.text, g |-> asked.g.text, X |-> asked.X.text,
   m |-> Number(e.mtime), a |-> Number(e.atime), c |-> Number(e.ctime), i |-> Number(e.ino),
   t |-> <<TypeName[e.mode.type]>>, o |-> ModeText(e.mode), O |-> OctalText(e.mode)]

PrintRow ==
  LET e == Head(tasks)
      asked == Asked(e)
      values == Values(e, asked) IN
  /\ tasks # <<>> /\ tasks' = Tail(tasks)
  /\ caches' = [uid |-> asked.u.cache, gid |-> asked.g.cache, dev |-> asked.X.cache]
  /\ printed' = Append(printed, [entry |-> e, values |-> values,
                                 line |-> PrintToStream(input.row, compiled, values)])
  /\ UNCHANGED <<tpVars, cfgVars, monitorVars, mainVars, tp, visited, dead, names>>

(***************************************************************************)
(* The monitor thread: print_progress                                      *)
(***************************************************************************)
Counts == [dirs |-> state.dirs, files |-> state.files, dequeued |-> state.dequeued]

\* From monitor_create to the end of main_loop_run.  The monitor wakes up twice
\* a second, but it may be late; what the panel shows besides the rates is the
\* state itself.
PrintProgress(now) ==
  /\ input.watched /\ phase \notin {"finalize", "done"}
  /\ now <= StartTime + Seconds /\ now <= StartTime + Len(samples) + MaxLate
  /\ clock' = now /\ SampleDue(stats, now)
  /\ stats' = UpdateStatistics(stats, now, Counts)
  /\ samples' = Append(samples, [at |-> now, counts |-> Counts])
  /\ UNCHANGED <<tpVars, cfgVars, mainVars, tp, visited, dead, tasks, printVars>>

-----------------------------------------------------------------------------
Next ==
  \/ Arrive \/ (\E d \in dead : Recover(d)) \/ (\E id \in DOMAIN input.renamed : Rename(id))
  \/ MainStep \/ CannotCreate
  \/ \E t \in Threads : PoolThread(t) \/ PoolWake(t)
  \/ PrintRow \/ \E now \in clock .. clock + 2 : PrintProgress(now)

\* The only step that makes the list of tasks shorter is PrintRow.
Prints == tasks # <<>> /\ tasks' = Tail(tasks)

\* Every thread is scheduled, and gets a mutex that is free again and again.
Fairness ==
  /\ WF_vars(Arrive) /\ SF_vars(MainStep) /\ WF_tasks(Prints)
  /\ \A t \in Threads : SF_vars(PoolThread(t))

Spec == Init /\ [][Next]_vars /\ Fairness

-----------------------------------------------------------------------------
(***************************************************************************)
(* Properties                                                              *)
(***************************************************************************)
Given == GivenTo(input)
\* What main returns.
ExitStatus == IF state.hasError THEN 1 ELSE 0

Rows == [k \in DOMAIN printed |-> printed[k].entry] \o tasks
Times(e) == Cardinality({k \in DOMAIN Rows : Rows[k] = e})

\* e was behind the limit in a batch.
Behind(e) ==
  \E k \in DOMAIN input.batches : \E i \in DOMAIN input.batches[k] :
    i > IterationLimit /\ input.batches[k][i] = e

\* Whatever the order in which threads look the batches up, an entry that came
\* twice is listed once, and at the end everything that came is listed: but for
\* what was met while its device was given up, of which the exit status tells;
\* for directories that nobody asked for or that no worker was free for; and for
\* what was behind the iteration limit (batch_dedup_worker,
\* process_completed_batch, drain_completed_batches).  --print-dir names a
\* directory once, too.
EachOnce ==
  /\ \A e \in Given : Times(e) <= 1
  /\ IsInjective(dirLines)
  /\ phase \in {"finalize", "done"} /\ born = NumThreads => \A e \in Given :
       \/ Times(e) = 1
       \/ e.dev \in input.dead /\ ExitStatus = 1
       \/ IsDir(e) /\ (~input.includeDir \/ e.path \in lost)
       \/ Behind(e)

-----------------------------------------------------------------------------
\* The characters of the whole output.
Output == FlattenSeq([k \in DOMAIN printed |-> printed[k].line])

\* What a format stands for, read from left to right.
Meant(format, values) ==
  LET from[k \in 1 .. Len(format) + 1] ==
        IF k > Len(format) THEN <<>>
        ELSE IF format[k] # "%" THEN <<format[k]>> \o from[k + 1]
        ELSE IF k = Len(format) THEN <<>>
        ELSE (IF format[k + 1] \in Letters THEN Field(input.row, values[format[k + 1]])
              ELSE <<"%", format[k + 1]>>) \o from[k + 2]
  IN from[1] \o <<EndOfLine>>

\* A reader of CSV as RFC 4180 has it: in is inside quotes, shut is just after
\* a quote that closed a field, or is the first of two.
ReadChar(r, char) ==
  CASE r.in /\ char = Quote -> [r EXCEPT !.in = FALSE, !.shut = TRUE]
    [] r.in /\ char # Quote -> [r EXCEPT !.field = Append(@, char)]
    [] ~r.in /\ char = Quote ->
         [r EXCEPT !.in = TRUE, !.shut = FALSE,
                   !.field = IF r.shut THEN Append(@, Quote) ELSE @]
    [] ~r.in /\ char = "," ->
         [r EXCEPT !.shut = FALSE, !.field = <<>>, !.record = Append(@, r.field)]
    [] ~r.in /\ char = EndOfLine ->
         [r EXCEPT !.shut = FALSE, !.field = <<>>, !.record = <<>>,
                   !.records = Append(@, Append(r.record, r.field))]
    [] OTHER -> [r EXCEPT !.field = Append(@, char)]

ReadCsv(text) ==
  FoldLeft(ReadChar, [in |-> FALSE, shut |-> FALSE, field |-> <<>>,
                      record |-> <<>>, records |-> <<>>], text).records

\* The mode that ten characters stand for.
ReadMode(text) ==
  [type |-> CHOOSE type \in DOMAIN TypeLetter : TypeLetter[type] = text[1],
   perm |-> {bit \in 1 .. 9 : text[bit + 1] \in {"r", "w", "x", "s", "t"}},
   special |-> {bit \in 1 .. 9 : text[bit + 1] \in {"s", "S", "t", "T"}}]

\* Each row, when it is printed, is what its format means, compiled or not; and
\* whoever reads the default CSV of the whole run gets back the rows, whatever
\* characters are in a path, with every bit of their modes (precompile_format,
\* print_csv_field, print_to_stream, format_mode_str).
RowsReadBack ==
  /\ printed # <<>> =>
       LET row == Last(printed) IN row.line = Meant(Format, row.values)
  /\ phase = "done" /\ tasks = <<>> /\ input.row.csv /\ input.format = <<>> =>
       /\ ReadCsv(Output) =
            [k \in DOMAIN printed |->
              [j \in DOMAIN CsvLetters |-> printed[k].values[CsvLetters[j]]]]
       /\ \A k \in DOMAIN printed :
            ReadMode(printed[k].values.o) = printed[k].entry.mode

-----------------------------------------------------------------------------
\* The answers of the system about id: now, and before it was renamed.
Answers(id) ==
  {OwnerText(id, input.names[id])}
    \cup IF id \in DOMAIN input.renamed THEN {OwnerText(id, input.renamed[id])} ELSE {}

\* While users are renamed, all rows of one run show an owner under one name,
\* which was that owner's; and attributes are hidden for the device of a file
\* only after a file of that device had none (get_username, get_groupname,
\* get_xattr_str).
ShownIsAnswered ==
  /\ \A j, k \in DOMAIN printed :
       printed[j].entry.uid = printed[k].entry.uid => printed[j].values.u = printed[k].values.u
  /\ "u" \in Columns =>
       \A k \in DOMAIN printed : printed[k].values.u \in Answers(printed[k].entry.uid)
  /\ \A k \in DOMAIN printed : printed[k].values.X = <<"[unsupported]">> =>
       \E j \in 1 .. k : printed[j].entry.dev = printed[k].entry.dev
                           /\ printed[j].entry.attr.answer = "notty"

-----------------------------------------------------------------------------
\* The rows of the slice, as they were recorded.
Recorded(cells) == [k \in DOMAIN ReadRows(cells) |-> ReadRows(cells)[k].path]
BufferPaths(cells) == [k \in DOMAIN ParseBuffer(cells) |-> ParseBuffer(cells)[k].path]

\* A run may be killed when any part of the slice has reached the disk: both
\* readers of slices then find the same rows, the first ones of those that were
\* recorded, and none of them is made up from the torn row or the footer
\* (write_pbin_record, parse_pbin_buffer, read_next_pbin_record).
CutSliceIsPrefix ==
  \A cut \in 0 .. Len(slice) :
    LET torn == SubSeq(slice, 1, cut) IN
    /\ BufferPaths(torn) = Recorded(torn)
    /\ IsPrefix(Recorded(torn), Recorded(slice))
    /\ \A k \in DOMAIN Recorded(torn) : \E e \in Given :
         e.path = Recorded(torn)[k] /\ ReadRows(torn)[k].dir = IsDir(e)

-----------------------------------------------------------------------------
\* From the end of the second round of the ring on, while the counters grow and
\* the monitor comes late, the panel shows the growth over the window, that is
\* since the oldest of the last RateWindow samples, however often the ring has
\* come round, and no rate above the greatest (update_statistics).  Before that
\* it does not keep the promise of monitor.c:54: the rates are taken against the
\* clock at 0, then against the first sample of the second round.
RatesAreGrowth ==
  LET n == Len(samples) IN
  n >= 2 * RateWindow => \A what \in Counters :
    LET old == samples[n - RateWindow + 1] IN
    /\ stats.rate[what] = <<samples[n].counts[what] - old.counts[what], samples[n].at - old.at>>
    /\ ~Exceeds(stats.rate[what], stats.max[what])

\* The pool ends, with everything printed, however its threads fall asleep and
\* wake up (thread_pool_submit, thread_pool_destroy, main_loop_run).
PoolEnds == (owner = "open") ~> (owner = "gone" /\ phase = "done" /\ tasks = <<>>)

\* In the master the pool is used as module ThreadPool has it, and keeps its
\* promise to the bus (module WorkPool).
PoolKeepsPromise == TpSpec /\ Pool!PoolSpec

=============================================================================
