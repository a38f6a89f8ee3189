----------------------------- MODULE RuntimeLog -----------------------------
(***************************************************************************)
(* transfer::log: one file per day, YYYY-MM-DD.log, which is renamed to    *)
(* .log.N when it has grown to maxFileSizeBytes; files older than          *)
(* retainDays go when a process initialises its log.  A process is one     *)
(* thread, but two of them may share a directory (transferFile and         *)
(* platform_sim of one working directory do), so a rotation is cut into    *)
(* its system calls.  The system clock may be set, a process may be killed *)
(* between two calls, and opening, writing and renaming may fail.          *)
(*                                                                         *)
(* Lines are numbered in the order they are printed on the console, and    *)
(* size is counted in lines; a write stores a whole line or none.          *)
(***************************************************************************)
EXTENDS Naturals, Sequences, Functions, FiniteSetsExt

CONSTANTS
    Procs,          \* the processes that log to the directory
    MaxFileLines,   \* maxFileSizeBytes; 0 never rotates
    RetainDays,     \* retainDays; 0 never purges
    SuffixLimit,    \* 10000: nextRotateSuffix looks at smaller ones only
    LastDay,        \* bound: the days the clock shows are 0..LastDay
    MaxPrinted,     \* bound: lines printed
    MaxCrashes      \* bound: processes killed

\* retainDays is a uint32_t that purgeOldLogs casts to int; here it fits.
ASSUME LogAssumption ==
    /\ MaxFileLines \in Nat /\ RetainDays \in Nat /\ LastDay \in Nat
    /\ SuffixLimit \in Nat \ {0} /\ MaxPrinted \in Nat /\ MaxCrashes \in Nat

VARIABLES
    today,      \* the date of the system clock
    printed,    \* the date each line was printed
    files,      \* the lines in each file ever created
    dir,        \* the directory: which file has which name
    logs,       \* LogState of each process, and where its rotation is
    crashes     \* processes killed so far

vars == <<today, printed, files, dir, logs, crashes>>

NoDate == LastDay + 1

\* file is 0 while the stream is closed.  A stream that has failed to write
\* stays bad, with the line it failed to write in its buffer.
Uninitialized ==
    [initialized |-> FALSE, date |-> NoDate, file |-> 0, unwritten |-> 0,
     step |-> "idle", suffix |-> 0]

Initialized == [Uninitialized EXCEPT !.initialized = TRUE]

Init ==
    /\ today = 0
    /\ printed = <<>> /\ files = <<>> /\ dir = {}
    /\ logs = [p \in Procs |-> Uninitialized]
    /\ crashes = 0

-----------------------------------------------------------------------------
(* The stream.                                                             *)

\* Files that may be left when the stream of l is closed: closing it writes
\* its buffer, if there is room again.
Closings(l) ==
    {files} \cup
        {[files EXCEPT ![l.file] = Append(@, n)] : n \in {l.unwritten} \ {0}}

BaseOf(day) == {e \in dir : e.day = day /\ e.suffix = 0}

\* open(.., app) of the base file of a day, when F are the files: the file
\* it opens, the files and the directory then.
Opened(F, day) ==
    IF BaseOf(day) # {}
    THEN [file |-> (CHOOSE e \in BaseOf(day) : TRUE).file,
          files |-> F, dir |-> dir]
    ELSE [file |-> Len(F) + 1, files |-> Append(F, <<>>),
          dir |-> dir \cup {[day |-> day, suffix |-> 0, file |-> Len(F) + 1]}]

-----------------------------------------------------------------------------
(* init, shutdown, and the end of a process.                               *)

\* Fault: a file that is just retainDays old goes, too.
PurgeableEarly(D) == {e \in D : RetainDays # 0 /\ today >= e.day + RetainDays}

Purgeable(D) == {e \in D : RetainDays # 0 /\ today > e.day + RetainDays}

InitLog(p) ==
    /\ logs[p].step = "idle"
    /\ dir' = dir \ Purgeable(dir)
    /\ files' \in Closings(logs[p])
    /\ logs' = [logs EXCEPT ![p] = Initialized]
    /\ UNCHANGED <<today, printed, crashes>>

Shutdown(p) ==
    /\ logs[p].step = "idle"
    /\ files' \in Closings(logs[p])
    /\ logs' = [logs EXCEPT ![p] = Uninitialized]
    /\ UNCHANGED <<today, printed, dir, crashes>>

\* The process is killed, perhaps while it purges.
Crash(p) ==
    /\ crashes < MaxCrashes
    /\ crashes' = crashes + 1
    /\ logs' = [logs EXCEPT ![p] = Uninitialized]
    /\ \E gone \in SUBSET Purgeable(dir) : dir' = dir \ gone
    /\ UNCHANGED <<today, printed, files>>

-----------------------------------------------------------------------------
(* writeLineImpl, up to the close that begins a rotation.                  *)

\* Fault: the date is not looked at.
FileIsOpen(l, date) == l.file # 0

\* ensureFileForDate keeps the stream, a bad one, too.
FileIsCurrent(l, date) == l.date = date /\ l.file # 0

\* Line n goes to the stream l, which is good; fs are the files.
Append1(fs, file, n) == [fs EXCEPT ![file] = Append(@, n)]

WriteTo(p, l, fs, n) ==
    \/ /\ files' = fs
       /\ logs' = [logs EXCEPT ![p] = [l EXCEPT !.unwritten = n]]
    \/ /\ files' = Append1(fs, l.file, n)
       /\ logs' = [logs EXCEPT ![p] =
            IF MaxFileLines = 0 \/ Len(files'[l.file]) < MaxFileLines THEN l
            ELSE [l EXCEPT !.file = 0, !.step = "scan"]]

WriteLine(p) ==
    LET l == logs[p]
        n == Len(printed) + 1
        fresh == [Initialized EXCEPT !.date = today]
    IN  /\ l.initialized /\ l.step = "idle"
        /\ n <= MaxPrinted
        /\ printed' = Append(printed, today)
        /\ \/ /\ FileIsCurrent(l, today)
              /\ IF l.unwritten # 0 THEN UNCHANGED <<files, logs>>
                 ELSE WriteTo(p, l, files, n)
              /\ UNCHANGED dir
           \/ /\ ~FileIsCurrent(l, today)
              /\ \E fs \in Closings(l) :
                    \/ /\ files' = fs
                       /\ logs' = [logs EXCEPT ![p] = fresh]
                       /\ UNCHANGED dir
                    \/ LET o == Opened(fs, today)
                       IN  /\ WriteTo(p, [fresh EXCEPT !.file = o.file],
                                      o.files, n)
                           /\ dir' = o.dir
        /\ UNCHANGED <<today, crashes>>

-----------------------------------------------------------------------------
(* rotateCurrentFile.                                                      *)

Suffixes(day) ==
    {e.suffix : e \in {d \in dir : d.day = day}} \cap 1..(SuffixLimit - 1)

\* Fault: the first suffix that is free.
FirstFreeSuffix(day) == Min((1..SuffixLimit) \ Suffixes(day))

NextRotateSuffix(day) == Max(Suffixes(day) \cup {0}) + 1

ScanSuffixes(p) ==
    /\ logs[p].step = "scan"
    /\ logs' = [logs EXCEPT ![p].step = "rename",
                            ![p].suffix = NextRotateSuffix(logs[p].date)]
    /\ UNCHANGED <<today, printed, files, dir, crashes>>

\* rename: the name it moves to is taken from the file that had it.  It may
\* fail, and does when another process has just moved the base file.
Rename(p) ==
    LET l == logs[p]
        base == BaseOf(l.date)
        replaced == {e \in dir : e.day = l.date /\ e.suffix = l.suffix}
    IN  /\ l.step = "rename"
        /\ \/ UNCHANGED dir
           \/ /\ base # {}
              /\ dir' = (dir \ (base \cup replaced))
                            \cup {[e EXCEPT !.suffix = l.suffix] : e \in base}
        /\ logs' = [logs EXCEPT ![p].step = "reopen", ![p].suffix = 0]
        /\ UNCHANGED <<today, printed, files, crashes>>

Reopen(p) ==
    LET l == [logs[p] EXCEPT !.step = "idle"]
        o == Opened(files, l.date)
    IN  /\ logs[p].step = "reopen"
        /\ \/ /\ logs' = [logs EXCEPT ![p] = l]
              /\ UNCHANGED <<files, dir>>
           \/ /\ logs' = [logs EXCEPT ![p] = [l EXCEPT !.file = o.file]]
              /\ files' = o.files /\ dir' = o.dir
        /\ UNCHANGED <<today, printed, crashes>>

\* Midnight, or the clock is set, forward or back.
ClockMoves ==
    /\ today' \in 0..LastDay
    /\ UNCHANGED <<printed, files, dir, logs, crashes>>

Next ==
    \/ \E p \in Procs :
        \/ InitLog(p) \/ Shutdown(p) \/ Crash(p) \/ WriteLine(p)
        \/ ScanSuffixes(p) \/ Rename(p) \/ Reopen(p)
    \/ ClockMoves

Spec == Init /\ [][Next]_vars

-----------------------------------------------------------------------------
(* Properties.                                                             *)

LinesOf(e) == Range(files[e.file])

Kept == UNION {LinesOf(e) : e \in dir}

\* A line that is in the directory stays there, whatever is rotated, until
\* init finds it more than retainDays old.  (11 section 4.1: append, never
\* overwrite history; it takes a directory of one's own.)
KeepsHistory ==
    [][\A n \in Kept \ Kept' :
            RetainDays # 0 /\ today > printed[n] + RetainDays]_vars

\* The files of a day are in the order of their numbers, the base file last,
\* although a purge that was interrupted may have left gaps between them.
RotatedInOrder ==
    \A e, f \in dir :
        (/\ e.day = f.day /\ e.suffix # 0
         /\ f.suffix = 0 \/ e.suffix < f.suffix)
        => \A m \in LinesOf(e), n \in LinesOf(f) : m < n

\* A file holds the lines of the date in its name, those that a failing
\* stream writes only when it is closed on a later day among them: so purging
\* by name purges no line too early.
FilesByDay == \A e \in dir : \A n \in LinesOf(e) : printed[n] = e.day
=============================================================================
