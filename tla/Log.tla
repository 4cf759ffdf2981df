--------------------------------- MODULE Log ---------------------------------
(***************************************************************************)
(* class Log of src/log.hpp and class LogWriter of src/logger.hpp: a line  *)
(* gets its time by localtime(), which answers with a static struct that   *)
(* all threads share, and goes to the end of the file under a mutex.  Log  *)
(* takes the mutex for the file alone, LogWriter::write for the time too;  *)
(* LogWriter::show formats a line for the terminal and takes none.         *)
(***************************************************************************)
EXTENDS Integers, Sequences, FiniteSets

CONSTANTS
  Threads, NoThread,
  MaxTime,      \* bound: times of the clock are 1 .. MaxTime
  MaxLines      \* bound: lines of the file

VARIABLES
  writer,       \* the class: LogWriter, or else Log
  on,           \* the member
  mutex,        \* its holder
  file,         \* the lines: the time each has, and the one it should have
  now, tm,      \* the clock, and the static struct of localtime
  pc, show,     \* where each thread is, and whether in show()
  tt, text,     \* its locals: the time it took, and the time in its line
  mixed, shown  \* history: two calls overlapped; show() was called

callVars == <<pc, show, tt, text>>
vars == <<writer, on, mutex, file, now, tm, callVars, mixed, shown>>

Init ==
  /\ writer \in BOOLEAN /\ on \in BOOLEAN
  /\ mutex = NoThread /\ file = <<>> /\ now = 1 /\ tm = 0
  /\ pc = [t \in Threads |-> "out"] /\ show = [t \in Threads |-> FALSE]
  /\ tt = [t \in Threads |-> 0] /\ text = [t \in Threads |-> 0]
  /\ mixed = FALSE /\ shown = FALSE

Goes(t, from, to) == pc[t] = from /\ pc' = [pc EXCEPT ![t] = to]
Overlaps(t) == mixed' = (mixed \/ \E u \in Threads \ {t} : pc[u] # "out")

(* write, when it is on: Log has not locked yet, LogWriter has, and has    *)
(* opened the file.                                                        *)
Writes(t) ==
  /\ on /\ Goes(t, "out", "clock")
  /\ Len(file) + Cardinality({u \in Threads : pc[u] # "out"}) < MaxLines
  /\ show' = [show EXCEPT ![t] = FALSE]
  /\ IF writer THEN mutex = NoThread /\ mutex' = t ELSE UNCHANGED mutex
  /\ Overlaps(t)
  /\ UNCHANGED <<writer, on, file, now, tm, tt, text, shown>>

Shows(t) ==
  /\ writer /\ Goes(t, "out", "clock")
  /\ show' = [show EXCEPT ![t] = TRUE] /\ shown' = TRUE
  /\ Overlaps(t)
  /\ UNCHANGED <<writer, on, mutex, file, now, tm, tt, text>>

Clock(t) ==
  /\ Goes(t, "clock", "localtime")
  /\ tt' = [tt EXCEPT ![t] = now]
  /\ UNCHANGED <<writer, on, mutex, file, now, tm, show, text, mixed, shown>>

(* Broken variant of Localtime.                                            *)
LocaltimeOnce(t) ==
  /\ Goes(t, "localtime", "format")
  /\ tm' = IF tm = 0 THEN tt[t] ELSE tm
  /\ UNCHANGED <<writer, on, mutex, file, now, show, tt, text, mixed, shown>>

Localtime(t) ==
  /\ Goes(t, "localtime", "format")
  /\ tm' = tt[t]
  /\ UNCHANGED <<writer, on, mutex, file, now, show, tt, text, mixed, shown>>

Formats(t) ==
  /\ Goes(t, "format", "file")
  /\ text' = [text EXCEPT ![t] = tm]
  /\ UNCHANGED <<writer, on, mutex, file, now, tm, show, tt, mixed, shown>>

(* The line goes to the file, which Log may fail to open, or to the        *)
(* terminal.                                                               *)
Files(t) ==
  /\ Goes(t, "file", "out")
  /\ show[t] \/ mutex = IF writer THEN t ELSE NoThread
  /\ mutex' = IF show[t] THEN mutex ELSE NoThread
  /\ \/ /\ show[t] \/ ~writer
        /\ UNCHANGED file
     \/ /\ ~show[t]
        /\ file' = Append(file, [time |-> text[t], due |-> tt[t]])
  /\ UNCHANGED <<writer, on, now, tm, show, tt, text, mixed, shown>>

Clear ==
  /\ mutex = NoThread
  /\ file' = <<>>
  /\ UNCHANGED <<writer, on, mutex, now, tm, callVars, mixed, shown>>

Tick ==
  /\ now < MaxTime
  /\ now' = now + 1
  /\ UNCHANGED <<writer, on, mutex, file, tm, callVars, mixed, shown>>

Next ==
  \/ Clear \/ Tick
  \/ \E t \in Threads :
       \/ Writes(t) \/ Shows(t)
       \/ Clock(t) \/ Localtime(t) \/ Formats(t) \/ Files(t)

Spec == Init /\ [][Next]_vars
-----------------------------------------------------------------------------
(* The values of the variables; write of LogWriter holds the mutex.        *)
TypeOK ==
  /\ {writer, on, mixed, shown} \subseteq BOOLEAN
  /\ mutex \in Threads \union {NoThread}
  /\ \A i \in DOMAIN file : file[i].time \in 0 .. now /\ file[i].due \in 1 .. now
  /\ tm \in 0 .. now
  /\ pc \in [Threads -> {"out", "clock", "localtime", "format", "file"}]
  /\ \A t \in Threads : mutex = t <=> writer /\ pc[t] # "out" /\ ~show[t]

(* The lines of a file have their own times, and these go up, as long as   *)
(* no two calls overlap; LogWriter's writes never overlap, but its show    *)
(* and the calls of Log share the struct of localtime, and then a line may *)
(* have another one's time, or an earlier one than the line before it.     *)
TimesAreTrue ==
  /\ TypeOK
  /\ ~mixed => /\ \A i \in DOMAIN file : file[i].time = file[i].due
               /\ \A i, j \in DOMAIN file : i < j => file[i].time <= file[j].time
  /\ writer /\ ~shown => ~mixed
=============================================================================
