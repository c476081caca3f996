-------------------------------- MODULE Logs ---------------------------------
(***************************************************************************)
(* The log files of one logger: the handlers that write them               *)
(* (shared/logging_handler.py), one in each process that has the logger    *)
(* (shared/logger.py), and the follower that shows them in the terminal    *)
(* (sdk/logstream.py).                                                     *)
(*                                                                         *)
(* The disk is a directory and the files behind it, since a rename leaves  *)
(* an open stream on its file.  Lines are numbered as they are written and *)
(* all have one length, so that a position in a file is a number of lines. *)
(***************************************************************************)
EXTENDS Integers, Sequences, FiniteSets, FiniteSetsExt

CONSTANTS
  Writers,    \* the processes that have a handler for the logger
  MaxFiles, MaxLines,
  Inherited,  \* the processes were forked with the first file already open
  Followed,   \* the follower runs
  Faults,     \* what may happen to a handler
  MaxWritten, \* bound: lines written
  MaxCuts     \* bound: crashes and failures

ASSUME LogsAssumption ==
  /\ {MaxFiles, MaxLines} \subseteq Nat \ {0}
  /\ {MaxWritten, MaxCuts} \subseteq Nat
  /\ IsFiniteSet(Writers) /\ Writers # {}
  /\ Inherited \in BOOLEAN /\ Followed \in BOOLEAN
  /\ Faults \subseteq {"crash",  \* a process dies and is started again
                       "error",  \* a step of a rotation raises OSError
                       "close"}  \* logging.shutdown closes the handler

Paths == 1 .. MaxFiles
Files == 1 .. (MaxFiles + Cardinality(Writers))
NoFile == 0
Hole == 0   \* what is between the end of a file and a position beyond it
Inheritance == "inheritance"
ASSUME InheritanceAssumption == Inheritance \notin Writers

VARIABLES
  path,     \* the file each path leads to
  data,     \* the lines of each file
  index,    \* _current_file_index of each handler
  count,    \* _current_line_count
  mode,     \* _stream: none, closed, or open "own" ("w"), "appending" ("a") or "inherited"
  file,     \* the file its stream is on
  pos,      \* the position of a stream opened with "w", or of the inherited one
  pc,       \* where each handler is
  then,     \* where it goes on after a rotation
  next,     \* the file a shift renames next
  written,  \* history: how many lines were written
  cuts,     \* history: crashes and failures
  purged,   \* history: a file has been purged
  fpc,      \* the follower
  todo,     \* the paths it has still to read in this pass
  seen,     \* positions
  shown     \* history: the lines it has shown

diskVars == <<path, data>>
handlerVars == <<index, count, mode, file, pos>>
stepVars == <<pc, then, next>>
historyVars == <<written, cuts, purged>>
followVars == <<fpc, todo, seen, shown>>
vars == <<diskVars, handlerVars, stepVars, historyVars, followVars>>

Modes == {"none", "closed", "own", "appending", "inherited"}
Steps == {"off", "idle", "write", "rotate", "unlink", "shift", "open"}

Existing == {i \in Paths : path[i] # NoFile}
LinesOf(f) == Cardinality({i \in 1 .. Len(data[f]) : data[f][i] # Hole})

\* Processes that are spawned, as the CLI's are (cli.py, main), have not started.
\* Those of a caller of the SDK who keeps the default of Linux are forked, after the
\* parent has opened the first file with "w" and written nothing.
Init ==
  /\ path = [i \in Paths |-> IF Inherited /\ i = 1 THEN 1 ELSE NoFile]
  /\ data = [f \in Files |-> <<>>]
  /\ index = [w \in Writers |-> IF Inherited THEN 1 ELSE 0]
  /\ count = [w \in Writers |-> 0]
  /\ mode = [w \in Writers |-> IF Inherited THEN "inherited" ELSE "none"]
  /\ file = [w \in Writers |-> IF Inherited THEN 1 ELSE NoFile]
  /\ pos = [s \in Writers \cup {Inheritance} |-> 0]
  /\ pc = [w \in Writers |-> IF Inherited THEN "idle" ELSE "off"]
  /\ then = [w \in Writers |-> "idle"]
  /\ next = [w \in Writers |-> 2]
  /\ written = 0 /\ cuts = 0 /\ purged = FALSE
  /\ fpc = "poll" /\ todo = {} /\ seen = [i \in Paths |-> 0] /\ shown = <<>>

-------------------------------------------------------------------------------
(* A handler. *)

Goto(w, step) == pc' = [pc EXCEPT ![w] = step]
At(w, step) == pc[w] = step

Full(n) == n >= MaxLines

\* A faulty form of the next definition: the lines that are there are not
\* counted.
StartNeverFull(w) ==
  /\ At(w, "off")
  /\ IF Existing = {}
       THEN Goto(w, "rotate") /\ UNCHANGED handlerVars
       ELSE LET i == Max(Existing) IN
         /\ index' = [index EXCEPT ![w] = i]
         /\ mode' = [mode EXCEPT ![w] = "appending"]
         /\ file' = [file EXCEPT ![w] = path[i]]
         /\ Goto(w, "idle")
         /\ UNCHANGED <<count, pos>>
  /\ UNCHANGED <<diskVars, then, next, historyVars, followVars>>

\* _initialize_state: resume the latest file, or rotate if there is none or it
\* is full.
Start(w) ==
  /\ At(w, "off")
  /\ IF Existing = {}
       THEN Goto(w, "rotate") /\ UNCHANGED handlerVars
       ELSE LET i == Max(Existing)
                n == LinesOf(path[i])
            IN  /\ index' = [index EXCEPT ![w] = i]
                /\ count' = [count EXCEPT ![w] = n]
                /\ IF Full(n)
                     THEN Goto(w, "rotate") /\ UNCHANGED <<mode, file>>
                     ELSE /\ mode' = [mode EXCEPT ![w] = "appending"]
                          /\ file' = [file EXCEPT ![w] = path[i]]
                          /\ Goto(w, "idle")
                /\ UNCHANGED pos
  /\ UNCHANGED <<diskVars, then, next, historyVars, followVars>>

\* A record comes to _write_line.
Emit(w) ==
  /\ At(w, "idle") /\ written < MaxWritten
  /\ then' = [then EXCEPT ![w] = "write"]
  /\ Goto(w, IF Full(count[w]) THEN "rotate" ELSE "write")
  /\ UNCHANGED <<diskVars, handlerVars, next, historyVars, followVars>>

\* One line at the position of the stream, or at the end of the file.
PutAt(s, p, line) ==
  [i \in 1 .. (IF Len(s) > p THEN Len(s) ELSE p + 1) |->
     IF i = p + 1 THEN line ELSE IF i <= Len(s) THEN s[i] ELSE Hole]
Position(w) == IF mode[w] = "inherited" THEN Inheritance ELSE w

Write(w) ==
  /\ At(w, "write") /\ mode[w] # "none"
  /\ LET f == file[w]
         p == IF mode[w] = "appending" THEN Len(data[f]) ELSE pos[Position(w)]
     IN  /\ data' = [data EXCEPT ![f] = PutAt(@, p, written + 1)]
         /\ pos' = IF mode[w] = "appending" THEN pos ELSE [pos EXCEPT ![Position(w)] = p + 1]
  /\ count' = [count EXCEPT ![w] = @ + 1]
  /\ written' = written + 1
  /\ Goto(w, "idle") /\ then' = [then EXCEPT ![w] = "idle"]
  /\ UNCHANGED <<path, index, mode, file, next, cuts, purged, followVars>>

\* A handler without a stream says nothing.
Discard(w) ==
  /\ At(w, "write") /\ mode[w] = "none"
  /\ Goto(w, "idle") /\ then' = [then EXCEPT ![w] = "idle"]
  /\ UNCHANGED <<diskVars, handlerVars, next, historyVars, followVars>>

\* A faulty form of the next definition: off by one.
RotateEarly(w) ==
  /\ At(w, "rotate")
  /\ mode' = [mode EXCEPT ![w] = IF @ = "none" THEN @ ELSE "closed"]
  /\ file' = [file EXCEPT ![w] = NoFile]
  /\ index' = [index EXCEPT ![w] = @ + 1]
  /\ Goto(w, IF index'[w] >= MaxFiles THEN "unlink" ELSE "open")
  /\ UNCHANGED <<diskVars, count, pos, then, next, historyVars, followVars>>

\* _rotate: the old stream is closed and the index moves on ...
Rotate(w) ==
  /\ At(w, "rotate")
  /\ mode' = [mode EXCEPT ![w] = IF @ = "none" THEN @ ELSE "closed"]
  /\ file' = [file EXCEPT ![w] = NoFile]
  /\ index' = [index EXCEPT ![w] = @ + 1]
  /\ Goto(w, IF index'[w] > MaxFiles THEN "unlink" ELSE "open")
  /\ UNCHANGED <<diskVars, count, pos, then, next, historyVars, followVars>>

\* A faulty form of the next definition: the first file is used again, round
\* robin.
UnlinkAndReuse(w) ==
  /\ At(w, "unlink")
  /\ path' = [path EXCEPT ![1] = NoFile]
  /\ Goto(w, "open")
  /\ index' = [index EXCEPT ![w] = 1]
  /\ purged' = TRUE
  /\ UNCHANGED <<data, count, mode, file, pos, then, next, written, cuts, followVars>>

\* ... beyond the last file the oldest is purged ...
Unlink(w) ==
  /\ At(w, "unlink")
  /\ path' = [path EXCEPT ![1] = NoFile]
  /\ next' = [next EXCEPT ![w] = 2]
  /\ Goto(w, IF MaxFiles = 1 THEN "open" ELSE "shift")
  /\ index' = [index EXCEPT ![w] = IF MaxFiles = 1 THEN 1 ELSE @]
  /\ purged' = TRUE
  /\ UNCHANGED <<data, count, mode, file, pos, then, written, cuts, followVars>>

\* A faulty form of the next definition: the index is left beyond the last file.
ShiftKeepsIndex(w) ==
  LET k == next[w] IN
  /\ At(w, "shift")
  /\ path' = IF path[k] = NoFile THEN path
             ELSE [path EXCEPT ![k - 1] = path[k], ![k] = NoFile]
  /\ next' = [next EXCEPT ![w] = IF k = MaxFiles THEN 2 ELSE k + 1]
  /\ Goto(w, IF k = MaxFiles THEN "open" ELSE "shift")
  /\ UNCHANGED <<data, index, count, mode, file, pos, then, historyVars, followVars>>

\* ... the others are renamed one by one, oldest first ...
Shift(w) ==
  LET k == next[w] IN
  /\ At(w, "shift")
  /\ path' = IF path[k] = NoFile THEN path
             ELSE [path EXCEPT ![k - 1] = path[k], ![k] = NoFile]
  /\ next' = [next EXCEPT ![w] = IF k = MaxFiles THEN 2 ELSE k + 1]
  /\ Goto(w, IF k = MaxFiles THEN "open" ELSE "shift")
  /\ index' = [index EXCEPT ![w] = IF k = MaxFiles THEN MaxFiles ELSE @]
  /\ UNCHANGED <<data, count, mode, file, pos, then, historyVars, followVars>>

\* ... and the new file is opened with "w", which empties one that is there.
Free == {f \in Files : f \notin {path[i] : i \in Paths} \cup {file[w] : w \in Writers}}
Open(w) ==
  LET i == index[w]
      f == IF path[i] = NoFile THEN Min(Free) ELSE path[i]
  IN  /\ At(w, "open")
      /\ path' = [path EXCEPT ![i] = f]
      /\ data' = [data EXCEPT ![f] = <<>>]
      /\ mode' = [mode EXCEPT ![w] = "own"]
      /\ file' = [file EXCEPT ![w] = f]
      /\ pos' = [pos EXCEPT ![w] = 0]
      /\ count' = [count EXCEPT ![w] = 0]
      /\ Goto(w, then[w])
      /\ UNCHANGED <<index, then, next, historyVars, followVars>>

\* A step of a rotation raises.  emit gives the record up, and the next one
\* rotates once more; in the constructor it ends the process.
RotationFails(w) ==
  /\ "error" \in Faults /\ cuts < MaxCuts
  /\ pc[w] \in {"unlink", "shift", "open"}
  /\ cuts' = cuts + 1
  /\ Goto(w, IF then[w] = "write" THEN "idle" ELSE "off")
  /\ next' = [next EXCEPT ![w] = 2]
  /\ IF then[w] = "write"
       THEN UNCHANGED handlerVars
       ELSE /\ index' = [index EXCEPT ![w] = 0]
            /\ count' = [count EXCEPT ![w] = 0]
            /\ mode' = [mode EXCEPT ![w] = "none"]
            /\ UNCHANGED <<file, pos>>
  /\ then' = [then EXCEPT ![w] = "idle"]
  /\ UNCHANGED <<diskVars, written, purged, followVars>>

Crash(w) ==
  /\ "crash" \in Faults /\ cuts < MaxCuts
  /\ pc[w] # "off"
  /\ cuts' = cuts + 1
  /\ Goto(w, "off")
  /\ index' = [index EXCEPT ![w] = 0]
  /\ count' = [count EXCEPT ![w] = 0]
  /\ mode' = [mode EXCEPT ![w] = "none"]
  /\ file' = [file EXCEPT ![w] = NoFile]
  /\ pos' = [pos EXCEPT ![w] = 0]
  /\ next' = [next EXCEPT ![w] = 2]
  /\ then' = [then EXCEPT ![w] = "idle"]
  /\ UNCHANGED <<diskVars, written, purged, followVars>>

\* close, by logging.shutdown at the end of an agent's event loop.
Close(w) ==
  /\ "close" \in Faults
  /\ At(w, "idle") /\ mode[w] # "none"
  /\ mode' = [mode EXCEPT ![w] = "none"]
  /\ file' = [file EXCEPT ![w] = NoFile]
  /\ UNCHANGED <<diskVars, index, count, pos, stepVars, historyVars, followVars>>

HandlerStep(w) ==
  \/ Start(w) \/ Emit(w) \/ Write(w) \/ Discard(w)
  \/ Rotate(w) \/ Unlink(w) \/ Shift(w) \/ Open(w)

-------------------------------------------------------------------------------
(* The follower. *)

\* A pass over the files that are there, in the order of their names.
Poll ==
  /\ Followed /\ fpc = "poll"
  /\ todo' = Existing
  /\ fpc' = "read"
  /\ UNCHANGED <<diskVars, handlerVars, stepVars, historyVars, seen, shown>>

\* A faulty form of the next definition: the position is not remembered.
ReadAgain ==
  /\ fpc = "read" /\ todo # {}
  /\ LET i == Min(todo) IN
       IF path[i] = NoFile
         THEN fpc' = "dead" /\ UNCHANGED <<seen, shown>>
         ELSE LET text == data[path[i]] IN
              /\ shown' = shown \o SubSeq(text, seen[i] + 1, Len(text))
              /\ UNCHANGED <<seen, fpc>>
  /\ todo' = todo \ {Min(todo)}
  /\ UNCHANGED <<diskVars, handlerVars, stepVars, historyVars>>

\* A faulty form of the next definition: like tail, a new file is not shown.
ReadLikeTail ==
  /\ fpc = "read" /\ todo # {}
  /\ LET i == Min(todo) IN
       IF path[i] = NoFile
         THEN fpc' = "dead" /\ UNCHANGED <<seen, shown>>
         ELSE LET text == data[path[i]] IN
              /\ shown' = IF seen[i] = 0 THEN shown
                          ELSE shown \o SubSeq(text, seen[i] + 1, Len(text))
              /\ seen' = [seen EXCEPT ![i] = Len(text)]
              /\ UNCHANGED fpc
  /\ todo' = todo \ {Min(todo)}
  /\ UNCHANGED <<diskVars, handlerVars, stepVars, historyVars>>

\* One file: what is beyond the position remembered for its path is shown.  A
\* file that has gone since the pass began raises, and ends the thread.
Read ==
  /\ fpc = "read" /\ todo # {}
  /\ LET i == Min(todo) IN
       IF path[i] = NoFile
         THEN fpc' = "dead" /\ UNCHANGED <<seen, shown>>
         ELSE LET text == data[path[i]] IN
              /\ shown' = shown \o SubSeq(text, seen[i] + 1, Len(text))
              /\ seen' = [seen EXCEPT ![i] = Len(text)]
              /\ UNCHANGED fpc
  /\ todo' = todo \ {Min(todo)}
  /\ UNCHANGED <<diskVars, handlerVars, stepVars, historyVars>>

EndPass ==
  /\ fpc = "read" /\ todo = {}
  /\ fpc' = "poll"
  /\ UNCHANGED <<diskVars, handlerVars, stepVars, historyVars, todo, seen, shown>>

FollowerStep == Poll \/ Read \/ EndPass

Next ==
  \/ \E w \in Writers : HandlerStep(w) \/ RotationFails(w) \/ Crash(w) \/ Close(w)
  \/ FollowerStep

Spec == Init /\ [][Next]_vars

\* Processes and the follower's thread are scheduled.  A handler writes only
\* when there is something to write, which nobody promises.
Fairness ==
  /\ \A w \in Writers : WF_vars(HandlerStep(w) /\ ~At(w, "idle"))
  /\ WF_vars(FollowerStep)
FairSpec == Spec /\ Fairness
==============================================================================
