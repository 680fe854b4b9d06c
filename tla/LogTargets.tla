------------------------------ MODULE LogTargets ------------------------------
(* Log: entries that are formatted when they are made and written when they  *)
(* are destroyed, to standard output, standard error and a file that is      *)
(* opened with the first text for it, through writers that can be exchanged, *)
(* shared by targets, and wrapped into one that leaves out repeated lines.   *)
(*                                                                           *)
(* A text is a short sequence of letters, Newline the last of some.  What a  *)
(* stream holds is the sequence of the letters written to it; colours, which *)
(* only add escape sequences around a text, are left out.  A file is named   *)
(* by its folder and the second in which it is opened.  One thread uses the  *)
(* log, and no writer that was wrapped is used without its wrapper as well.  *)
(* Bounds: Folders, MaxSecond, MaxWriters, MaxEntries.                       *)
EXTENDS Naturals, Sequences, SequencesExt

CONSTANTS
  Texts, Newline,
  Folders,       \* the values of logFilepath
  TargetSets,    \* the combinations of targets that are used
  Entries,       \* the places an entry can be in
  MaxSecond,     \* bounds the time
  MaxWriters,    \* bounds the writers made
  MaxEntries     \* bounds the entries written

LogTarget == {"Stdout", "Stderr", "File"}

\* What texts, and so streams, are made of.
Symbols == UNION {{text[i] : i \in DOMAIN text} : text \in Texts}

ASSUME LogAssumption ==
  /\ Texts \subseteq Seq(Symbols) /\ <<>> \notin Texts
  /\ TargetSets \subseteq SUBSET LogTarget /\ {} \notin TargetSets
  /\ Folders \subseteq Nat /\ Folders # {} /\ MaxSecond \in Nat /\ MaxWriters \in Nat /\ MaxEntries \in Nat

VARIABLES
  writers,    \* the writers made so far: the stream of each, whether it avoids duplicates, its lastLine
  target,     \* stdoutWriter, stderrWriter and fileWriter: the number of a writer, 0 for none
  folder,     \* logFilepath
  entry,      \* entry[e]: its text and targets; no text for none, or for one moved from
  flushing,   \* the entry being written: its text and the targets left
  streams,    \* streams[s]: what stream s holds
  second,     \* the second in which a file was opened last
  due,        \* history: each text with the streams its targets had
  emptied,    \* history: files that were opened again when they held something
  entries     \* counts the entries

logVars == <<writers, target, folder, entry, flushing, streams, second, due, emptied, entries>>

\* The order in which flush() writes to the targets.
First(targets) ==
  CASE "Stdout" \in targets -> "Stdout"
    [] "Stdout" \notin targets /\ "Stderr" \in targets -> "Stderr"
    [] OTHER -> "File"

Streams ==
  {<<"stdout", 0, 0>>, <<"stderr", 0, 0>>} \cup {<<"string", w, 0>> : w \in 1 .. MaxWriters}
    \cup {<<"file", f, n>> : f \in Folders, n \in 0 .. MaxSecond}
NoEntry == [text |-> <<>>, targets |-> {}]

LogTypeOK ==
  LET Some == [text : Texts, targets : SUBSET LogTarget] \cup {NoEntry} IN
  /\ writers \in Seq([stream : Streams, avoids : BOOLEAN, lastLine : Seq(Symbols)])
  /\ target \in [LogTarget -> 0 .. Len(writers)] /\ target["Stdout"] # 0 /\ target["Stderr"] # 0
  /\ folder \in Folders /\ entry \in [Entries -> Some] /\ flushing \in Some
  /\ streams \in [Streams -> Seq(Symbols)] /\ second \in 0 .. MaxSecond
  /\ due \subseteq Texts \X Streams /\ emptied \subseteq Streams /\ entries \in 0 .. MaxEntries

Writer(stream, avoids) == [stream |-> stream, avoids |-> avoids, lastLine |-> <<>>]
StdWriters == <<Writer(<<"stdout", 0, 0>>, FALSE), Writer(<<"stderr", 0, 0>>, FALSE)>>
DefaultTargets == [t \in LogTarget |-> CASE t = "Stdout" -> 1 [] t = "Stderr" -> 2 [] t = "File" -> 0]

LogInit ==
  /\ writers = StdWriters /\ target = DefaultTargets /\ folder \in Folders
  /\ entry = [e \in Entries |-> NoEntry] /\ flushing = NoEntry
  /\ streams = [s \in Streams |-> <<>>] /\ second = 0
  /\ due = {} /\ emptied = {} /\ entries = 0

Idle == flushing = NoEntry
StreamOf(t) == writers[target[t]].stream
-----------------------------------------------------------------------------
(* Entries.                                                                  *)

\* write, writeColored, writeToFile: an entry for some of the targets.  It is meant as a temporary, so
\* there is one at a time.
NewEntry(e, text, targets) ==
  /\ Idle /\ \A d \in Entries : entry[d] = NoEntry
  /\ entries < MaxEntries
  /\ entry' = [entry EXCEPT ![e] = [text |-> text, targets |-> targets]]
  /\ entries' = entries + 1
  /\ UNCHANGED <<writers, target, folder, flushing, streams, second, due, emptied>>

\* The move constructor: an entry moved from has no text.
MoveEntry(d, e) ==
  /\ Idle /\ entry[d] = NoEntry /\ entry[e] # NoEntry
  /\ entry' = [entry EXCEPT ![d] = entry[e], ![e] = NoEntry]
  /\ UNCHANGED <<writers, target, folder, flushing, streams, second, due, emptied, entries>>

\* ~FormatedLogEntry: the text is written, unless putting it together throws.
DestroyEntry(e) ==
  /\ Idle /\ entry[e] # NoEntry
  /\ entry' = [entry EXCEPT ![e] = NoEntry]
  /\ flushing' \in {entry[e], NoEntry}
  /\ UNCHANGED <<writers, target, folder, streams, second, due, emptied, entries>>

\* Mutant of Duplicate: a text is left out when it continues the last line.
DuplicateContinues(writer, text) == IsPrefix(writer.lastLine, text)

\* AvoidDuplicatesWriter leaves out what the last line starts with.
Duplicate(writer, text) == IsPrefix(text, writer.lastLine)

\* Texts are gathered into one line until the next text after a newline.
Line(writer, text) == (IF Newline \in ToSet(writer.lastLine) THEN <<>> ELSE writer.lastLine) \o text

\* writeText of the writer of target t.
WriteText(t, text) ==
  LET w == target[t] IN
  IF writers[w].avoids /\ Duplicate(writers[w], text)
    THEN UNCHANGED <<writers, streams>>
    ELSE /\ streams' = [streams EXCEPT ![writers[w].stream] = @ \o text]
         /\ writers' = IF writers[w].avoids
                         THEN [writers EXCEPT ![w].lastLine = Line(writers[w], text)] ELSE writers

\* One target of flush(); the file is open.
FlushTarget ==
  LET t == First(flushing.targets) IN
  /\ ~Idle /\ target[t] # 0
  /\ WriteText(t, flushing.text)
  /\ due' = due \cup {<<flushing.text, StreamOf(t)>>}
  /\ flushing' = IF flushing.targets = {t} THEN NoEntry ELSE [flushing EXCEPT !.targets = @ \ {t}]
  /\ UNCHANGED <<target, folder, entry, second, emptied, entries>>

\* open(): an existing file of that name is emptied.
OpenLogFile(now) ==
  LET file == <<"file", folder, now>> IN
  /\ now >= second
  /\ target["File"] = 0 /\ Len(writers) < MaxWriters
  /\ ~Idle => First(flushing.targets) = "File"
  /\ writers' = Append(writers, Writer(file, FALSE))
  /\ target' = [target EXCEPT !["File"] = Len(writers) + 1]
  /\ emptied' = IF streams[file] # <<>> THEN emptied \cup {file} ELSE emptied
  /\ streams' = [streams EXCEPT ![file] = <<>>]
  /\ second' = now
  /\ UNCHANGED <<folder, entry, flushing, due, entries>>

\* The file cannot be opened: the exception ends flush(), after what it wrote before.
OpenFails ==
  /\ ~Idle /\ First(flushing.targets) = "File" /\ target["File"] = 0
  /\ flushing' = NoEntry
  /\ UNCHANGED <<writers, target, folder, entry, streams, second, due, emptied, entries>>
-----------------------------------------------------------------------------
(* Settings.                                                                 *)

\* Refused once the file is open.
SetLogFilepath(f) ==
  /\ Idle /\ target["File"] = 0
  /\ folder' = f
  /\ UNCHANGED <<writers, target, entry, flushing, streams, second, due, emptied, entries>>

\* setWriter(writer, targets): a new writer, which may be shared by targets.
SetWriter(targets, stream, avoids) ==
  /\ Idle /\ Len(writers) < MaxWriters
  /\ writers' = Append(writers, Writer(stream, avoids))
  /\ target' = [t \in LogTarget |-> IF t \in targets THEN Len(writers) + 1 ELSE target[t]]
  /\ UNCHANGED <<folder, entry, flushing, streams, second, due, emptied, entries>>

SetStringWriter(targets, avoids) == SetWriter(targets, <<"string", Len(writers) + 1, 0>>, avoids)

\* An AvoidDuplicatesWriter around the writer a target has alone.
AvoidDuplicates(t) ==
  /\ target[t] # 0 /\ \A u \in LogTarget \ {t} : target[u] # target[t]
  /\ SetWriter({t}, StreamOf(t), TRUE)

\* reset() of an AvoidDuplicatesWriter: the line it remembers is forgotten, not what was written.
ForgetLine(w) ==
  /\ Idle /\ writers[w].avoids /\ writers[w].lastLine # <<>>
  /\ writers' = [writers EXCEPT ![w].lastLine = <<>>]
  /\ UNCHANGED <<target, folder, entry, flushing, streams, second, due, emptied, entries>>

\* setWriter(nullptr, targets): the defaults.
ResetWriter(targets) ==
  /\ Idle /\ \E t \in targets : target[t] # DefaultTargets[t]
  /\ target' = [t \in LogTarget |-> IF t \in targets THEN DefaultTargets[t] ELSE target[t]]
  /\ UNCHANGED <<writers, folder, entry, flushing, streams, second, due, emptied, entries>>

\* The process ends at any time and is started again; what it kept in memory is gone.
Restart ==
  /\ target' = DefaultTargets /\ folder' \in Folders
  /\ entry' = [e \in Entries |-> NoEntry] /\ flushing' = NoEntry
  /\ due' = {d \in due : d[2][1] # "string"}
  /\ UNCHANGED <<writers, streams, second, emptied, entries>>

LogNext ==
  \/ \E e \in Entries :
       \/ \E text \in Texts, targets \in TargetSets : NewEntry(e, text, targets)
       \/ DestroyEntry(e)
       \/ \E d \in Entries : MoveEntry(d, e)
  \/ FlushTarget \/ OpenFails \/ \E now \in 0 .. MaxSecond : OpenLogFile(now)
  \/ \E f \in Folders : SetLogFilepath(f)
  \/ \E ts \in TargetSets : ResetWriter(ts) \/ \E avoids \in BOOLEAN : SetStringWriter(ts, avoids)
  \/ \E t \in UNION TargetSets : AvoidDuplicates(t)
  \/ \E w \in 1 .. Len(writers) : ForgetLine(w)
  \/ Restart

LogSpec == LogInit /\ [][LogNext]_logVars
-----------------------------------------------------------------------------
\* What was logged can be read in the stream each of its targets had, also after a crash, whatever
\* was written in between and whichever writers avoided duplicates: a text that was left out is
\* there already.  Not in a file that was opened twice in a second.
Readable ==
  \A d \in due :
    LET stream == streams[d[2]] IN
    d[2] \notin emptied => \E i \in 0 .. Len(stream) : IsPrefix(d[1], SubSeq(stream, i + 1, Len(stream)))
=============================================================================
