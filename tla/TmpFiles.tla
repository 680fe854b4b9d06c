------------------------------- MODULE TmpFiles -------------------------------
(* TmpFile and TmpFolder: objects that look for a name nobody uses, create a *)
(* file or a folder of that name, write to it and remove it in the end, with *)
(* nothing that keeps two of them from finding the same name between the     *)
(* look and the creation.  A process may end without removing anything, and  *)
(* creating and removing may fail.                                           *)
(*                                                                           *)
(* unique_path() may return any of Names.  What a file or a folder holds is  *)
(* the set of the objects that wrote to it; every object is constructed in   *)
(* a process of its own, once.                                               *)
EXTENDS Naturals

CONSTANTS
  Files, Dirs,    \* the objects: each a TmpFile, or a TmpFolder
  Names,          \* the names unique_path() may return
  MaxTries,       \* 50: MAX_TRIES
  NoName

ASSUME TmpAssumption == Files \cap Dirs = {} /\ MaxTries \in Nat \ {0} /\ NoName \notin Names

VARIABLES
  names,       \* names[n]: whether something of that name is there, and what it holds
  phase,      \* phase[u]: where object u is
  path,       \* path[u]: filePath, or the name being tried
  tries,      \* tries[u]: the tries made
  isOpen,     \* isOpen[u]: the stream is open
  taken       \* history: the names somebody created while another was about to

tmpVars == <<names, phase, path, tries, isOpen, taken>>

Tmp == Files \cup Dirs

TmpTypeOK ==
  /\ names \in [Names -> [there : BOOLEAN, dir : BOOLEAN, holds : SUBSET Tmp]]
  /\ phase \in [Tmp -> {"new", "looking", "creating", "valid", "invalid", "gone"}]
  /\ path \in [Tmp -> Names \cup {NoName}] /\ tries \in [Tmp -> 0 .. MaxTries]
  /\ isOpen \in [Tmp -> BOOLEAN] /\ taken \subseteq Names

Nothing == [there |-> FALSE, dir |-> FALSE, holds |-> {}]

TmpInit ==
  /\ names = [n \in Names |-> Nothing] /\ phase = [u \in Tmp |-> "new"]
  /\ path = [u \in Tmp |-> NoName] /\ tries = [u \in Tmp |-> 0]
  /\ isOpen = [u \in Tmp |-> FALSE] /\ taken = {}

ConstructTmp(u) ==
  /\ phase[u] = "new"
  /\ phase' = [phase EXCEPT ![u] = "looking"]
  /\ UNCHANGED <<names, path, tries, isOpen, taken>>

\* The next try, or the end: an empty path, or an exception for a folder.
NextTry(u) == [phase EXCEPT ![u] = IF tries[u] + 1 < MaxTries THEN "looking" ELSE "invalid"]

\* Mutant of Unused: what is there does not matter.
UnusedUnchecked(n) == TRUE

\* exists() of the name.
Unused(n) == ~names[n].there

Look(u, n) ==
  /\ phase[u] = "looking"
  /\ path' = [path EXCEPT ![u] = n]
  /\ IF Unused(n)
       THEN phase' = [phase EXCEPT ![u] = "creating"] /\ UNCHANGED tries
       ELSE phase' = NextTry(u) /\ tries' = [tries EXCEPT ![u] = @ + 1]
  /\ UNCHANGED <<names, isOpen, taken>>

CreationFails(u) ==
  /\ phase[u] = "creating"
  /\ phase' = NextTry(u) /\ tries' = [tries EXCEPT ![u] = @ + 1]
  /\ UNCHANGED <<names, path, isOpen, taken>>

\* Another object has found the same name to be free and is about to create it as well.
Raced(u) ==
  IF \E v \in Tmp \ {u} : phase[v] = "creating" /\ path[v] = path[u] THEN taken \cup {path[u]} ELSE taken

\* open(binary | ate) empties a file that is there, so that the check of the position behind it
\* never finds anything.  It fails for a folder.
CreateFile(u) ==
  LET n == path[u] IN
  /\ u \in Files /\ phase[u] = "creating" /\ ~names[n].dir
  /\ taken' = Raced(u)
  /\ names' = [names EXCEPT ![n] = [there |-> TRUE, dir |-> FALSE, holds |-> {}]]
  /\ phase' = [phase EXCEPT ![u] = "valid"] /\ isOpen' = [isOpen EXCEPT ![u] = TRUE]
  /\ UNCHANGED <<path, tries>>

\* create_directories() takes a folder that is there, and fails for a file.
CreateDir(u) ==
  LET n == path[u] IN
  /\ u \in Dirs /\ phase[u] = "creating"
  /\ names[n].there => names[n].dir
  /\ taken' = Raced(u)
  /\ names' = [names EXCEPT ![n].there = TRUE, ![n].dir = TRUE]
  /\ phase' = [phase EXCEPT ![u] = "valid"]
  /\ UNCHANGED <<path, tries, isOpen>>

\* To the open file, or a file in the folder.
WriteTmp(u) ==
  /\ phase[u] = "valid"
  /\ u \in Files => isOpen[u]
  /\ names[path[u]].there /\ u \notin names[path[u]].holds
  /\ names' = [names EXCEPT ![path[u]].holds = @ \cup {u}]
  /\ UNCHANGED <<phase, path, tries, isOpen, taken>>

CloseTmp(u) ==
  /\ isOpen[u] /\ phase[u] = "valid"
  /\ isOpen' = [isOpen EXCEPT ![u] = FALSE]
  /\ UNCHANGED <<names, phase, path, tries, taken>>

\* The destructor removes what is there under the name, or fails silently.
DestroyTmp(u) ==
  /\ phase[u] = "valid"
  /\ phase' = [phase EXCEPT ![u] = "gone"] /\ isOpen' = [isOpen EXCEPT ![u] = FALSE]
  /\ \/ names' = [names EXCEPT ![path[u]] = Nothing]
     \/ UNCHANGED names
  /\ UNCHANGED <<path, tries, taken>>

\* The process ends.
CrashTmp(u) ==
  /\ phase[u] \in {"looking", "creating", "valid"}
  /\ phase' = [phase EXCEPT ![u] = "gone"] /\ isOpen' = [isOpen EXCEPT ![u] = FALSE]
  /\ UNCHANGED <<names, path, tries, taken>>

TmpNext ==
  \E u \in Tmp :
    \/ ConstructTmp(u) \/ CreationFails(u) \/ CreateFile(u) \/ CreateDir(u)
    \/ WriteTmp(u) \/ CloseTmp(u) \/ DestroyTmp(u) \/ CrashTmp(u)
    \/ \E n \in Names : Look(u, n)

TmpSpec == TmpInit /\ [][TmpNext]_tmpVars
-----------------------------------------------------------------------------
\* What a valid object made is there and holds nothing of another one's, whatever the others create,
\* leave behind and remove.  Only where somebody created the same name between a look and the
\* creation, as nothing in the code prevents, can two objects get in each other's way.
OwnUnlessRaced ==
  \A u \in Tmp :
    phase[u] = "valid" /\ path[u] \notin taken =>
      names[path[u]].there /\ names[path[u]].dir = (u \in Dirs) /\ names[path[u]].holds \subseteq {u}
=============================================================================
