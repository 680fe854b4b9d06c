----------------------------- MODULE PortableNames -----------------------------
(* Names made portable, and names a user may give to a file (fileFuncs.cpp). *)
(* The behaviour is that of a user who types a name, one character after the *)
(* other; each is checked and made portable in the three ways there are.     *)
(*                                                                           *)
(* Case, encoding, and the characters portable_posix_name allows beyond some *)
(* letters and the ones named here are left out.                             *)
EXTENDS Naturals, Sequences, SequencesExt, FiniteSetsExt

CONSTANTS
  Letters,
  Space, Slash,   \* neither is portable, and only one is valid
  ReservedNames,  \* con, nul ...: the Windows devices
  NameLimit,      \* 255: the length of a valid name
  MaxTyped        \* bounds the length of a name

ASSUME NamesAssumption ==
  /\ Letters \cap {".", "-", "_", Space, Slash} = {} /\ Space # Slash
  /\ {Space, Slash} \cap {".", "-", "_"} = {}
  /\ ReservedNames \subseteq Seq(Letters) \ {<<>>}
  /\ NameLimit \in Nat /\ MaxTyped \in Nat

VARIABLE typed     \* the name so far

nameVars == <<typed>>

Characters == Letters \cup {".", "-", Space, Slash}
DotNames == {<<".">>, <<".", ".">>}

NameTypeOK == typed \in Seq(Characters) /\ Len(typed) <= MaxTyped
NameInit == typed = <<>>
TypeCharacter(c) == Len(typed) < MaxTyped /\ typed' = Append(typed, c)
NameNext == \E c \in Characters : TypeCharacter(c)
NameSpec == NameInit /\ [][NameNext]_nameVars

Dots(n) == {i \in DOMAIN n : n[i] = "."}
WithoutDots[n \in Seq(Characters \cup {"_"})] ==
  IF n = <<>> THEN <<>> ELSE (IF Head(n) = "." THEN <<>> ELSE <<Head(n)>>) \o WithoutDots[Tail(n)]
-----------------------------------------------------------------------------
(* boost::filesystem.                                                        *)

portable_name(n) ==
  \/ n \in DotNames
  \/ /\ n # <<>> /\ ToSet(n) \subseteq Letters \cup {".", "-", "_"}
     /\ Head(n) \notin {".", "-"} /\ Last(n) # "."

\* At most one dot, and at most three characters behind it.
portable_file_name(n) ==
  /\ portable_name(n) /\ n \notin DotNames
  /\ \A i \in Dots(n) : Dots(n) = {i} /\ Len(n) - i <= 3

portable_directory_name(n) == n \in DotNames \/ (portable_name(n) /\ Dots(n) = {})
-----------------------------------------------------------------------------
(* Making names portable.                                                    *)

isReservedName(n) == n \in ReservedNames
Unreserved(n) == IF isReservedName(n) THEN Append(n, "_") ELSE n

Replaced(n) == [i \in DOMAIN n |-> IF n[i] \in {Space, Slash} THEN "_" ELSE n[i]]

\* Without the dots at both ends.
Trimmed(n) ==
  LET others == DOMAIN n \ Dots(n) IN
  IF others = {} THEN <<>> ELSE SubSeq(n, Min(others), Max(others))

makePortableName(n) ==
  LET r == Replaced(n) IN
  IF n = <<>> \/ portable_name(n) THEN Unreserved(n)
  ELSE Unreserved(IF r \in DotNames THEN r ELSE Trimmed(r))

\* The last dot stays, with three characters behind it.
Shortened(n) ==
  LET pos == Max(Dots(n)) IN
  IF Dots(n) = {} THEN n
  ELSE WithoutDots[SubSeq(n, 1, pos - 1)] \o SubSeq(n, pos, Min({Len(n), pos + 3}))

\* Mutant of makePortableFileName: the special names are not looked for again.
makePortableFileNameOnce(n) ==
  LET r == makePortableName(n) IN
  IF r = <<>> \/ portable_file_name(r) THEN r ELSE Shortened(r)

makePortableFileName(n) ==
  LET r == makePortableName(n) IN
  IF r = <<>> \/ portable_file_name(r) THEN r
  ELSE IF Shortened(r) \in DotNames THEN <<>> ELSE Shortened(r)

makePortableDirName(n) ==
  LET r == makePortableName(n) IN
  IF portable_directory_name(r) THEN r ELSE WithoutDots[r]

\* The part before the first dot must not be a device.
isValidFileName(n) ==
  /\ Len(n) \in 1 .. NameLimit
  /\ {Head(n), Last(n)} \cap {"."} = {} /\ Last(n) # Space
  /\ Slash \notin ToSet(n)
  /\ ~isReservedName(SubSeq(n, 1, Min({i - 1 : i \in Dots(n)} \cup {Len(n)})))
-----------------------------------------------------------------------------
Made(kind, n) ==
  CASE kind = "name" -> makePortableName(n)
    [] kind = "file" -> makePortableFileName(n)
    [] kind = "dir" -> makePortableDirName(n)
Portable(kind, n) ==
  CASE kind = "name" -> portable_name(n)
    [] kind = "file" -> portable_file_name(n)
    [] kind = "dir" -> portable_directory_name(n)

\* The assertions at the ends of the three functions: what is made of a name, if anything is left, is
\* portable in its way.  It also stays as it is when it is made portable again, and is a valid name
\* for a user's file.  This fails where the functions do not look: at a hyphen in front, at the name
\* of a device that has a dot in or behind it, and at the length.
Sanitized ==
  \A kind \in {"name", "file", "dir"} :
    LET made == Made(kind, typed) IN
    made # <<>> =>
      /\ Portable(kind, made) \/ Head(made) = "-"
      /\ Made(kind, made) = made \/ (kind = "dir" /\ isReservedName(made))
      /\ isReservedName(made) => kind = "dir"
      /\ \/ isValidFileName(made)
         \/ made \in DotNames \/ Len(made) > NameLimit
         \/ \E n \in ReservedNames : IsPrefix(Append(n, "."), made) \/ (kind = "dir" /\ made = n)
=============================================================================
