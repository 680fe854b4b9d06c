------------------------------- MODULE MCLibrary -------------------------------
(* The parts of the library that do not interact, each explored on its own:  *)
(* a behaviour chooses one of them and is a behaviour of that one.           *)
EXTENDS Serializer, BinaryFile, Md5Pieces, LogTargets, TmpFiles, PortMapping, PortableNames, TLC

CONSTANTS s1, s2, s3, e1, e2

VARIABLE part      \* the part that moves

allVars == <<part, serVars, fileVars, md5Vars, logVars, tmpVars, portVars, nameVars>>

McSymmetry == Permutations({s2, s3}) \cup Permutations({e1, e2})

\* A number takes one byte here, and a string, behind its length, two.
McSizeOf == [k \in {"number", "string"} |-> IF k = "number" THEN 1 ELSE 2]

McTexts == {<<"a">>, <<"b", Newline>>}
McReserved == {<<"n", "l">>}
McTargetSets == {{"Stdout", "File"}, {"File"}}

LibraryInit ==
  /\ part \in {"serializer", "file", "md5", "log", "tmp", "port", "name"}
  /\ SerInit /\ FileInit /\ Md5Init /\ LogInit /\ TmpInit /\ PortInit /\ NameInit
  /\ part # "port" => ~windows

LibraryNext ==
  /\ UNCHANGED part
  /\ \/ part = "serializer" /\ SerNext /\ UNCHANGED <<fileVars, md5Vars, logVars, tmpVars, portVars, nameVars>>
     \/ part = "file" /\ FileNext /\ UNCHANGED <<serVars, md5Vars, logVars, tmpVars, portVars, nameVars>>
     \/ part = "md5" /\ Md5Next /\ UNCHANGED <<serVars, fileVars, logVars, tmpVars, portVars, nameVars>>
     \/ part = "log" /\ LogNext /\ UNCHANGED <<serVars, fileVars, md5Vars, tmpVars, portVars, nameVars>>
     \/ part = "tmp" /\ TmpNext /\ UNCHANGED <<serVars, fileVars, md5Vars, logVars, portVars, nameVars>>
     \/ part = "port" /\ PortNext /\ UNCHANGED <<serVars, fileVars, md5Vars, logVars, tmpVars, nameVars>>
     \/ part = "name" /\ NameNext /\ UNCHANGED <<serVars, fileVars, md5Vars, logVars, tmpVars, portVars>>

LibrarySpec == LibraryInit /\ [][LibraryNext]_allVars

\* Each part keeps to its types.
LibraryTypeOK == SerTypeOK /\ FileTypeOK /\ Md5TypeOK /\ LogTypeOK /\ TmpTypeOK /\ PortTypeOK /\ NameTypeOK
=============================================================================
