--------------------------- MODULE Library_proofs ----------------------------
(* What the log, the temporary files, the binary files, md5, the forwarded   *)
(* ports and the portable names promise, for any texts, targets, objects,    *)
(* names, items, data and ports.  As in MCLibrary, the parts do not          *)
(* interact: each has a specification, an inductive invariant and theorems   *)
(* of its own, and the last section puts their invariants together.          *)
EXTENDS MCLibrary, Serializer_proofs, SetInduction, SequenceTheorems, TLAPS

-----------------------------------------------------------------------------
(* Temporary files and folders.                                              *)

\* An object that still looks for a name has tries left; one that has found it has a name.
TriesLeft ==
  \A u \in Tmp :
    /\ phase[u] \in {"new", "looking", "creating"} => tries[u] < MaxTries
    /\ phase[u] \in {"creating", "valid"} => path[u] \in Names

\* What has been removed leaves nothing behind.
NothingLeft == \A n \in Names : ~names[n].there => names[n] = Nothing

\* Who is about to create what is there already has lost a race.
LateUnlessRaced ==
  \A u \in Tmp : phase[u] = "creating" /\ path[u] \notin taken => ~names[path[u]].there

\* No two objects have the same name, unless they have raced for it.
AloneUnlessRaced ==
  \A u, v \in Tmp :
    phase[u] = "valid" /\ phase[v] = "valid" /\ path[u] = path[v] /\ path[u] \notin taken => u = v

TmpInv ==
  /\ TmpTypeOK /\ TriesLeft /\ NothingLeft
  /\ LateUnlessRaced /\ AloneUnlessRaced /\ OwnUnlessRaced

LEMMA TmpTypes == ASSUME TmpInv, [TmpNext]_tmpVars PROVE TmpTypeOK' /\ TriesLeft'
<1> USE TmpAssumption DEF TmpAssumption
<1>1. TmpTypeOK /\ TriesLeft /\ NoName \notin Names /\ MaxTries \in Nat /\ MaxTries > 0
  BY DEF TmpInv
<1>2. ASSUME NEW u \in Tmp, tries[u] < MaxTries
      PROVE  /\ NextTry(u) \in [Tmp -> {"new", "looking", "creating", "valid", "invalid", "gone"}]
             /\ NextTry(u)[u] \in {"looking", "invalid"}
             /\ NextTry(u)[u] = "looking" => tries[u] + 1 < MaxTries
             /\ \A v \in Tmp \ {u} : NextTry(u)[v] = phase[v]
             /\ tries[u] + 1 \in 0 .. MaxTries
  BY <1>1, <1>2 DEF NextTry, TmpTypeOK
<1>3. ASSUME NEW u \in Tmp, NEW n \in Names, Look(u, n) PROVE TmpTypeOK' /\ TriesLeft'
  <2>1. tries[u] < MaxTries
    BY <1>1, <1>3 DEF Look, TriesLeft
  <2>2. CASE Unused(n)
    BY <1>1, <1>3, <2>2 DEF Look, TmpTypeOK, TriesLeft
  <2>3. CASE ~Unused(n)
    BY <1>1, <1>2, <1>3, <2>1, <2>3 DEF Look, TmpTypeOK, TriesLeft
  <2> QED
    BY <2>2, <2>3
<1>4. ASSUME NEW u \in Tmp, CreationFails(u) PROVE TmpTypeOK' /\ TriesLeft'
  <2>1. tries[u] < MaxTries
    BY <1>1, <1>4 DEF CreationFails, TriesLeft
  <2> QED
    BY <1>1, <1>2, <1>4, <2>1 DEF CreationFails, TmpTypeOK, TriesLeft
<1>5. ASSUME NEW u \in Tmp, CreateFile(u) \/ CreateDir(u) \/ WriteTmp(u) PROVE TmpTypeOK' /\ TriesLeft'
  <2>1. path[u] \in Names
    BY <1>1, <1>5 DEF CreateFile, CreateDir, WriteTmp, TriesLeft
  <2>2. Raced(u) \subseteq Names
    BY <1>1, <2>1 DEF Raced, TmpTypeOK
  <2>3. names' \in [Names -> [there : BOOLEAN, dir : BOOLEAN, holds : SUBSET Tmp]]
    <3>1. CASE CreateFile(u)
      BY <1>1, <2>1, <3>1 DEF CreateFile, TmpTypeOK
    <3>2. CASE CreateDir(u)
      <4> DEFINE Node == [there : BOOLEAN, dir : BOOLEAN, holds : SUBSET Tmp]
      <4> PICK n \in Node : n = names[path[u]]
        BY <1>1, <2>1 DEF TmpTypeOK
      <4>1. [n EXCEPT !.there = TRUE, !.dir = TRUE] \in Node
        OBVIOUS
      <4>2. names' = [names EXCEPT ![path[u]] = [n EXCEPT !.there = TRUE, !.dir = TRUE]]
        BY <1>1, <2>1, <3>2 DEF CreateDir, TmpTypeOK
      <4> QED
        BY <1>1, <2>1, <4>1, <4>2 DEF TmpTypeOK
    <3>3. CASE WriteTmp(u)
      <4> PICK x : x = [names[path[u]] EXCEPT !.holds = names[path[u]].holds \cup {u}]
        OBVIOUS
      <4>1. x \in [there : BOOLEAN, dir : BOOLEAN, holds : SUBSET Tmp]
        BY <1>1, <2>1 DEF TmpTypeOK
      <4>2. names' = [names EXCEPT ![path[u]] = x]
        BY <3>3 DEF WriteTmp
      <4> QED
        BY <1>1, <2>1, <4>1, <4>2 DEF TmpTypeOK
    <3> QED
      BY <1>5, <3>1, <3>2, <3>3
  <2>4. /\ phase' = phase \/ phase' = [phase EXCEPT ![u] = "valid"]
        /\ isOpen' = isOpen \/ isOpen' = [isOpen EXCEPT ![u] = TRUE]
        /\ taken' \subseteq taken \cup Raced(u) /\ UNCHANGED <<path, tries>>
    BY <1>5 DEF CreateFile, CreateDir, WriteTmp
  <2>5. phase' \in [Tmp -> {"new", "looking", "creating", "valid", "invalid", "gone"}]
    BY <1>1, <2>4 DEF TmpTypeOK
  <2>6. isOpen' \in [Tmp -> BOOLEAN]
    BY <1>1, <2>4 DEF TmpTypeOK
  <2>7. TmpTypeOK'
    BY <1>1, <2>2, <2>3, <2>4, <2>5, <2>6 DEF TmpTypeOK
  <2>8. \A v \in Tmp : phase'[v] = phase[v] \/ (v = u /\ phase'[v] = "valid")
    <3>1. phase \in [Tmp -> {"new", "looking", "creating", "valid", "invalid", "gone"}]
      BY <1>1 DEF TmpTypeOK
    <3>2. CASE phase' = [phase EXCEPT ![u] = "valid"]
      BY <3>1, <3>2
    <3>3. CASE phase' = phase
      BY <3>3
    <3> QED
      BY <2>4, <3>2, <3>3
  <2>9. TriesLeft'
    BY <1>1, <2>1, <2>4, <2>8 DEF TriesLeft
  <2> QED
    BY <2>7, <2>9
<1>6. ASSUME NEW u \in Tmp, ConstructTmp(u) \/ CloseTmp(u) \/ DestroyTmp(u) \/ CrashTmp(u)
      PROVE  TmpTypeOK' /\ TriesLeft'
  <2>1. names' \in [Names -> [there : BOOLEAN, dir : BOOLEAN, holds : SUBSET Tmp]]
    <3>1. Nothing \in [there : BOOLEAN, dir : BOOLEAN, holds : SUBSET Tmp]
      BY DEF Nothing
    <3>2. names' = names \/ names' = [names EXCEPT ![path[u]] = Nothing]
      BY <1>6 DEF ConstructTmp, CloseTmp, DestroyTmp, CrashTmp
    <3> QED
      BY <1>1, <3>1, <3>2 DEF TmpTypeOK
  <2> QED
    BY <1>1, <1>6, <2>1 DEF ConstructTmp, CloseTmp, DestroyTmp, CrashTmp, TmpTypeOK, TriesLeft
<1>7. CASE UNCHANGED tmpVars
  BY <1>1, <1>7 DEF tmpVars, TmpTypeOK, TriesLeft
<1> QED
  BY <1>3, <1>4, <1>5, <1>6, <1>7 DEF TmpNext

\* Creation: the name was free or has been raced for, and if it was free nobody else has it.
LEMMA CreateKeeps ==
  ASSUME TmpInv, TmpTypeOK', NEW u \in Tmp, phase[u] = "creating",
         taken' = Raced(u), phase' = [phase EXCEPT ![u] = "valid"], path' = path,
         \A n \in Names : n # path[u] => names'[n] = names[n],
         names'[path[u]].there, names'[path[u]].dir = (u \in Dirs),
         ~names[path[u]].there => names'[path[u]].holds = {}
  PROVE  NothingLeft' /\ LateUnlessRaced' /\ AloneUnlessRaced' /\ OwnUnlessRaced'
<1>1. /\ path[u] \in Names /\ phase'[u] = "valid" /\ \A v \in Tmp \ {u} : phase'[v] = phase[v]
      /\ taken \subseteq taken'
      /\ \A v \in Tmp : phase[v] \in {"creating", "valid"} => path[v] \in Names
  BY DEF TmpInv, TriesLeft, TmpTypeOK, Raced
<1>2. path[u] \notin taken' => ~names[path[u]].there
  BY <1>1 DEF TmpInv, LateUnlessRaced
<1>3. NothingLeft'
  BY <1>1 DEF TmpInv, NothingLeft
<1>4. LateUnlessRaced'
  <2> SUFFICES ASSUME NEW v \in Tmp, phase'[v] = "creating", path[v] \notin taken'
               PROVE  ~names'[path[v]].there
    BY DEF LateUnlessRaced
  <2>1. v # u /\ phase[v] = "creating" /\ path[v] \notin taken
    BY <1>1
  <2>2. path[v] # path[u]
    BY <2>1 DEF Raced
  <2> QED
    BY <1>1, <2>1, <2>2 DEF TmpInv, LateUnlessRaced
<1>5. ASSUME NEW v \in Tmp, v # u, phase'[v] = "valid", path[v] \notin taken' PROVE path[v] # path[u]
  <2>1. names[path[v]].there
    BY <1>1, <1>5 DEF TmpInv, OwnUnlessRaced
  <2> QED
    BY <1>2, <1>5, <2>1
<1>6. AloneUnlessRaced'
  BY <1>1, <1>5 DEF TmpInv, AloneUnlessRaced
<1>7. OwnUnlessRaced'
  <2> SUFFICES ASSUME NEW v \in Tmp, phase'[v] = "valid", path[v] \notin taken'
               PROVE  /\ names'[path[v]].there /\ names'[path[v]].dir = (v \in Dirs)
                      /\ names'[path[v]].holds \subseteq {v}
    BY DEF OwnUnlessRaced
  <2>1. CASE v = u
    BY <1>2, <2>1
  <2>2. CASE v # u
    <3>1. names'[path[v]] = names[path[v]] /\ phase[v] = "valid" /\ path[v] \notin taken
      BY <1>1, <1>5, <2>2
    <3> QED
      BY <3>1 DEF TmpInv, OwnUnlessRaced
  <2> QED
    BY <2>1, <2>2
<1> QED
  BY <1>3, <1>4, <1>6, <1>7

\* A step of an object that becomes valid in none, and changes at most what it has itself.
LEMMA OwnStepKeeps ==
  ASSUME TmpInv, TmpTypeOK', NEW u \in Tmp, taken' = taken,
         \A v \in Tmp \ {u} : phase'[v] = phase[v] /\ path'[v] = path[v],
         phase'[u] = "valid" => phase[u] = "valid" /\ path'[u] = path[u],
         phase'[u] = "creating" => ~names[path'[u]].there /\ names' = names,
         \/ names' = names
         \/ /\ phase[u] = "valid"
            /\ \A n \in Names : n # path[u] => names'[n] = names[n]
            /\ \/ phase'[u] # "valid" /\ names'[path[u]] = Nothing
               \/ /\ names[path[u]].there
                  /\ names'[path[u]].there = names[path[u]].there
                  /\ names'[path[u]].dir = names[path[u]].dir
                  /\ names'[path[u]].holds = names[path[u]].holds \cup {u}
  PROVE  NothingLeft' /\ LateUnlessRaced' /\ AloneUnlessRaced' /\ OwnUnlessRaced'
<1>1. \A v \in Tmp : phase[v] \in {"creating", "valid"} => path[v] \in Names
  BY DEF TmpInv, TriesLeft
<1>2. NothingLeft'
  <2> SUFFICES ASSUME NEW n \in Names, ~names'[n].there, names'[n] # Nothing PROVE FALSE
    BY DEF NothingLeft
  <2> QED
    BY DEF TmpInv, NothingLeft
<1>3. LateUnlessRaced'
  <2> SUFFICES ASSUME NEW v \in Tmp, phase'[v] = "creating", path'[v] \notin taken
               PROVE  ~names'[path'[v]].there
    BY DEF LateUnlessRaced
  <2>1. CASE v = u
    BY <2>1
  <2>2. CASE v # u
    <3>1. phase[v] = "creating" /\ path'[v] = path[v] /\ ~names[path[v]].there
      BY <2>2 DEF TmpInv, LateUnlessRaced
    <3>2. ~names'[path[v]].there
      BY <1>1, <3>1 DEF Nothing
    <3> QED
      BY <3>1, <3>2
  <2> QED
    BY <2>1, <2>2
<1>4. AloneUnlessRaced'
  BY DEF TmpInv, AloneUnlessRaced
<1>5. OwnUnlessRaced'
  <2> SUFFICES ASSUME NEW v \in Tmp, phase'[v] = "valid", path'[v] \notin taken
               PROVE  /\ names'[path'[v]].there /\ names'[path'[v]].dir = (v \in Dirs)
                      /\ names'[path'[v]].holds \subseteq {v}
    BY DEF OwnUnlessRaced
  <2>1. phase[v] = "valid" /\ path'[v] = path[v] /\ path[v] \in Names
    BY <1>1
  <2>2. /\ names[path[v]].there /\ names[path[v]].dir = (v \in Dirs)
        /\ names[path[v]].holds \subseteq {v}
    BY <2>1 DEF TmpInv, OwnUnlessRaced
  <2>3. CASE v = u
    BY <2>1, <2>2, <2>3
  <2>4. CASE v # u
    <3>1. phase[u] = "valid" => path[u] # path[v]
      BY <2>1, <2>4 DEF TmpInv, AloneUnlessRaced
    <3>2. names'[path[v]] = names[path[v]]
      BY <2>1, <3>1
    <3> QED
      BY <2>1, <2>2, <3>2
  <2> QED
    BY <2>3, <2>4
<1> QED
  BY <1>2, <1>3, <1>4, <1>5

LEMMA TmpStep == TmpInv /\ [TmpNext]_tmpVars => TmpInv'
<1> SUFFICES ASSUME TmpInv, [TmpNext]_tmpVars PROVE TmpInv'
  OBVIOUS
<1> USE TmpAssumption DEF TmpAssumption
<1>1. TmpTypeOK' /\ TriesLeft' /\ TmpTypeOK
  BY TmpTypes DEF TmpInv
<1>2. ASSUME NothingLeft' /\ LateUnlessRaced' /\ AloneUnlessRaced' /\ OwnUnlessRaced' PROVE TmpInv'
  BY <1>1, <1>2 DEF TmpInv
<1>3. ASSUME NEW u \in Tmp, CreateFile(u) PROVE TmpInv'
  <2>1. path[u] \in Names /\ u \notin Dirs
    BY <1>3 DEF CreateFile, TmpInv, TriesLeft, Tmp
  <2>2. names'[path[u]] = [there |-> TRUE, dir |-> FALSE, holds |-> {}]
    BY <1>1, <1>3, <2>1 DEF CreateFile, TmpTypeOK
  <2>3. \A n \in Names : n # path[u] => names'[n] = names[n]
    BY <1>1, <1>3 DEF CreateFile, TmpTypeOK
  <2>4. names'[path[u]].there /\ names'[path[u]].dir = FALSE /\ names'[path[u]].holds = {}
    BY <2>2
  <2>5. names'[path[u]].dir = (u \in Dirs)
    <3>1. (u \in Dirs) = FALSE
      BY <2>1
    <3> QED
      BY ONLY <2>4, <3>1
  <2>6. phase[u] = "creating" /\ taken' = Raced(u) /\ phase' = [phase EXCEPT ![u] = "valid"] /\ path' = path
    BY <1>3 DEF CreateFile
  <2>7. ~names[path[u]].there => names'[path[u]].holds = {}
    BY <2>4
  <2> QED
    BY <1>1, <1>2, <2>3, <2>4, <2>5, <2>6, <2>7, CreateKeeps
<1>4. ASSUME NEW u \in Tmp, CreateDir(u) PROVE TmpInv'
  <2>1. path[u] \in Names /\ u \in Dirs
    BY <1>4 DEF CreateDir, TmpInv, TriesLeft
  <2>2. /\ names'[path[u]].there /\ names'[path[u]].dir = TRUE
        /\ names'[path[u]].holds = names[path[u]].holds
    BY <1>1, <1>4, <2>1 DEF CreateDir, TmpTypeOK
  <2>3. \A n \in Names : n # path[u] => names'[n] = names[n]
    BY <1>1, <1>4 DEF CreateDir, TmpTypeOK
  <2>4. ~names[path[u]].there => names[path[u]].holds = {}
    BY <2>1 DEF TmpInv, NothingLeft, Nothing
  <2> QED
    BY <1>1, <1>2, <1>4, <2>1, <2>2, <2>3, <2>4, CreateKeeps DEF CreateDir
<1>5. ASSUME NEW u \in Tmp, NEW n \in Names, Look(u, n) PROVE TmpInv'
  <2>1. path' = [path EXCEPT ![u] = n] /\ names' = names /\ taken' = taken /\ path'[u] = n
    BY <1>1, <1>5 DEF Look, TmpTypeOK
  <2>2. /\ \A v \in Tmp \ {u} : phase'[v] = phase[v] /\ path'[v] = path[v]
        /\ phase'[u] # "valid" /\ (phase'[u] = "creating" => ~names[n].there)
    BY <1>1, <1>5, <2>1 DEF Look, TmpTypeOK, NextTry, Unused
  <2> QED
    BY <1>1, <1>2, <2>1, <2>2, OwnStepKeeps
<1>6. ASSUME NEW u \in Tmp, ConstructTmp(u) \/ CreationFails(u) \/ CloseTmp(u) \/ CrashTmp(u) PROVE TmpInv'
  <2>1. /\ \A v \in Tmp \ {u} : phase'[v] = phase[v] /\ path'[v] = path[v]
        /\ (phase'[u] = "valid" => phase[u] = "valid" /\ path'[u] = path[u])
        /\ phase'[u] # "creating" /\ names' = names /\ taken' = taken
    BY <1>1, <1>6 DEF ConstructTmp, CreationFails, CloseTmp, CrashTmp, NextTry, TmpTypeOK
  <2> QED
    BY <1>1, <1>2, <2>1, OwnStepKeeps
<1>7. ASSUME NEW u \in Tmp, WriteTmp(u) PROVE TmpInv'
  <2>1. path[u] \in Names /\ phase[u] = "valid" /\ names[path[u]].there
    BY <1>7 DEF WriteTmp, TmpInv, TriesLeft
  <2>2. /\ names'[path[u]].there = names[path[u]].there /\ names'[path[u]].dir = names[path[u]].dir
        /\ names'[path[u]].holds = names[path[u]].holds \cup {u}
    BY <1>1, <1>7, <2>1, ZenonT(30) DEF WriteTmp, TmpTypeOK
  <2>3. \A n \in Names : n # path[u] => names'[n] = names[n]
    BY <1>1, <1>7 DEF WriteTmp, TmpTypeOK
  <2>4. phase' = phase /\ path' = path /\ taken' = taken
    BY <1>7 DEF WriteTmp
  <2> QED
    BY <1>1, <1>2, <2>1, <2>2, <2>3, <2>4, OwnStepKeeps
<1>8. ASSUME NEW u \in Tmp, DestroyTmp(u) PROVE TmpInv'
  <2>1. path[u] \in Names /\ phase[u] = "valid" /\ phase'[u] = "gone" /\ path' = path /\ taken' = taken
    BY <1>1, <1>8 DEF DestroyTmp, TmpInv, TriesLeft, TmpTypeOK
  <2>2. \A v \in Tmp \ {u} : phase'[v] = phase[v]
    BY <1>1, <1>8 DEF DestroyTmp, TmpTypeOK
  <2>3. \/ names' = names
        \/ names'[path[u]] = Nothing /\ \A n \in Names : n # path[u] => names'[n] = names[n]
    BY <1>1, <1>8, <2>1 DEF DestroyTmp, TmpTypeOK
  <2> QED
    BY <1>1, <1>2, <2>1, <2>2, <2>3, OwnStepKeeps
<1>9. CASE UNCHANGED tmpVars
  BY <1>1, <1>2, <1>9 DEF tmpVars, TmpInv, NothingLeft, LateUnlessRaced, AloneUnlessRaced, OwnUnlessRaced
<1> QED
  BY <1>3, <1>4, <1>5, <1>6, <1>7, <1>8, <1>9 DEF TmpNext

LEMMA TmpStart == TmpInit => TmpInv
<1> SUFFICES ASSUME TmpInit PROVE TmpInv
  OBVIOUS
<1>1. TmpTypeOK
  BY TmpAssumption DEF TmpAssumption, TmpInit, TmpTypeOK, Nothing
<1>2. \A u \in Tmp : phase[u] = "new" /\ tries[u] = 0
  BY DEF TmpInit
<1>3. \A n \in Names : names[n] = Nothing
  BY DEF TmpInit
<1> QED
  BY <1>1, <1>2, <1>3, TmpAssumption DEF TmpAssumption, TmpInv, TriesLeft, NothingLeft,
     LateUnlessRaced, AloneUnlessRaced, OwnUnlessRaced

LEMMA TmpInvariant == TmpSpec => []TmpInv
  BY TmpStart, TmpStep, PTL DEF TmpSpec

\* tmpFile.cpp: what a TmpFile or TmpFolder made is there, is of its kind and holds nothing of
\* another's, unless somebody created the name between its look and its creation.
THEOREM TmpFilesOwn == TmpSpec => []OwnUnlessRaced
<1>1. TmpInv => OwnUnlessRaced
  BY DEF TmpInv
<1> QED
  BY <1>1, TmpInvariant, PTL

-----------------------------------------------------------------------------
(* The log.                                                                  *)

InUse(w) == \E t \in LogTarget : target[t] = w

\* The first two writers are those of the standard streams, and avoid nothing.
StdFirst == Len(writers) >= 2 /\ \A i \in {1, 2} : writers[i] = StdWriters[i]

\* Only its own target writes to a standard stream or a file, and no writer made later has the
\* stream of an earlier one into strings, unless it was put around that one.
OwnStreams ==
  /\ \A t \in LogTarget : target[t] # 0 =>
       /\ StreamOf(t)[1] = "stdout" => t = "Stdout"
       /\ StreamOf(t)[1] = "stderr" => t = "Stderr"
       /\ StreamOf(t)[1] = "file" => t = "File"
  /\ \A w \in 1 .. Len(writers) :
       writers[w].stream[1] = "string" => writers[w].stream[2] <= Len(writers)

\* Two writers in use do not write to the same stream.
StreamsDiffer ==
  \A t, u \in LogTarget :
    target[t] # 0 /\ target[u] # 0 /\ StreamOf(t) = StreamOf(u) => target[t] = target[u]

\* The sequence l ends the sequence s.
Ends(l, s) == Len(l) <= Len(s) /\ \A j \in 1 .. Len(l) : s[Len(s) - Len(l) + j] = l[j]

\* The line a writer in use remembers is the end of what it wrote to.
LineIsEnd ==
  \A w \in 1 .. Len(writers) :
    /\ ~writers[w].avoids => writers[w].lastLine = <<>>
    /\ InUse(w) /\ writers[w].stream \notin emptied
         => Ends(writers[w].lastLine, streams[writers[w].stream])

\* The text t can be read in the sequence s.
Occurs(t, s) == \E i \in 0 .. Len(s) : IsPrefix(t, SubSeq(s, i + 1, Len(s)))

LogInv == LogTypeOK /\ StdFirst /\ OwnStreams /\ StreamsDiffer /\ LineIsEnd /\ Readable

-----------------------------------------------------------------------------
\* Prefixes, ends and occurrences by their elements.
LEMMA PrefixFacts ==
  ASSUME NEW S, NEW t \in Seq(S), NEW s \in Seq(S)
  PROVE  IsPrefix(t, s) <=> Len(t) <= Len(s) /\ \A j \in 1 .. Len(t) : s[j] = t[j]
<1>1. SubSeq(t, 1, Len(t)) = t
  OBVIOUS
<1>2. CASE Len(t) <= Len(s)
  <2> DEFINE u == SubSeq(s, 1, Len(t))
  <2>1. u \in Seq(S) /\ Len(u) = Len(t) /\ \A j \in 1 .. Len(t) : u[j] = s[j]
    BY <1>2
  <2> HIDE DEF u
  <2>2. u = t <=> \A j \in 1 .. Len(t) : s[j] = t[j]
    BY <2>1
  <2> QED
    BY <1>1, <1>2, <2>2 DEF IsPrefix, u
<1> QED
  BY <1>2 DEF IsPrefix

LEMMA OccursFacts ==
  ASSUME NEW S, NEW t \in Seq(S), NEW s \in Seq(S)
  PROVE  Occurs(t, s) <=> \E i \in 0 .. Len(s) :
                            i + Len(t) <= Len(s) /\ \A j \in 1 .. Len(t) : s[i + j] = t[j]
<1> SUFFICES ASSUME NEW i \in 0 .. Len(s)
             PROVE  IsPrefix(t, SubSeq(s, i + 1, Len(s)))
                      <=> i + Len(t) <= Len(s) /\ \A j \in 1 .. Len(t) : s[i + j] = t[j]
  BY DEF Occurs
<1> DEFINE u == SubSeq(s, i + 1, Len(s))
<1>1. u \in Seq(S) /\ Len(u) = Len(s) - i /\ \A j \in 1 .. Len(s) - i : u[j] = s[i + j]
  OBVIOUS
<1> HIDE DEF u
<1>2. IsPrefix(t, u) <=> Len(t) <= Len(u) /\ \A j \in 1 .. Len(t) : u[j] = t[j]
  BY <1>1, PrefixFacts
<1>3. Len(t) <= Len(u) <=> i + Len(t) <= Len(s)
  BY <1>1
<1>4. Len(t) <= Len(u) => \A j \in 1 .. Len(t) : u[j] = s[i + j]
  BY <1>1
<1> QED
  BY <1>2, <1>3, <1>4 DEF u

LEMMA ConcatFacts ==
  ASSUME NEW S, NEW s \in Seq(S), NEW x \in Seq(S)
  PROVE  /\ s \o x \in Seq(S) /\ Len(s \o x) = Len(s) + Len(x)
         /\ \A j \in 1 .. Len(s) : (s \o x)[j] = s[j]
         /\ \A j \in 1 .. Len(x) : (s \o x)[Len(s) + j] = x[j]
OBVIOUS

\* Writing more leaves readable what was, and what is written can be read.
LEMMA OccursLonger ==
  ASSUME NEW S, NEW t \in Seq(S), NEW s \in Seq(S), NEW x \in Seq(S)
  PROVE  Occurs(x, s \o x) /\ (Occurs(t, s) => Occurs(t, s \o x))
<1> DEFINE u == s \o x
<1>1. /\ u \in Seq(S) /\ Len(u) = Len(s) + Len(x)
      /\ \A j \in 1 .. Len(s) : u[j] = s[j]
      /\ \A j \in 1 .. Len(x) : u[Len(s) + j] = x[j]
  BY ConcatFacts
<1> HIDE DEF u
<1>2. Occurs(x, u)
  <2>1. Len(s) \in 0 .. Len(u) /\ Len(s) + Len(x) <= Len(u)
    BY <1>1
  <2> QED
    BY <1>1, <2>1, OccursFacts
<1>3. ASSUME Occurs(t, s) PROVE Occurs(t, u)
  <2> PICK i \in 0 .. Len(s) : i + Len(t) <= Len(s) /\ \A j \in 1 .. Len(t) : s[i + j] = t[j]
    BY <1>3, OccursFacts
  <2>1. i \in 0 .. Len(u) /\ i + Len(t) <= Len(u)
    BY <1>1
  <2>2. ASSUME NEW j \in 1 .. Len(t) PROVE u[i + j] = t[j]
    <3>1. i + j \in 1 .. Len(s) /\ s[i + j] = t[j]
      OBVIOUS
    <3> QED
      BY <1>1, <3>1
  <2> QED
    BY <1>1, <2>1, <2>2, OccursFacts
<1> QED
  BY <1>2, <1>3 DEF u

\* What a line starts with can be read where the line ends what was written.
LEMMA PrefixOfEnd ==
  ASSUME NEW S, NEW t \in Seq(S), NEW l \in Seq(S), NEW s \in Seq(S), IsPrefix(t, l), Ends(l, s)
  PROVE  Occurs(t, s)
<1>1. Len(t) <= Len(l) /\ \A j \in 1 .. Len(t) : l[j] = t[j]
  BY PrefixFacts
<1>2. Len(l) <= Len(s) /\ \A j \in 1 .. Len(l) : s[Len(s) - Len(l) + j] = l[j]
  BY DEF Ends
<1>3. Len(s) - Len(l) \in 0 .. Len(s) /\ Len(s) - Len(l) + Len(t) <= Len(s)
  BY <1>1, <1>2
<1>4. \A j \in 1 .. Len(t) : s[Len(s) - Len(l) + j] = t[j]
  BY <1>1, <1>2
<1> QED
  BY <1>3, <1>4, OccursFacts

\* A line and the text behind it end what the text was written to; nothing ends everything.
LEMMA EndsLonger ==
  ASSUME NEW S, NEW l \in Seq(S), NEW s \in Seq(S), NEW x \in Seq(S), Ends(l, s)
  PROVE  Ends(l \o x, s \o x)
<1>1. Len(l) <= Len(s) /\ \A j \in 1 .. Len(l) : s[Len(s) - Len(l) + j] = l[j]
  BY DEF Ends
<1> DEFINE u == s \o x
           m == l \o x
<1>2. /\ u \in Seq(S) /\ Len(u) = Len(s) + Len(x)
      /\ \A j \in 1 .. Len(s) : u[j] = s[j]
      /\ \A j \in 1 .. Len(x) : u[Len(s) + j] = x[j]
  BY ConcatFacts
<1>3. /\ m \in Seq(S) /\ Len(m) = Len(l) + Len(x)
      /\ \A j \in 1 .. Len(l) : m[j] = l[j]
      /\ \A j \in 1 .. Len(x) : m[Len(l) + j] = x[j]
  BY ConcatFacts
<1> HIDE DEF u, m
<1>4. Len(m) <= Len(u) /\ Len(u) - Len(m) = Len(s) - Len(l)
  BY <1>1, <1>2, <1>3
<1>5. ASSUME NEW j \in 1 .. Len(m) PROVE u[Len(u) - Len(m) + j] = m[j]
  <2>1. CASE j <= Len(l)
    <3>1. j \in 1 .. Len(l) /\ Len(s) - Len(l) + j \in 1 .. Len(s)
      BY <1>1, <2>1
    <3> QED
      BY <1>1, <1>2, <1>3, <1>4, <3>1
  <2>2. CASE j > Len(l)
    <3> PICK k \in 1 .. Len(x) : j = Len(l) + k
      <4>1. j - Len(l) \in 1 .. Len(x) /\ j = Len(l) + (j - Len(l))
        BY <1>3, <2>2
      <4> QED
        BY <4>1
    <3>1. Len(s) - Len(l) + j = Len(s) + k
      BY <1>1
    <3> QED
      BY <1>2, <1>3, <1>4, <3>1
  <2> QED
    BY <2>1, <2>2
<1> QED
  BY <1>4, <1>5 DEF Ends, u, m

LEMMA EmptyEnds == ASSUME NEW S, NEW s \in Seq(S) PROVE Ends(<<>>, s)
BY DEF Ends

-----------------------------------------------------------------------------
(* Steps of the log.                                                         *)

Entry == [text : Texts, targets : SUBSET LogTarget] \cup {NoEntry}
LogWriter == [stream : Streams, avoids : BOOLEAN, lastLine : Seq(Symbols)]

\* Targets have writers, and those have streams.
LEMMA TargetFacts ==
  ASSUME LogTypeOK
  PROVE  /\ Len(writers) \in Nat /\ DOMAIN writers = 1 .. Len(writers)
         /\ \A w \in 1 .. Len(writers) :
              /\ writers[w] \in LogWriter /\ writers[w].stream \in Streams
              /\ writers[w].avoids \in BOOLEAN /\ writers[w].lastLine \in Seq(Symbols)
         /\ \A t \in LogTarget : target[t] \in Nat /\ (target[t] # 0 => target[t] \in 1 .. Len(writers))
         /\ \A s \in Streams : streams[s] \in Seq(Symbols)
<1>1. writers \in Seq(LogWriter)
  BY DEF LogTypeOK, LogWriter
<1>2. Len(writers) \in Nat /\ DOMAIN writers = 1 .. Len(writers)
  BY <1>1
<1>3. \A w \in 1 .. Len(writers) : writers[w] \in LogWriter
  BY <1>1, <1>2
<1>4. \A t \in LogTarget : target[t] \in 0 .. Len(writers)
  BY DEF LogTypeOK
<1>5. \A s \in Streams : streams[s] \in Seq(Symbols)
  BY DEF LogTypeOK
<1> QED
  BY <1>2, <1>3, <1>4, <1>5 DEF LogWriter

\* Steps that write nothing and exchange no writer.
LEMMA QuietLog ==
  ASSUME LogInv, LogTypeOK', UNCHANGED <<writers, target, streams, due, emptied>>
  PROVE  LogInv'
BY DEF LogInv, StdFirst, OwnStreams, StreamsDiffer, LineIsEnd, Readable, InUse, StreamOf

\* What is read stays readable when streams keep what they hold or are counted as emptied.
LEMMA StillReadable ==
  ASSUME LogTypeOK, Readable, emptied \subseteq emptied', due' \subseteq due,
         \A s \in Streams : s \notin emptied' => streams'[s] = streams[s]
  PROVE  Readable'
<1>1. \A d \in due : d[2] \in Streams
  BY DEF LogTypeOK
<1> QED
  BY <1>1 DEF Readable

\* setWriter(nullptr, ...) and a restart: some targets have their default writers again.
LEMMA DefaultsBack ==
  ASSUME LogInv, LogTypeOK', UNCHANGED <<writers, streams, emptied>>, due' \subseteq due,
         \A t \in LogTarget : target'[t] = target[t] \/ target'[t] = DefaultTargets[t]
  PROVE  LogInv'
<1>1. /\ LogTypeOK /\ StdFirst /\ OwnStreams /\ StreamsDiffer /\ LineIsEnd /\ Readable
      /\ Len(writers) \in Nat
  BY TargetFacts DEF LogInv
<1>2. StdFirst'
  BY <1>1 DEF StdFirst
<1>3. /\ writers[1].stream[1] = "stdout" /\ writers[2].stream[1] = "stderr"
      /\ ~writers[1].avoids /\ ~writers[2].avoids
  BY <1>1 DEF StdFirst, StdWriters, Writer
<1>4. /\ DefaultTargets["Stdout"] = 1 /\ DefaultTargets["Stderr"] = 2 /\ DefaultTargets["File"] = 0
      /\ LogTarget = {"Stdout", "Stderr", "File"}
  BY DEF DefaultTargets, LogTarget
<1>5. OwnStreams'
  BY <1>1, <1>3, <1>4 DEF OwnStreams, StreamOf
<1>6. StreamsDiffer'
  <2> SUFFICES ASSUME NEW t \in LogTarget, NEW u \in LogTarget, target'[t] # 0, target'[u] # 0,
                      StreamOf(t)' = StreamOf(u)'
               PROVE  target'[t] = target'[u]
    BY DEF StreamsDiffer
  <2>1. ASSUME NEW a \in LogTarget, NEW b \in LogTarget, target'[a] # 0, target'[b] # 0,
               StreamOf(a)' = StreamOf(b)', target'[a] = DefaultTargets[a]
        PROVE  a = b
    <3>1. a = "Stdout" \/ a = "Stderr"
      BY <1>4, <2>1
    <3>2. StreamOf(a)'[1] = IF a = "Stdout" THEN "stdout" ELSE "stderr"
      BY <1>3, <1>4, <2>1, <3>1 DEF StreamOf
    <3> QED
      BY <1>5, <2>1, <3>1, <3>2 DEF OwnStreams
  <2>2. CASE target'[t] = target[t] /\ target'[u] = target[u]
    BY <1>1, <2>2 DEF StreamsDiffer, StreamOf
  <2>3. CASE target'[t] = DefaultTargets[t] \/ target'[u] = DefaultTargets[u]
    BY <2>1, <2>3
  <2> QED
    BY <2>2, <2>3
<1>7. LineIsEnd'
  <2> SUFFICES ASSUME NEW w \in 1 .. Len(writers), InUse(w)', writers[w].stream \notin emptied
               PROVE  Ends(writers[w].lastLine, streams[writers[w].stream])
    BY <1>1 DEF LineIsEnd
  <2>1. CASE InUse(w)
    BY <1>1, <2>1 DEF LineIsEnd
  <2>2. CASE ~InUse(w)
    <3>1. w \in {1, 2}
      BY <1>4, <2>2 DEF InUse
    <3>2. writers[w].lastLine = <<>> /\ streams[writers[w].stream] \in Seq(Symbols)
      BY <1>1, <1>3, <3>1, TargetFacts DEF LineIsEnd
    <3> QED
      BY <3>2, EmptyEnds
  <2> QED
    BY <2>1, <2>2
<1>8. Readable'
  BY <1>1, StillReadable
<1> QED
  BY <1>2, <1>5, <1>6, <1>7, <1>8 DEF LogInv

\* A new writer of a stream that no other target writes to.
LEMMA NewWriter ==
  ASSUME LogInv, LogTypeOK', NEW ts \in SUBSET LogTarget, NEW s \in Streams, NEW a \in BOOLEAN,
         writers' = Append(writers, Writer(s, a)),
         \A t \in LogTarget : target'[t] = IF t \in ts THEN Len(writers) + 1 ELSE target[t],
         \A t \in ts : /\ s[1] = "stdout" => t = "Stdout"
                       /\ s[1] = "stderr" => t = "Stderr"
                       /\ s[1] = "file" => t = "File",
         s[1] = "string" => s[2] <= Len(writers) + 1,
         \A u \in LogTarget \ ts : target[u] # 0 => StreamOf(u) # s,
         due' = due, emptied \subseteq emptied',
         \A z \in Streams : streams'[z] \in Seq(Symbols) /\ (z \notin emptied' => streams'[z] = streams[z])
  PROVE  LogInv'
<1> DEFINE n == Len(writers)
<1>1. /\ LogTypeOK /\ StdFirst /\ OwnStreams /\ StreamsDiffer /\ LineIsEnd /\ Readable
  BY DEF LogInv
<1>2. /\ n \in Nat /\ Len(writers') = n + 1 /\ writers'[n + 1] = Writer(s, a)
      /\ \A w \in 1 .. n : writers'[w] = writers[w]
  BY <1>1, TargetFacts
<1>3. /\ Writer(s, a).stream = s /\ Writer(s, a).avoids = a /\ Writer(s, a).lastLine = <<>>
  BY DEF Writer
<1> HIDE DEF n
<1>4. /\ \A t \in LogTarget : target[t] # 0 => target[t] \in 1 .. n
      /\ \A w \in 1 .. n : writers[w].stream \in Streams
  BY <1>1, TargetFacts DEF n
<1>5. /\ \A t \in ts : target'[t] = n + 1 /\ StreamOf(t)' = s
      /\ \A t \in LogTarget \ ts : target'[t] = target[t] /\ (target[t] # 0 => StreamOf(t)' = StreamOf(t))
  BY <1>2, <1>3, <1>4 DEF StreamOf, n
<1>6. StdFirst'
  BY <1>1, <1>2 DEF StdFirst, n
<1>7. OwnStreams'
  <2>1. (\A t \in LogTarget : target[t] # 0 =>
           /\ StreamOf(t)[1] = "stdout" => t = "Stdout"
           /\ StreamOf(t)[1] = "stderr" => t = "Stderr"
           /\ StreamOf(t)[1] = "file" => t = "File")'
    <3> SUFFICES ASSUME NEW t \in LogTarget, target'[t] # 0
                 PROVE  (/\ StreamOf(t)[1] = "stdout" => t = "Stdout"
                         /\ StreamOf(t)[1] = "stderr" => t = "Stderr"
                         /\ StreamOf(t)[1] = "file" => t = "File")'
      OBVIOUS
    <3>1. CASE t \in ts
      <4>1. StreamOf(t)' = s
        BY <1>5, <3>1
      <4>2. /\ s[1] = "stdout" => t = "Stdout"
            /\ s[1] = "stderr" => t = "Stderr"
            /\ s[1] = "file" => t = "File"
        BY <3>1
      <4>3. StreamOf(t)'[1] = s[1]
        BY <4>1
      <4> QED
        BY <4>2, <4>3
    <3>2. CASE t \notin ts
      BY <1>1, <1>5, <3>2 DEF OwnStreams
    <3> QED
      BY <3>1, <3>2
  <2>2. \A w \in 1 .. n + 1 : writers'[w].stream[1] = "string" => writers'[w].stream[2] <= n + 1
    <3> SUFFICES ASSUME NEW w \in 1 .. n + 1, writers'[w].stream[1] = "string"
                 PROVE  writers'[w].stream[2] <= n + 1
      OBVIOUS
    <3>1. CASE w = n + 1
      BY <1>2, <1>3, <3>1 DEF n
    <3>2. CASE w # n + 1
      <4>1. w \in 1 .. n /\ writers'[w] = writers[w]
        BY <1>2, <3>2
      <4>2. writers[w].stream[2] <= n
        BY <1>1, <4>1 DEF OwnStreams, n
      <4>3. writers[w].stream[2] \in Nat
        BY <1>4, <4>1, LogAssumption DEF LogAssumption, Streams
      <4> QED
        BY <1>2, <4>1, <4>2, <4>3
    <3> QED
      BY <3>1, <3>2
  <2> QED
    BY <1>2, <2>1, <2>2 DEF OwnStreams
<1>8. StreamsDiffer'
  BY <1>1, <1>5 DEF StreamsDiffer
<1>9. LineIsEnd'
  <2> SUFFICES ASSUME NEW w \in 1 .. n + 1
               PROVE  (/\ ~writers[w].avoids => writers[w].lastLine = <<>>
                       /\ InUse(w) /\ writers[w].stream \notin emptied
                            => Ends(writers[w].lastLine, streams[writers[w].stream]))'
    BY <1>2 DEF LineIsEnd
  <2>1. CASE w = n + 1
    <3>1. writers'[w].lastLine = <<>> /\ streams'[writers'[w].stream] \in Seq(Symbols)
      BY <1>2, <1>3, <2>1
    <3> QED
      BY <3>1, EmptyEnds
  <2>2. CASE w # n + 1
    <3>1. w \in 1 .. n /\ writers'[w] = writers[w]
      BY <1>2, <2>2
    <3>2. InUse(w)' => InUse(w)
      BY <1>5, <2>2 DEF InUse
    <3>3. writers[w].stream \notin emptied' => streams'[writers[w].stream] = streams[writers[w].stream]
      BY <1>4, <3>1
    <3> QED
      BY <1>1, <3>1, <3>2, <3>3 DEF LineIsEnd, n
  <2> QED
    BY <2>1, <2>2
<1>10. Readable'
  BY <1>1, StillReadable
<1> QED
  BY <1>6, <1>7, <1>8, <1>9, <1>10 DEF LogInv

\* writeText on the first target of an entry: the text is there, or has been there already.
LEMMA FlushKeeps == ASSUME LogInv, LogTypeOK', FlushTarget PROVE LogInv'
<1> PICK t : t = First(flushing.targets)
  OBVIOUS
<1> PICK text : text = flushing.text
  OBVIOUS
<1>0. /\ LogTypeOK /\ StdFirst /\ OwnStreams /\ StreamsDiffer /\ LineIsEnd /\ Readable
  BY DEF LogInv
<1>1. /\ t \in LogTarget /\ target[t] # 0 /\ WriteText(t, text)
      /\ due' = due \cup {<<text, StreamOf(t)>>} /\ UNCHANGED <<target, emptied>>
  BY DEF FlushTarget, First, LogTarget
<1>2. text \in Seq(Symbols)
  <2>1. flushing \in Entry /\ flushing # NoEntry
    BY <1>0 DEF LogTypeOK, Entry, FlushTarget, Idle
  <2> QED
    BY <2>1, LogAssumption DEF LogAssumption, Entry
<1> PICK w : w = target[t]
  OBVIOUS
<1> PICK s : s = writers[w].stream
  OBVIOUS
<1> PICK l : l = writers[w].lastLine
  OBVIOUS
<1>3. /\ w \in 1 .. Len(writers) /\ Len(writers) \in Nat /\ StreamOf(t) = s /\ s \in Streams
      /\ l \in Seq(Symbols) /\ streams[s] \in Seq(Symbols) /\ InUse(w) /\ writers[w] \in LogWriter
  BY <1>0, <1>1, TargetFacts DEF StreamOf, InUse
<1>4. ~writers[w].avoids => l = <<>>
  BY <1>0, <1>3 DEF LineIsEnd
<1>5. s \notin emptied => Ends(l, streams[s])
  BY <1>0, <1>3 DEF LineIsEnd
<1>6. CASE writers[w].avoids /\ Duplicate(writers[w], text)
  <2>1. UNCHANGED <<writers, streams>>
    BY <1>1, <1>6 DEF WriteText
  <2>2. s \notin emptied => Occurs(text, streams[s])
    <3>1. IsPrefix(text, l)
      BY <1>6 DEF Duplicate
    <3> QED
      BY <1>2, <1>3, <1>5, <3>1, PrefixOfEnd
  <2>3. Readable'
    <3> SUFFICES ASSUME NEW d \in due', d[2] \notin emptied PROVE Occurs(d[1], streams[d[2]])
      BY <1>1, <2>1 DEF Readable, Occurs
    <3>1. d \in due \/ d = <<text, s>>
      BY <1>1, <1>3
    <3>2. CASE d \in due
      BY <1>0, <3>2 DEF Readable, Occurs
    <3>3. CASE d = <<text, s>>
      BY <2>2, <3>3
    <3> QED
      BY <3>1, <3>2, <3>3
  <2> QED
    BY <1>0, <1>1, <2>1, <2>3 DEF LogInv, StdFirst, OwnStreams, StreamsDiffer, LineIsEnd, InUse, StreamOf
<1>7. CASE ~(writers[w].avoids /\ Duplicate(writers[w], text))
  <2>1. /\ streams' = [streams EXCEPT ![s] = streams[s] \o text]
        /\ writers' = IF writers[w].avoids
                        THEN [writers EXCEPT ![w].lastLine = Line(writers[w], text)] ELSE writers
    BY <1>1, <1>7 DEF WriteText
  <2>2. /\ streams'[s] = streams[s] \o text
        /\ \A z \in Streams : z # s => streams'[z] = streams[z]
    BY <1>0, <1>3, <2>1 DEF LogTypeOK
  <2>3. /\ Len(writers') = Len(writers)
        /\ \A v \in 1 .. Len(writers) :
             writers'[v].stream = writers[v].stream /\ writers'[v].avoids = writers[v].avoids
        /\ \A v \in 1 .. Len(writers) : v # w \/ ~writers[w].avoids => writers'[v] = writers[v]
    <3>1. writers \in Seq(LogWriter)
      BY <1>0 DEF LogTypeOK, LogWriter
    <3>2. CASE writers[w].avoids
      <4> PICK x : x = [writers[w] EXCEPT !.lastLine = Line(writers[w], text)]
        OBVIOUS
      <4>1. x.stream = writers[w].stream /\ x.avoids = writers[w].avoids
        BY <1>3 DEF LogWriter
      <4>2. writers' = [writers EXCEPT ![w] = x]
        BY <2>1, <3>2
      <4>3. /\ Len(writers') = Len(writers) /\ writers'[w] = x
            /\ \A v \in 1 .. Len(writers) : v # w => writers'[v] = writers[v]
        BY <1>3, <3>1, <4>2
      <4> QED
        BY <3>2, <4>1, <4>3
    <3>3. CASE ~writers[w].avoids
      BY <2>1, <3>3
    <3> QED
      BY <3>2, <3>3
  <2>4. StdFirst'
    <3>1. ~StdWriters[1].avoids /\ ~StdWriters[2].avoids
      BY DEF StdWriters, Writer
    <3>2. \A i \in {1, 2} : i \in 1 .. Len(writers) /\ writers[i] = StdWriters[i]
      BY <1>0, <1>3 DEF StdFirst
    <3>3. \A i \in {1, 2} : i # w \/ ~writers[w].avoids
      BY <3>1, <3>2
    <3> QED
      BY <1>0, <2>3, <3>2, <3>3 DEF StdFirst
  <2>5. \A u \in LogTarget : target[u] # 0 => target[u] \in 1 .. Len(writers) /\ StreamOf(u)' = StreamOf(u)
    BY <1>0, <1>1, <2>3, TargetFacts DEF StreamOf
  <2>6. OwnStreams'
    BY <1>0, <1>1, <2>3, <2>5 DEF OwnStreams
  <2>7. StreamsDiffer'
    BY <1>0, <1>1, <2>5 DEF StreamsDiffer
  <2>8. \A v \in 1 .. Len(writers) : InUse(v) /\ v # w => writers[v].stream # s
    BY <1>0, <1>1, <1>3 DEF StreamsDiffer, StreamOf, InUse
  <2>9. s \notin emptied => Ends(writers'[w].lastLine, streams'[s])
    <3> SUFFICES ASSUME s \notin emptied PROVE Ends(writers'[w].lastLine, streams[s] \o text)
      BY <2>2
    <3>1. CASE ~writers[w].avoids
      <4>1. writers'[w].lastLine = <<>> /\ streams[s] \o text \in Seq(Symbols)
        BY <1>2, <1>3, <1>4, <2>3, <3>1
      <4> QED
        BY <4>1, EmptyEnds
    <3>2. CASE writers[w].avoids
      <4>1. writers'[w].lastLine = Line(writers[w], text)
        <5> PICK line : line = Line(writers[w], text)
          OBVIOUS
        <5> PICK x : x = [writers[w] EXCEPT !.lastLine = line]
          OBVIOUS
        <5>1. writers \in Seq(LogWriter) /\ writers' = [writers EXCEPT ![w] = x]
          BY <1>0, <2>1, <3>2 DEF LogTypeOK, LogWriter
        <5>2. writers'[w] = x
          BY <1>3, <5>1
        <5>3. x.lastLine = line
          BY <1>3 DEF LogWriter
        <5> QED
          BY <5>2, <5>3
      <4>2. Ends(l \o text, streams[s] \o text) /\ Ends(<<>> \o text, streams[s] \o text)
        <5>1. Ends(<<>>, streams[s]) /\ <<>> \in Seq(Symbols)
          BY <1>3, EmptyEnds
        <5>2. Ends(<<>> \o text, streams[s] \o text)
          BY <1>2, <1>3, <5>1, EndsLonger
        <5> QED
          BY <1>2, <1>3, <1>5, <5>2, EndsLonger
      <4> QED
        BY <4>1, <4>2 DEF Line
    <3> QED
      BY <3>1, <3>2
  <2>10. LineIsEnd'
    <3> SUFFICES ASSUME NEW v \in 1 .. Len(writers)
                 PROVE  (/\ ~writers[v].avoids => writers[v].lastLine = <<>>
                         /\ InUse(v) /\ writers[v].stream \notin emptied
                              => Ends(writers[v].lastLine, streams[writers[v].stream]))'
      BY <2>3 DEF LineIsEnd
    <3>1. CASE v = w
      BY <1>1, <1>4, <2>3, <2>9, <3>1
    <3>2. CASE v # w
      <4>1. writers'[v] = writers[v] /\ writers[v].stream \in Streams
        BY <1>0, <2>3, <3>2, TargetFacts
      <4>2. InUse(v)' <=> InUse(v)
        BY <1>1 DEF InUse
      <4>3. InUse(v) => streams'[writers[v].stream] = streams[writers[v].stream]
        BY <2>2, <2>8, <3>2, <4>1
      <4> QED
        BY <1>0, <1>1, <4>1, <4>2, <4>3 DEF LineIsEnd
    <3> QED
      BY <3>1, <3>2
  <2>11. Readable'
    <3> SUFFICES ASSUME NEW d \in due', d[2] \notin emptied PROVE Occurs(d[1], streams'[d[2]])
      BY <1>1 DEF Readable, Occurs
    <3>1. CASE d = <<text, s>>
      <4>1. Occurs(text, streams[s] \o text)
        BY <1>2, <1>3, OccursLonger
      <4> QED
        BY <2>2, <3>1, <4>1
    <3>2. CASE d \in due
      <4>1. d[1] \in Seq(Symbols) /\ d[2] \in Streams
        BY <1>0, <3>2, LogAssumption DEF LogTypeOK, LogAssumption
      <4>2. Occurs(d[1], streams[d[2]])
        BY <1>0, <3>2 DEF Readable, Occurs
      <4>3. CASE d[2] = s
        <5>1. Occurs(d[1], streams[s] \o text)
          BY <1>2, <1>3, <4>1, <4>2, <4>3, OccursLonger
        <5> QED
          BY <2>2, <4>3, <5>1
      <4>4. CASE d[2] # s
        BY <2>2, <4>1, <4>2, <4>4
      <4> QED
        BY <4>3, <4>4
    <3> QED
      BY <1>1, <1>3, <3>1, <3>2
  <2> QED
    BY <2>4, <2>6, <2>7, <2>10, <2>11 DEF LogInv
<1> QED
  BY <1>6, <1>7

\* open(): the file is new or empty, or counted as emptied.
LEMMA OpenLogKeeps == ASSUME LogInv, LogTypeOK', NEW now \in 0 .. MaxSecond, OpenLogFile(now) PROVE LogInv'
<1> PICK s : s = <<"file", folder, now>>
  OBVIOUS
<1>1. /\ s[1] = "file" /\ s \in Streams
      /\ LogTypeOK /\ OwnStreams /\ target["File"] = 0 /\ "File" \in LogTarget
  BY DEF LogInv, LogTypeOK, OpenLogFile, Streams, LogTarget
<1>2. /\ writers' = Append(writers, Writer(s, FALSE)) /\ due' = due
      /\ emptied' = (IF streams[s] # <<>> THEN emptied \cup {s} ELSE emptied)
      /\ streams' = [streams EXCEPT ![s] = <<>>]
  BY DEF OpenLogFile
<1>3. \A t \in LogTarget : target'[t] = IF t \in {"File"} THEN Len(writers) + 1 ELSE target[t]
  BY <1>1 DEF OpenLogFile, LogTypeOK
<1>4. \A u \in LogTarget \ {"File"} : target[u] # 0 => StreamOf(u) # s
  BY <1>1 DEF OwnStreams
<1>5. \A z \in Streams : streams'[z] \in Seq(Symbols) /\ (z \notin emptied' => streams'[z] = streams[z])
  BY <1>1, <1>2 DEF LogTypeOK
<1>6. emptied \subseteq emptied' /\ {"File"} \in SUBSET LogTarget /\ FALSE \in BOOLEAN
  BY <1>1, <1>2
<1> QED
  BY <1>1, <1>2, <1>3, <1>4, <1>5, <1>6, NewWriter

LEMMA StringWriterKeeps ==
  ASSUME LogInv, LogTypeOK', NEW ts \in TargetSets, NEW avoids \in BOOLEAN, SetStringWriter(ts, avoids)
  PROVE  LogInv'
<1> PICK s : s = <<"string", Len(writers) + 1, 0>>
  OBVIOUS
<1>1. /\ LogTypeOK /\ OwnStreams /\ ts \in SUBSET LogTarget /\ s[1] = "string" /\ s[2] = Len(writers) + 1
      /\ Len(writers) \in Nat /\ Len(writers) < MaxWriters /\ MaxWriters \in Nat
  BY LogAssumption, TargetFacts DEF LogAssumption, LogInv, SetStringWriter, SetWriter
<1>2. s \in Streams
  <2>1. Len(writers) + 1 \in 1 .. MaxWriters
    BY <1>1
  <2> QED
    BY <2>1 DEF Streams
<1>3. /\ writers' = Append(writers, Writer(s, avoids)) /\ due' = due /\ emptied' = emptied
      /\ streams' = streams
      /\ \A t \in LogTarget : target'[t] = IF t \in ts THEN Len(writers) + 1 ELSE target[t]
  BY DEF SetStringWriter, SetWriter
<1>4. ASSUME NEW u \in LogTarget, target[u] # 0 PROVE StreamOf(u) # s
  <2>1. target[u] \in 1 .. Len(writers)
    BY <1>1, <1>4, TargetFacts
  <2>2. StreamOf(u)[1] = "string" => StreamOf(u)[2] <= Len(writers)
    BY <1>1, <2>1 DEF OwnStreams, StreamOf
  <2> QED
    BY <1>1, <2>2
<1>5. \A z \in Streams : streams'[z] \in Seq(Symbols) /\ streams'[z] = streams[z]
  BY <1>1, <1>3 DEF LogTypeOK
<1>6. s[2] <= Len(writers) + 1
  BY <1>1
<1> QED
  BY <1>1, <1>2, <1>3, <1>4, <1>5, <1>6, NewWriter

LEMMA AvoidKeeps == ASSUME LogInv, LogTypeOK', NEW t \in LogTarget, AvoidDuplicates(t) PROVE LogInv'
<1> PICK s : s = StreamOf(t)
  OBVIOUS
<1>1. /\ LogTypeOK /\ OwnStreams /\ StreamsDiffer /\ target[t] \in 1 .. Len(writers) /\ target[t] # 0
      /\ s \in Streams /\ Len(writers) \in Nat
      /\ \A u \in LogTarget \ {t} : target[u] # target[t]
  BY TargetFacts DEF LogInv, AvoidDuplicates, StreamOf
<1>2. /\ writers' = Append(writers, Writer(s, TRUE)) /\ due' = due /\ emptied' = emptied
      /\ streams' = streams
      /\ \A u \in LogTarget : target'[u] = IF u \in {t} THEN Len(writers) + 1 ELSE target[u]
  BY DEF AvoidDuplicates, SetWriter
<1>3. /\ s[1] = "stdout" => t = "Stdout"
      /\ s[1] = "stderr" => t = "Stderr"
      /\ s[1] = "file" => t = "File"
  BY <1>1 DEF OwnStreams
<1>4. s[1] = "string" => s[2] <= Len(writers) + 1
  <2> SUFFICES ASSUME s[1] = "string" PROVE s[2] <= Len(writers) + 1
    OBVIOUS
  <2>1. s[2] <= Len(writers)
    BY <1>1 DEF OwnStreams, StreamOf
  <2>2. s[2] \in Nat
    BY <1>1, LogAssumption DEF LogAssumption, Streams
  <2> QED
    BY <1>1, <2>1, <2>2
<1>5. \A u \in LogTarget \ {t} : target[u] # 0 => StreamOf(u) # s
  BY <1>1 DEF StreamsDiffer
<1>6. \A z \in Streams : streams'[z] \in Seq(Symbols) /\ streams'[z] = streams[z]
  BY <1>1, <1>2 DEF LogTypeOK
<1>7. {t} \in SUBSET LogTarget /\ TRUE \in BOOLEAN
  OBVIOUS
<1> QED
  BY <1>1, <1>2, <1>3, <1>4, <1>5, <1>6, <1>7, NewWriter, ZenonT(30)

LEMMA ForgetKeeps ==
  ASSUME LogInv, LogTypeOK', NEW w \in 1 .. Len(writers), ForgetLine(w) PROVE LogInv'
<1>0. /\ LogTypeOK /\ StdFirst /\ OwnStreams /\ StreamsDiffer /\ LineIsEnd /\ Readable
  BY DEF LogInv
<1>1. /\ writers[w].avoids /\ writers' = [writers EXCEPT ![w].lastLine = <<>>]
      /\ UNCHANGED <<target, streams, due, emptied>>
  BY DEF ForgetLine
<1>2. /\ Len(writers') = Len(writers) /\ writers'[w].lastLine = <<>>
      /\ \A v \in 1 .. Len(writers) :
           /\ writers'[v].stream = writers[v].stream /\ writers'[v].avoids = writers[v].avoids
           /\ v # w => writers'[v] = writers[v]
  <2>1. writers \in Seq(LogWriter)
    BY <1>0 DEF LogTypeOK, LogWriter
  <2> QED
    BY <1>1, <2>1 DEF LogWriter
<1>3. StdFirst'
  <2>1. ~StdWriters[1].avoids /\ ~StdWriters[2].avoids
    BY DEF StdWriters, Writer
  <2>2. \A i \in {1, 2} : i \in 1 .. Len(writers) /\ writers[i] = StdWriters[i]
    BY <1>0, TargetFacts DEF StdFirst
  <2>3. \A i \in {1, 2} : i # w
    BY <1>1, <2>1, <2>2
  <2> QED
    BY <1>0, <1>2, <2>2, <2>3 DEF StdFirst
<1>4. \A u \in LogTarget : target[u] # 0 => target[u] \in 1 .. Len(writers) /\ StreamOf(u)' = StreamOf(u)
  BY <1>0, <1>1, <1>2, TargetFacts DEF StreamOf
<1>5. OwnStreams' /\ StreamsDiffer'
  BY <1>0, <1>1, <1>2, <1>4 DEF OwnStreams, StreamsDiffer
<1>6. LineIsEnd'
  <2> SUFFICES ASSUME NEW v \in 1 .. Len(writers)
               PROVE  (/\ ~writers[v].avoids => writers[v].lastLine = <<>>
                       /\ InUse(v) /\ writers[v].stream \notin emptied
                            => Ends(writers[v].lastLine, streams[writers[v].stream]))'
    BY <1>2 DEF LineIsEnd
  <2>1. CASE v = w
    <3>1. streams'[writers'[v].stream] \in Seq(Symbols)
      BY <1>0, <1>1, <1>2, TargetFacts
    <3>2. Ends(<<>>, streams'[writers'[v].stream])
      BY <3>1, EmptyEnds
    <3> QED
      BY <1>1, <1>2, <2>1, <3>2
  <2>2. CASE v # w
    BY <1>0, <1>1, <1>2, <2>2 DEF LineIsEnd, InUse
  <2> QED
    BY <2>1, <2>2
<1>7. Readable'
  BY <1>0, <1>1 DEF Readable
<1> QED
  BY <1>3, <1>5, <1>6, <1>7 DEF LogInv

-----------------------------------------------------------------------------
\* Types: what a text is written to is a stream, and a line is made of what texts are made of.
LEMMA NewWriterTypes ==
  ASSUME LogTypeOK, NEW s \in Streams, NEW a \in BOOLEAN, NEW ts \in SUBSET LogTarget,
         writers' = Append(writers, Writer(s, a)),
         target' = [t \in LogTarget |-> IF t \in ts THEN Len(writers) + 1 ELSE target[t]]
  PROVE  /\ writers' \in Seq(LogWriter)
         /\ target' \in [LogTarget -> 0 .. Len(writers')] /\ target'["Stdout"] # 0 /\ target'["Stderr"] # 0
<1>1. Writer(s, a) \in LogWriter
  BY DEF Writer, LogWriter
<1>2. writers \in Seq(LogWriter) /\ Len(writers) \in Nat
  BY TargetFacts DEF LogTypeOK, LogWriter
<1>3. writers' \in Seq(LogWriter) /\ Len(writers') = Len(writers) + 1
  BY <1>1, <1>2
<1>4. \A t \in LogTarget : target'[t] \in 0 .. Len(writers')
  BY <1>2, <1>3 DEF LogTypeOK
<1>5. target'["Stdout"] # 0 /\ target'["Stderr"] # 0
  BY <1>2 DEF LogTypeOK, LogTarget
<1> QED
  BY <1>3, <1>4, <1>5

\* The same steps with the types of all that is not written to.
LEMMA FlushTypes == ASSUME LogTypeOK, FlushTarget PROVE LogTypeOK'
<1> PICK t : t = First(flushing.targets)
  OBVIOUS
<1> PICK text : text = flushing.text
  OBVIOUS
<1> PICK w : w = target[t]
  OBVIOUS
<1> PICK s : s = writers[w].stream
  OBVIOUS
<1>1. flushing \in [text : Texts, targets : SUBSET LogTarget] /\ text \in Texts /\ text \in Seq(Symbols)
  <2>1. flushing \in Entry /\ flushing # NoEntry
    BY DEF LogTypeOK, Entry, FlushTarget, Idle
  <2> QED
    BY <2>1, LogAssumption DEF LogAssumption, Entry
<1>2. /\ t \in LogTarget /\ w \in 1 .. Len(writers) /\ StreamOf(t) = s /\ s \in Streams
      /\ writers[w] \in LogWriter /\ WriteText(t, text) /\ Len(writers) \in Nat
  BY TargetFacts DEF FlushTarget, First, LogTarget, StreamOf
<1>3. writers \in Seq(LogWriter) /\ streams \in [Streams -> Seq(Symbols)]
  BY DEF LogTypeOK, LogWriter
<1>4. Line(writers[w], text) \in Seq(Symbols)
  BY <1>1, <1>2 DEF Line, LogWriter
<1>5. writers' \in Seq(LogWriter) /\ Len(writers') = Len(writers)
  <2>1. CASE writers' = writers
    BY <1>3, <2>1
  <2>2. CASE writers' = [writers EXCEPT ![w].lastLine = Line(writers[w], text)]
    <3>1. [writers[w] EXCEPT !.lastLine = Line(writers[w], text)] \in LogWriter
      BY <1>2, <1>4 DEF LogWriter
    <3> QED
      BY <1>2, <1>3, <2>2, <3>1
  <2> QED
    BY <1>2, <2>1, <2>2 DEF WriteText
<1>6. streams' \in [Streams -> Seq(Symbols)]
  <2>1. CASE streams' = streams
    BY <1>3, <2>1
  <2>2. CASE streams' = [streams EXCEPT ![s] = streams[s] \o text]
    <3>1. streams[s] \o text \in Seq(Symbols)
      BY <1>1, <1>2, <1>3
    <3> QED
      BY <1>3, <2>2, <3>1
  <2> QED
    BY <1>2, <2>1, <2>2 DEF WriteText
<1>7. due' \subseteq Texts \X Streams
  BY <1>1, <1>2, SMTT(30) DEF FlushTarget, LogTypeOK
<1>8. flushing' \in Entry
  <2>1. flushing' = NoEntry \/ flushing' = [flushing EXCEPT !.targets = flushing.targets \ {t}]
    BY DEF FlushTarget
  <2> QED
    BY <1>1, <2>1 DEF Entry
<1> QED
  BY <1>5, <1>6, <1>7, <1>8 DEF LogTypeOK, FlushTarget, Entry, LogWriter

LEMMA OpenLogTypes == ASSUME LogTypeOK, NEW now \in 0 .. MaxSecond, OpenLogFile(now) PROVE LogTypeOK'
<1> PICK s : s = <<"file", folder, now>>
  OBVIOUS
<1>1. s \in Streams /\ {"File"} \in SUBSET LogTarget /\ FALSE \in BOOLEAN
  BY DEF LogTypeOK, Streams, LogTarget
<1>2. /\ writers' = Append(writers, Writer(s, FALSE))
      /\ emptied' = (IF streams[s] # <<>> THEN emptied \cup {s} ELSE emptied)
      /\ streams' = [streams EXCEPT ![s] = <<>>]
      /\ target' = [target EXCEPT !["File"] = Len(writers) + 1]
  BY DEF OpenLogFile
<1>3. target' = [t \in LogTarget |-> IF t \in {"File"} THEN Len(writers) + 1 ELSE target[t]]
  BY <1>2 DEF LogTypeOK
<1>4. /\ writers' \in Seq(LogWriter)
      /\ target' \in [LogTarget -> 0 .. Len(writers')] /\ target'["Stdout"] # 0 /\ target'["Stderr"] # 0
  BY <1>1, <1>2, <1>3, NewWriterTypes
<1>5. streams' \in [Streams -> Seq(Symbols)] /\ emptied' \subseteq Streams
  <2>1. <<>> \in Seq(Symbols) /\ streams \in [Streams -> Seq(Symbols)] /\ emptied \subseteq Streams
    BY DEF LogTypeOK
  <2>2. streams' \in [Streams -> Seq(Symbols)]
    BY <1>2, <2>1
  <2>3. emptied' \subseteq Streams
    BY <1>1, <1>2, <2>1
  <2> QED
    BY <2>2, <2>3
<1> QED
  BY <1>4, <1>5 DEF LogTypeOK, OpenLogFile, LogWriter

LEMMA SetWriterTypes ==
  ASSUME LogTypeOK, NEW s \in Streams, NEW a \in BOOLEAN, NEW ts \in SUBSET LogTarget, SetWriter(ts, s, a)
  PROVE  LogTypeOK'
<1>1. /\ writers' \in Seq(LogWriter)
      /\ target' \in [LogTarget -> 0 .. Len(writers')] /\ target'["Stdout"] # 0 /\ target'["Stderr"] # 0
  BY NewWriterTypes DEF SetWriter
<1> QED
  BY <1>1 DEF LogTypeOK, SetWriter, LogWriter

\* Where a writer into strings writes.
LEMMA StringStream ==
  ASSUME LogTypeOK, Len(writers) < MaxWriters PROVE <<"string", Len(writers) + 1, 0>> \in Streams
<1>1. Len(writers) + 1 \in 1 .. MaxWriters
  BY TargetFacts, LogAssumption DEF LogAssumption
<1> QED
  BY <1>1 DEF Streams

LEMMA LogTypes == LogTypeOK /\ StdFirst /\ [LogNext]_logVars => LogTypeOK'
<1> SUFFICES ASSUME LogTypeOK, StdFirst, [LogNext]_logVars PROVE LogTypeOK'
  OBVIOUS
<1>0. /\ Len(writers) \in Nat /\ MaxEntries \in Nat /\ UNION TargetSets \subseteq LogTarget
      /\ TargetSets \subseteq SUBSET LogTarget
  BY TargetFacts, LogAssumption DEF LogAssumption
<1>1. ASSUME NEW e \in Entries, NEW text \in Texts, NEW ts \in TargetSets, NewEntry(e, text, ts)
      PROVE  LogTypeOK'
  <2>1. [text |-> text, targets |-> ts] \in Entry
    BY <1>0 DEF Entry
  <2>2. entry' \in [Entries -> Entry] /\ entries' \in 0 .. MaxEntries
    BY <1>0, <1>1, <2>1 DEF NewEntry, LogTypeOK, Entry
  <2> QED
    BY <1>1, <2>2 DEF NewEntry, LogTypeOK, Entry
<1>2. ASSUME NEW e \in Entries, DestroyEntry(e) PROVE LogTypeOK'
  <2>1. entry' \in [Entries -> Entry] /\ flushing' \in Entry
    BY <1>2 DEF DestroyEntry, LogTypeOK, Entry
  <2> QED
    BY <1>2, <2>1 DEF DestroyEntry, LogTypeOK, Entry
<1>3. ASSUME NEW d \in Entries, NEW e \in Entries, MoveEntry(d, e) PROVE LogTypeOK'
  <2>1. entry' \in [Entries -> Entry]
    BY <1>3 DEF MoveEntry, LogTypeOK, Entry
  <2> QED
    BY <1>3, <2>1 DEF MoveEntry, LogTypeOK, Entry
<1>4. CASE FlushTarget
  BY <1>4, FlushTypes
<1>5. CASE OpenFails
  BY <1>5 DEF OpenFails, LogTypeOK
<1>6. ASSUME NEW now \in 0 .. MaxSecond, OpenLogFile(now) PROVE LogTypeOK'
  BY <1>6, OpenLogTypes
<1>7. ASSUME NEW f \in Folders, SetLogFilepath(f) PROVE LogTypeOK'
  BY <1>7 DEF SetLogFilepath, LogTypeOK
<1>8. DefaultTargets \in [LogTarget -> 0 .. Len(writers)]
      /\ DefaultTargets["Stdout"] # 0 /\ DefaultTargets["Stderr"] # 0
  BY <1>0 DEF DefaultTargets, LogTarget, StdFirst
<1>9. ASSUME NEW ts \in TargetSets, ResetWriter(ts) PROVE LogTypeOK'
  <2>1. target' \in [LogTarget -> 0 .. Len(writers)] /\ target'["Stdout"] # 0 /\ target'["Stderr"] # 0
    BY <1>0, <1>8, <1>9 DEF ResetWriter, LogTypeOK, LogTarget
  <2> QED
    BY <1>9, <2>1 DEF ResetWriter, LogTypeOK
<1>10. ASSUME NEW ts \in TargetSets, NEW avoids \in BOOLEAN, SetStringWriter(ts, avoids) PROVE LogTypeOK'
  <2>1. Len(writers) < MaxWriters /\ ts \in SUBSET LogTarget
    BY <1>0, <1>10 DEF SetStringWriter, SetWriter
  <2>2. <<"string", Len(writers) + 1, 0>> \in Streams
    BY <2>1, StringStream
  <2> QED
    BY <1>10, <2>1, <2>2, SetWriterTypes DEF SetStringWriter
<1>11. ASSUME NEW t \in UNION TargetSets, AvoidDuplicates(t) PROVE LogTypeOK'
  <2>1. t \in LogTarget /\ {t} \in SUBSET LogTarget /\ TRUE \in BOOLEAN /\ SetWriter({t}, StreamOf(t), TRUE)
    BY <1>0, <1>11 DEF AvoidDuplicates
  <2>2. StreamOf(t) \in Streams
    BY <1>11, <2>1, TargetFacts DEF AvoidDuplicates, StreamOf
  <2> QED
    BY <2>1, <2>2, SetWriterTypes
<1>12. ASSUME NEW w \in 1 .. Len(writers), ForgetLine(w) PROVE LogTypeOK'
  <2>1. writers \in Seq(LogWriter) /\ [writers[w] EXCEPT !.lastLine = <<>>] \in LogWriter
    <3>1. writers \in Seq(LogWriter) /\ writers[w] \in LogWriter /\ <<>> \in Seq(Symbols)
      BY TargetFacts DEF LogTypeOK, LogWriter
    <3> QED
      BY <3>1 DEF LogWriter
  <2>2. writers' \in Seq(LogWriter) /\ Len(writers') = Len(writers)
    BY <1>12, <2>1 DEF ForgetLine
  <2> QED
    BY <1>12, <2>2 DEF ForgetLine, LogTypeOK, LogWriter
<1>13. CASE Restart
  <2>1. entry' \in [Entries -> Entry] /\ flushing' \in Entry /\ due' \subseteq Texts \X Streams
    BY <1>13 DEF Restart, Entry, LogTypeOK
  <2> QED
    BY <1>8, <1>13, <2>1 DEF Restart, Entry, LogTypeOK
<1>14. CASE UNCHANGED logVars
  BY <1>14 DEF logVars, LogTypeOK
<1> QED
  BY <1>1, <1>2, <1>3, <1>4, <1>5, <1>6, <1>7, <1>9, <1>10, <1>11, <1>12, <1>13, <1>14 DEF LogNext

\* Every step keeps the invariant: a text is in its stream when it is written, and when it is left
\* out the line that starts with it is the end of that stream.
LEMMA LogStep == LogInv /\ [LogNext]_logVars => LogInv'
<1> SUFFICES ASSUME LogInv, [LogNext]_logVars PROVE LogInv'
  OBVIOUS
<1>1. LogTypeOK' /\ UNION TargetSets \subseteq LogTarget
  BY LogTypes, LogAssumption DEF LogInv, LogAssumption
<1>2. CASE UNCHANGED <<writers, target, streams, due, emptied>>
  BY <1>1, <1>2, QuietLog
<1>3. ASSUME NEW ts \in TargetSets, ResetWriter(ts) PROVE LogInv'
  <2>1. \A t \in LogTarget : target'[t] = target[t] \/ target'[t] = DefaultTargets[t]
    BY <1>3 DEF ResetWriter
  <2> QED
    BY <1>1, <1>3, <2>1, DefaultsBack DEF ResetWriter
<1>4. CASE Restart
  <2>1. due' \subseteq due /\ target' = DefaultTargets /\ UNCHANGED <<writers, streams, emptied>>
    BY <1>4 DEF Restart
  <2> QED
    BY <1>1, <2>1, DefaultsBack
<1>5. CASE \/ \E e \in Entries :
              \/ \E text \in Texts, targets \in TargetSets : NewEntry(e, text, targets)
              \/ DestroyEntry(e)
              \/ \E d \in Entries : MoveEntry(d, e)
           \/ OpenFails
           \/ \E f \in Folders : SetLogFilepath(f)
           \/ UNCHANGED logVars
  BY <1>2, <1>5 DEF NewEntry, DestroyEntry, MoveEntry, OpenFails, SetLogFilepath, logVars
<1> QED
  BY <1>1, <1>3, <1>4, <1>5, FlushKeeps, OpenLogKeeps, StringWriterKeeps, AvoidKeeps, ForgetKeeps DEF LogNext

LEMMA LogStart == LogInit => LogInv
<1> SUFFICES ASSUME LogInit PROVE LogInv
  OBVIOUS
<1>1. /\ writers = StdWriters /\ target = DefaultTargets /\ Len(writers) = 2
      /\ writers[1] = Writer(<<"stdout", 0, 0>>, FALSE) /\ writers[2] = Writer(<<"stderr", 0, 0>>, FALSE)
      /\ DefaultTargets["Stdout"] = 1 /\ DefaultTargets["Stderr"] = 2 /\ DefaultTargets["File"] = 0
  BY DEF LogInit, StdWriters, DefaultTargets, LogTarget
<1>2. \A w \in 1 .. 2 : ~writers[w].avoids /\ writers[w].lastLine = <<>>
  BY <1>1 DEF Writer
<1>3. writers \in Seq(LogWriter)
  <2>1. ASSUME NEW s \in Streams PROVE Writer(s, FALSE) \in LogWriter
    <3>1. <<>> \in Seq(Symbols) /\ FALSE \in BOOLEAN
      OBVIOUS
    <3> QED
      BY <3>1 DEF Writer, LogWriter
  <2>2. <<"stdout", 0, 0>> \in Streams /\ <<"stderr", 0, 0>> \in Streams
    BY DEF Streams
  <2>3. writers = <<Writer(<<"stdout", 0, 0>>, FALSE), Writer(<<"stderr", 0, 0>>, FALSE)>>
    BY <1>1 DEF StdWriters
  <2> PICK a : a = Writer(<<"stdout", 0, 0>>, FALSE)
    OBVIOUS
  <2> PICK b : b = Writer(<<"stderr", 0, 0>>, FALSE)
    OBVIOUS
  <2>4. a \in LogWriter /\ b \in LogWriter /\ writers = <<a, b>>
    BY <2>1, <2>2, <2>3
  <2> QED
    BY ONLY <2>4
<1>4. \A s \in Streams : streams[s] = <<>>
  BY DEF LogInit
<1>5. LogTypeOK
  <2>1. target \in [LogTarget -> 0 .. Len(writers)]
    BY <1>1 DEF DefaultTargets, LogTarget
  <2>2. streams \in [Streams -> Seq(Symbols)]
    BY DEF LogInit
  <2>3. second \in 0 .. MaxSecond /\ entries \in 0 .. MaxEntries
    BY LogAssumption DEF LogAssumption, LogInit
  <2>4. entry \in [Entries -> Entry] /\ flushing \in Entry
    BY DEF LogInit, Entry
  <2> QED
    BY <1>1, <1>3, <2>1, <2>2, <2>3, <2>4 DEF LogTypeOK, LogInit, Entry, LogWriter
<1>6. StdFirst
  BY <1>1 DEF StdFirst
<1>7. OwnStreams /\ StreamsDiffer
  BY <1>1 DEF OwnStreams, StreamsDiffer, StreamOf, Writer, LogTarget
<1>8. LineIsEnd
  <2>1. ASSUME NEW w \in 1 .. Len(writers) PROVE Ends(writers[w].lastLine, streams[writers[w].stream])
    <3>1. writers[w].lastLine = <<>> /\ streams[writers[w].stream] \in Seq(Symbols)
      BY <1>1, <1>2, <1>5, TargetFacts
    <3> QED
      BY <3>1, EmptyEnds
  <2> QED
    BY <1>1, <1>2, <2>1 DEF LineIsEnd
<1>9. Readable
  BY DEF LogInit, Readable
<1> QED
  BY <1>5, <1>6, <1>7, <1>8, <1>9 DEF LogInv

\* Log.cpp: what was logged can be read in the stream each of its targets had, whichever writers
\* were exchanged, shared or left out repeated lines, and after a crash, but for a file that was
\* emptied because it was opened twice in a second.
THEOREM LogReadable == LogSpec => []Readable
<1>1. LogInv => Readable
  BY DEF LogInv
<1> QED
  BY <1>1, LogStart, LogStep, PTL DEF LogSpec
-----------------------------------------------------------------------------
(* The binary file.                                                          *)

\* The i-th item starts behind those before it, and its bytes are there.
ItemsAt(start) ==
  /\ start \in [1 .. Len(items) + 1 -> Nat] /\ start[1] = 0
  /\ \A i \in 1 .. Len(items) : start[i + 1] = start[i] + SizeOf[items[i]]
  /\ Len(written) = start[Len(items) + 1]
  /\ \A i \in 1 .. Len(items) : \A j \in 1 .. SizeOf[items[i]] :
       start[i] + j <= Len(written) /\ written[start[i] + j] = <<i, j>>

\* A reader who has not been told of an error is in front of the item it asks for, and one who has is
\* at the end.
ReaderAt(start) ==
  file = "rb" /\ ~spliced =>
    /\ buffer = <<>> /\ next <= Len(items) + 1
    /\ IF outcome = "threw" THEN readPos = Len(disk) ELSE readPos = start[next]

\* A file that was never continued over a gap has the beginning of what was written.
StartsRight ==
  ~spliced => /\ Len(disk) + Len(buffer) <= Len(written)
              /\ \A p \in 1 .. Len(disk) : disk[p] = written[p]
              /\ \A p \in 1 .. Len(buffer) : buffer[p] = written[Len(disk) + p]

FileInv ==
  /\ FileTypeOK /\ ReadsBack /\ StartsRight
  /\ \E start \in [1 .. Len(items) + 1 -> Nat] : ItemsAt(start) /\ ReaderAt(start)

FileByte == (1 .. MaxItems) \X Nat

\* Sequences and the beginning of others behind them, by their elements.
LEMMA Extended ==
  ASSUME NEW S, NEW s \in Seq(S), NEW x \in Seq(S), NEW n \in 0 .. Len(x)
  PROVE  /\ s \o SubSeq(x, 1, n) \in Seq(S) /\ Len(s \o SubSeq(x, 1, n)) = Len(s) + n
         /\ \A p \in 1 .. Len(s) : (s \o SubSeq(x, 1, n))[p] = s[p]
         /\ \A p \in 1 .. n : (s \o SubSeq(x, 1, n))[Len(s) + p] = x[p]
<1> PICK y : y = SubSeq(x, 1, n)
  OBVIOUS
<1>1. y \in Seq(S) /\ Len(y) = n /\ \A p \in 1 .. n : y[p] = x[p]
  OBVIOUS
<1>2. /\ s \o y \in Seq(S) /\ Len(s \o y) = Len(s) + Len(y)
      /\ \A p \in 1 .. Len(s) : (s \o y)[p] = s[p]
      /\ \A p \in 1 .. Len(y) : (s \o y)[Len(s) + p] = y[p]
  <2>1. y \in Seq(S)
    BY <1>1
  <2> QED
    BY ONLY s \in Seq(S), <2>1, ConcatFacts
<1> QED
  BY <1>1, <1>2

LEMMA PartFacts ==
  ASSUME NEW S, NEW s \in Seq(S), NEW i \in Nat, NEW n \in Nat, i + n <= Len(s)
  PROVE  /\ SubSeq(s, i + 1, i + n) \in Seq(S) /\ Len(SubSeq(s, i + 1, i + n)) = n
         /\ \A j \in 1 .. n : SubSeq(s, i + 1, i + n)[j] = s[i + j]
OBVIOUS

\* Flushing puts some of the buffer on disk.
LEMMA FlushedPart ==
  ASSUME FileTypeOK, NEW r \in Flushed
  PROVE  \E n \in 0 .. Len(buffer) : r.disk = disk \o SubSeq(buffer, 1, n) /\ r.full \in BOOLEAN
<1>1. disk \in Seq(FileByte) /\ buffer \in Seq(FileByte)
  BY DEF FileTypeOK, FileByte
<1>2. disk \o SubSeq(buffer, 1, 0) = disk /\ SubSeq(buffer, 1, Len(buffer)) = buffer
  BY <1>1
<1>3. 0 \in 0 .. Len(buffer) /\ Len(buffer) \in 0 .. Len(buffer)
  BY <1>1
<1>4. CASE r = [disk |-> disk, full |-> TRUE]
  BY <1>2, <1>3, <1>4
<1>5. CASE r = [disk |-> disk \o buffer, full |-> FALSE]
  BY <1>2, <1>3, <1>5
<1>6. CASE \E n \in 0 .. Len(buffer) : r = [disk |-> disk \o SubSeq(buffer, 1, n), full |-> TRUE]
  BY <1>6
<1> QED
  BY <1>4, <1>5, <1>6 DEF Flushed

\* What is left of the buffer is lost.
LEMMA DiskAfter ==
  ASSUME FileTypeOK, StartsRight, NEW n \in 0 .. Len(buffer), disk' = disk \o SubSeq(buffer, 1, n),
         buffer' = <<>>, UNCHANGED <<written, spliced>>
  PROVE  /\ disk' \in Seq(FileByte) /\ buffer' \in Seq(FileByte) /\ Len(disk') = Len(disk) + n
         /\ StartsRight'
<1>1. disk \in Seq(FileByte) /\ buffer \in Seq(FileByte)
  BY DEF FileTypeOK, FileByte
<1>2. /\ disk' \in Seq(FileByte) /\ Len(disk') = Len(disk) + n
      /\ \A p \in 1 .. Len(disk) : disk'[p] = disk[p]
      /\ \A p \in 1 .. n : disk'[Len(disk) + p] = buffer[p]
  BY <1>1, Extended
<1>3. Len(buffer') = 0 /\ buffer' \in Seq(FileByte)
  OBVIOUS
<1>4. StartsRight'
  <2> SUFFICES ASSUME ~spliced PROVE /\ Len(disk') + Len(buffer') <= Len(written)
                                     /\ \A p \in 1 .. Len(disk') : disk'[p] = written[p]
    BY <1>3 DEF StartsRight
  <2>1. Len(disk) + Len(buffer) <= Len(written) /\ Len(written) \in Nat
    BY DEF StartsRight, FileTypeOK
  <2>2. ASSUME NEW p \in 1 .. Len(disk') PROVE disk'[p] = written[p]
    <3>1. CASE p <= Len(disk)
      BY <1>1, <1>2, <3>1 DEF StartsRight
    <3>2. CASE p > Len(disk)
      <4>1. p - Len(disk) \in 1 .. n /\ p - Len(disk) \in 1 .. Len(buffer) /\ p = Len(disk) + (p - Len(disk))
        BY <1>1, <1>2, <3>2
      <4> QED
        BY <1>2, <4>1 DEF StartsRight
    <3> QED
      BY <1>1, <1>2, <3>1, <3>2
  <2> QED
    BY <1>1, <1>2, <1>3, <2>1, <2>2
<1> QED
  BY <1>2, <1>3, <1>4

\* Steps that write no item, and after which nobody reads.
LEMMA NotReading ==
  ASSUME FileInv, NEW n \in 0 .. Len(buffer), disk' = disk \o SubSeq(buffer, 1, n), buffer' = <<>>,
         UNCHANGED <<items, readPos, next, outcome, written, spliced>>,
         file' \in {"closed", "w+b", "a+b"}, named' \in BOOLEAN, full' \in BOOLEAN
  PROVE  FileInv'
<1>1. FileTypeOK /\ StartsRight /\ ReadsBack
  BY DEF FileInv
<1>2. disk' \in Seq(FileByte) /\ buffer' \in Seq(FileByte) /\ Len(disk') = Len(disk) + n /\ StartsRight'
  BY <1>1, DiskAfter
<1>3. FileTypeOK'
  <2>1. Len(disk) \in Nat /\ readPos \in 0 .. Len(disk')
    BY <1>1, <1>2 DEF FileTypeOK
  <2> QED
    BY <1>1, <1>2, <2>1 DEF FileTypeOK, FileByte
<1>4. PICK start \in [1 .. Len(items) + 1 -> Nat] : ItemsAt(start)
  BY DEF FileInv
<1>5. ItemsAt(start)' /\ ReaderAt(start)'
  BY <1>4 DEF ItemsAt, ReaderAt
<1> QED
  BY <1>1, <1>2, <1>3, <1>5 DEF FileInv, ReadsBack

LEMMA ItemBytesFacts ==
  ASSUME NEW i \in 1 .. MaxItems, NEW k, SizeOf[k] \in Nat
  PROVE  /\ ItemBytes(i, k) \in Seq(FileByte) /\ Len(ItemBytes(i, k)) = SizeOf[k]
         /\ \A j \in 1 .. SizeOf[k] : ItemBytes(i, k)[j] = <<i, j>>
<1> PICK n \in Nat : n = SizeOf[k]
  OBVIOUS
<1>1. \A j \in 1 .. n : <<i, j>> \in FileByte
  BY DEF FileByte
<1> PICK x : x = [j \in 1 .. n |-> <<i, j>>]
  OBVIOUS
<1>2. x \in [1 .. n -> FileByte]
  BY <1>1
<1>3. x \in Seq(FileByte) /\ Len(x) = n /\ \A j \in 1 .. n : x[j] = <<i, j>>
  BY <1>2
<1> QED
  BY <1>3 DEF ItemBytes

\* What is written goes behind what was.
LEMMA WriteKeepsFile == ASSUME FileInv, NEW k \in Kinds, WriteItem(k) PROVE FileInv'
<1> PICK m : m = Len(items) + 1
  OBVIOUS
<1> PICK x : x = ItemBytes(m, k)
  OBVIOUS
<1>1. FileTypeOK /\ StartsRight /\ ReadsBack
  BY DEF FileInv
<1>2. /\ disk \in Seq(FileByte) /\ buffer \in Seq(FileByte) /\ written \in Seq(FileByte) /\ items \in Seq(Kinds)
      /\ MaxItems \in Nat /\ SizeOf[k] \in Nat \ {0} /\ m \in 1 .. MaxItems /\ file \in {"w+b", "a+b"}
  <2>1. /\ disk \in Seq(FileByte) /\ buffer \in Seq(FileByte) /\ written \in Seq(FileByte)
        /\ items \in Seq(Kinds)
    BY <1>1 DEF FileTypeOK, FileByte
  <2>2. MaxItems \in Nat /\ SizeOf[k] \in Nat \ {0}
    BY FileAssumption DEF FileAssumption
  <2>3. m \in 1 .. MaxItems /\ file \in {"w+b", "a+b"}
    BY <2>1, <2>2 DEF WriteItem
  <2> QED
    BY <2>1, <2>2, <2>3
<1>3. x \in Seq(FileByte) /\ Len(x) = SizeOf[k] /\ \A j \in 1 .. SizeOf[k] : x[j] = <<m, j>>
  BY <1>2, ItemBytesFacts
<1>4. /\ buffer' = buffer \o x /\ items' = Append(items, k) /\ written' = written \o x
      /\ spliced' = (spliced \/ disk \o buffer # written)
      /\ UNCHANGED <<file, named, disk, readPos, next, outcome, full>>
  BY DEF WriteItem
<1>5. /\ buffer' \in Seq(FileByte) /\ Len(buffer') = Len(buffer) + Len(x)
      /\ \A p \in 1 .. Len(buffer) : buffer'[p] = buffer[p]
      /\ \A p \in 1 .. Len(x) : buffer'[Len(buffer) + p] = x[p]
  BY <1>2, <1>3, <1>4, ConcatFacts
<1>6. /\ written' \in Seq(FileByte) /\ Len(written') = Len(written) + Len(x)
      /\ \A p \in 1 .. Len(written) : written'[p] = written[p]
      /\ \A p \in 1 .. Len(x) : written'[Len(written) + p] = x[p]
  BY <1>2, <1>3, <1>4, ConcatFacts
<1>7. /\ items' \in Seq(Kinds) /\ Len(items') = m /\ items'[m] = k
      /\ \A i \in 1 .. Len(items) : items'[i] = items[i]
  BY <1>2, <1>4
<1>8. FileTypeOK'
  BY <1>1, <1>2, <1>4, <1>5, <1>6, <1>7 DEF FileTypeOK, FileByte
<1>9. ReadsBack'
  BY <1>1, <1>4 DEF ReadsBack
<1>10. StartsRight'
  <2> SUFFICES ASSUME ~spliced'
               PROVE  /\ Len(disk) + Len(buffer') <= Len(written')
                      /\ \A p \in 1 .. Len(disk) : disk[p] = written'[p]
                      /\ \A p \in 1 .. Len(buffer') : buffer'[p] = written'[Len(disk) + p]
    BY <1>4 DEF StartsRight
  <2>1. disk \o buffer = written /\ ~spliced
    BY <1>4
  <2>2. Len(written) = Len(disk) + Len(buffer)
    BY <1>2, <2>1
  <2>3. /\ \A p \in 1 .. Len(disk) : disk[p] = written[p]
        /\ \A p \in 1 .. Len(buffer) : buffer[p] = written[Len(disk) + p]
    BY <1>1, <2>1 DEF StartsRight
  <2>4. Len(disk) \in Nat /\ Len(buffer) \in Nat /\ Len(x) \in Nat
    BY <1>2, <1>3
  <2>5. ASSUME NEW p \in 1 .. Len(buffer') PROVE buffer'[p] = written'[Len(disk) + p]
    <3>1. CASE p <= Len(buffer)
      <4>1. p \in 1 .. Len(buffer) /\ Len(disk) + p \in 1 .. Len(written)
        BY <1>5, <2>2, <2>4, <3>1
      <4> QED
        BY <1>5, <1>6, <2>3, <4>1
    <3>2. CASE p > Len(buffer)
      <4> PICK j \in 1 .. Len(x) : p = Len(buffer) + j
        <5>1. p - Len(buffer) \in 1 .. Len(x) /\ p = Len(buffer) + (p - Len(buffer))
          BY <1>5, <2>4, <3>2
        <5> QED
          BY <5>1
      <4>1. Len(disk) + p = Len(written) + j
        BY <2>2, <2>4
      <4> QED
        BY <1>5, <1>6, <4>1
    <3> QED
      BY <1>5, <2>4, <3>1, <3>2
  <2> QED
    BY <1>5, <1>6, <2>2, <2>3, <2>4, <2>5
<1>11. PICK start \in [1 .. Len(items) + 1 -> Nat] : ItemsAt(start)
  BY DEF FileInv
<1> PICK longer : longer = [i \in 1 .. m + 1 |-> IF i <= m THEN start[i] ELSE Len(written) + SizeOf[k]]
  OBVIOUS
<1>12. /\ longer \in [1 .. m + 1 -> Nat] /\ \A i \in 1 .. m : longer[i] = start[i]
       /\ longer[m + 1] = Len(written) + Len(x)
  BY <1>2, <1>3, <1>11
<1>13. ItemsAt(longer)'
  <2>1. start[1] = 0 /\ start[m] = Len(written) /\ 1 \in 1 .. m
        /\ \A i \in 1 .. Len(items) : start[i + 1] = start[i] + SizeOf[items[i]]
    <3>1. start[1] = 0 /\ start[Len(items) + 1] = Len(written)
      BY <1>11 DEF ItemsAt
    <3>2. \A i \in 1 .. Len(items) : start[i + 1] = start[i] + SizeOf[items[i]]
      BY <1>11 DEF ItemsAt
    <3>3. 1 \in 1 .. m
      BY <1>2
    <3> QED
      BY <3>1, <3>2, <3>3
  <2>2. ASSUME NEW i \in 1 .. m PROVE longer[i + 1] = longer[i] + SizeOf[items'[i]]
    <3>1. CASE i = m
      BY <1>3, <1>7, <1>12, <2>1, <3>1
    <3>2. CASE i # m
      <4>1. i \in 1 .. Len(items) /\ i + 1 \in 1 .. m
        BY <1>2, <3>2
      <4> QED
        BY <1>7, <1>12, <2>1, <4>1
    <3> QED
      BY <3>1, <3>2
  <2>3. ASSUME NEW i \in 1 .. m, NEW j \in 1 .. SizeOf[items'[i]]
        PROVE  longer[i] + j <= Len(written') /\ written'[longer[i] + j] = <<i, j>>
    <3>1. CASE i = m
      <4>1. longer[i] = Len(written) /\ j \in 1 .. Len(x) /\ x[j] = <<i, j>>
        BY <1>3, <1>7, <1>12, <2>1, <3>1
      <4>2. written'[Len(written) + j] = x[j]
        BY <1>6, <4>1
      <4>3. Len(written) \in Nat /\ Len(x) \in Nat /\ Len(written) + j <= Len(written')
        BY <1>2, <1>3, <1>6, <4>1
      <4> QED
        BY <4>1, <4>2, <4>3
    <3>2. CASE i # m
      <4>1. i \in 1 .. Len(items) /\ items'[i] = items[i] /\ longer[i] = start[i]
        <5>1. i \in 1 .. Len(items)
          BY <1>2, <3>2
        <5> QED
          BY <1>7, <1>12, <5>1
      <4>2. start[i] + j <= Len(written) /\ written[start[i] + j] = <<i, j>>
        BY <1>11, <4>1 DEF ItemsAt
      <4>3. Len(written) \in Nat /\ Len(x) \in Nat /\ start[i] \in Nat /\ j \in Nat \ {0}
        <5>1. items[i] \in Kinds
          BY <1>2, <4>1
        <5>2. SizeOf[items[i]] \in Nat
          BY <5>1, FileAssumption DEF FileAssumption
        <5>3. Len(written) \in Nat /\ Len(x) \in Nat
          BY <1>2, <1>3
        <5>4. i \in 1 .. Len(items) + 1
          BY <1>2, <4>1
        <5>5. start[i] \in Nat
          BY <1>11, <5>4
        <5>6. j \in 1 .. SizeOf[items[i]]
          BY <4>1
        <5> QED
          BY <5>2, <5>3, <5>5, <5>6
      <4>4. start[i] + j \in 1 .. Len(written)
        BY <4>2, <4>3
      <4> QED
        BY <1>6, <4>1, <4>2, <4>3, <4>4
    <3> QED
      BY <3>1, <3>2
  <2>4. /\ Len(items') + 1 = m + 1 /\ longer[1] = 0 /\ Len(written') = longer[Len(items') + 1]
    BY <1>6, <1>7, <1>12, <2>1
  <2> QED
    BY <1>7, <1>12, <2>2, <2>3, <2>4 DEF ItemsAt
<1>14. ReaderAt(longer)'
  BY <1>2, <1>4 DEF ReaderAt
<1>15. longer \in [1 .. Len(items') + 1 -> Nat]
  BY <1>7, <1>12
<1> QED
  BY <1>8, <1>9, <1>10, <1>13, <1>14, <1>15 DEF FileInv

\* A read in the right place that finds enough bytes finds the item.
LEMMA ReadKeepsFile == ASSUME FileInv, ReadItem PROVE FileInv'
<1> PICK k : k = items[next]
  OBVIOUS
<1> PICK n : n = SizeOf[k]
  OBVIOUS
<1>1. FileTypeOK /\ StartsRight /\ ReadsBack
  BY DEF FileInv
<1>2. /\ file = "rb" /\ next \in 1 .. Len(items) /\ outcome # "other" /\ k \in Kinds /\ n \in Nat \ {0}
      /\ disk \in Seq(FileByte) /\ Len(disk) \in Nat /\ readPos \in 0 .. Len(disk) /\ MaxItems \in Nat
      /\ Len(items) \in 0 .. MaxItems
  <2>1. /\ disk \in Seq(FileByte) /\ Len(disk) \in Nat /\ readPos \in 0 .. Len(disk)
        /\ items \in Seq(Kinds) /\ Len(items) <= MaxItems /\ next \in Nat \ {0}
    BY <1>1, FileAssumption DEF FileAssumption, FileTypeOK, FileByte
  <2>2. next \in 1 .. Len(items) /\ file = "rb" /\ outcome # "other"
    BY <2>1 DEF ReadItem
  <2>3. k \in Kinds
    BY <2>1, <2>2
  <2> QED
    BY <2>1, <2>2, <2>3, FileAssumption DEF FileAssumption
<1>3. UNCHANGED <<file, named, disk, buffer, items, full, written, spliced>>
  BY DEF ReadItem
<1>4. CASE readPos + n > Len(disk)
  <2>1. readPos' = Len(disk) /\ next' = next /\ outcome' = "threw"
    <3>1. Taken(n) = [ok |-> FALSE, pos |-> Len(disk)]
      BY <1>2, <1>4 DEF Taken
    <3>2. Taken(n).ok = FALSE /\ Taken(n).pos = Len(disk)
      BY <3>1
    <3> QED
      BY <3>2 DEF ReadItem
  <2>2. FileTypeOK'
    BY <1>1, <1>2, <1>3, <2>1 DEF FileTypeOK
  <2>3. PICK start \in [1 .. Len(items) + 1 -> Nat] : ItemsAt(start) /\ ReaderAt(start)
    BY DEF FileInv
  <2>4. ItemsAt(start)' /\ ReaderAt(start)'
    BY <1>3, <2>1, <2>3 DEF ItemsAt, ReaderAt
  <2> QED
    BY <1>1, <1>3, <2>1, <2>2, <2>4 DEF FileInv, ReadsBack, StartsRight
<1>5. CASE readPos + n <= Len(disk)
  <2>1. /\ readPos' = readPos + n /\ next' = next + 1 /\ outcome' \in {"item", "other"}
        /\ outcome' = "other" => SubSeq(disk, readPos + 1, readPos + n) # ItemBytes(next, k)
    <3>1. Taken(n) = [ok |-> TRUE, pos |-> readPos + n]
      BY <1>2, <1>5 DEF Taken
    <3>2. Taken(n).ok = TRUE /\ Taken(n).pos = readPos + n
      BY <3>1
    <3>3. readPos' = readPos + n /\ next' = next + 1
      BY <3>2 DEF ReadItem
    <3>4. outcome' = IF SubSeq(disk, readPos + 1, readPos + n) = ItemBytes(next, k) THEN "item" ELSE "other"
      <4>1. outcome' = IF ~Taken(n).ok THEN "threw"
                       ELSE IF SubSeq(disk, readPos + 1, Taken(n).pos) = ItemBytes(next, k) THEN "item" ELSE "other"
        BY DEF ReadItem
      <4>2. CASE SubSeq(disk, readPos + 1, Taken(n).pos) = ItemBytes(next, k)
        BY <3>2, <4>1, <4>2
      <4>3. CASE SubSeq(disk, readPos + 1, Taken(n).pos) # ItemBytes(next, k)
        BY <3>2, <4>1, <4>3
      <4> QED
        BY <4>2, <4>3
    <3> QED
      BY <3>3, <3>4
  <2>2. FileTypeOK'
    <3>1. readPos' \in 0 .. Len(disk) /\ next' \in 1 .. MaxItems + 1
      BY <1>2, <1>5, <2>1
    <3> QED
      BY <1>1, <1>3, <2>1, <3>1 DEF FileTypeOK
  <2>3. PICK start \in [1 .. Len(items) + 1 -> Nat] : ItemsAt(start) /\ ReaderAt(start)
    BY DEF FileInv
  <2>4. ItemsAt(start)'
    BY <1>3, <2>3 DEF ItemsAt
  <2>5. ~spliced => readPos = start[next]
    BY <1>2, <1>5, <2>3 DEF ReaderAt
  <2>6. ReaderAt(start)'
    <3>1. start[next + 1] = start[next] + n
      BY <1>2, <2>3 DEF ItemsAt
    <3> QED
      BY <1>2, <1>3, <2>1, <2>3, <2>5, <3>1 DEF ReaderAt
  <2>7. ~spliced => SubSeq(disk, readPos + 1, readPos + n) = ItemBytes(next, k)
    <3> SUFFICES ASSUME ~spliced PROVE SubSeq(disk, readPos + 1, readPos + n) = ItemBytes(next, k)
      OBVIOUS
    <3>1. ASSUME NEW j \in 1 .. n PROVE disk[readPos + j] = <<next, j>>
      <4>1. readPos + j \in 1 .. Len(disk)
        BY <1>2, <1>5
      <4>2. disk[readPos + j] = written[readPos + j]
        BY <1>1, <4>1 DEF StartsRight
      <4>3. written[start[next] + j] = <<next, j>>
        BY <1>2, <2>3 DEF ItemsAt
      <4> QED
        BY <2>5, <4>2, <4>3
    <3> PICK u : u = SubSeq(disk, readPos + 1, readPos + n)
      OBVIOUS
    <3> PICK x : x = ItemBytes(next, k)
      OBVIOUS
    <3>2. u \in Seq(FileByte) /\ Len(u) = n /\ \A j \in 1 .. n : u[j] = disk[readPos + j]
      <4>1. readPos \in Nat /\ n \in Nat /\ readPos + n <= Len(disk) /\ disk \in Seq(FileByte)
        BY <1>2, <1>5
      <4> QED
        BY ONLY <4>1, PartFacts, u = SubSeq(disk, readPos + 1, readPos + n)
    <3>3. x \in Seq(FileByte) /\ Len(x) = n /\ \A j \in 1 .. n : x[j] = <<next, j>>
      <4>1. next \in 1 .. MaxItems
        BY <1>2
      <4> QED
        BY <1>2, <4>1, ItemBytesFacts
    <3>4. u = x
      <4>1. \A j \in 1 .. n : u[j] = x[j]
        BY <3>1, <3>2, <3>3
      <4> QED
        BY ONLY <4>1, <3>2, <3>3, SeqEqual
    <3> QED
      BY <3>4
  <2>8. ReadsBack' /\ StartsRight'
    BY <1>1, <1>3, <2>1, <2>7 DEF ReadsBack, StartsRight
  <2> QED
    BY <1>3, <2>2, <2>3, <2>4, <2>6, <2>8 DEF FileInv
<1> QED
  BY <1>2, <1>4, <1>5

\* A file that is opened is read from its start.
LEMMA OpenKeepsFile ==
  ASSUME FileInv, NEW m \in {"w+b", "a+b", "rb"}, OpenFile(m)
  PROVE  FileInv'
<1>1. FileTypeOK /\ StartsRight /\ ReadsBack
  BY DEF FileInv
<1>2. /\ file' = m /\ named' = TRUE /\ buffer' = <<>> /\ full' = FALSE
      /\ readPos' = 0 /\ next' = 1 /\ outcome' = "none" /\ MaxItems \in Nat
  BY FileAssumption DEF OpenFile, FileAssumption
<1>3. ReadsBack'
  BY <1>2 DEF ReadsBack
<1>4. CASE m = "w+b"
  <2>1. disk' = <<>> /\ items' = <<>> /\ written' = <<>> /\ spliced' = FALSE
    BY <1>4 DEF OpenFile
  <2>2. /\ disk' \in Seq(FileByte) /\ buffer' \in Seq(FileByte) /\ written' \in Seq(FileByte)
        /\ items' \in Seq(Kinds) /\ Len(disk') = 0 /\ Len(buffer') = 0 /\ Len(items') = 0 /\ Len(written') = 0
    BY <1>2, <2>1
  <2>3. FileTypeOK'
    <3>1. readPos' \in 0 .. Len(disk') /\ next' \in 1 .. MaxItems + 1 /\ Len(items') <= MaxItems
      BY <1>2, <2>2
    <3> QED
      BY <1>2, <1>4, <2>1, <2>2, <3>1 DEF FileTypeOK, FileByte
  <2>4. StartsRight'
    BY <2>2 DEF StartsRight
  <2> PICK start : start = [i \in 1 .. 1 |-> 0]
    OBVIOUS
  <2>5. start \in [1 .. Len(items') + 1 -> Nat] /\ start[1] = 0 /\ start[Len(items') + 1] = 0
    BY <2>2
  <2>6. ItemsAt(start)'
    BY <2>2, <2>5 DEF ItemsAt
  <2>7. ReaderAt(start)'
    BY <1>2, <1>4 DEF ReaderAt
  <2> QED
    BY <1>3, <2>3, <2>4, <2>5, <2>6, <2>7 DEF FileInv
<1>5. CASE m # "w+b"
  <2>1. PICK r \in Flushed : disk' = r.disk
    BY <1>5 DEF OpenFile
  <2>2. UNCHANGED <<items, written, spliced>>
    BY <1>5 DEF OpenFile
  <2>3. PICK n \in 0 .. Len(buffer) : disk' = disk \o SubSeq(buffer, 1, n)
    BY <1>1, <2>1, FlushedPart
  <2>4. disk' \in Seq(FileByte) /\ buffer' \in Seq(FileByte) /\ StartsRight'
    BY <1>1, <1>2, <2>2, <2>3, DiskAfter
  <2>5. FileTypeOK'
    <3>1. readPos' \in 0 .. Len(disk') /\ next' \in 1 .. MaxItems + 1
      BY <1>2, <2>4
    <3> QED
      BY <1>1, <1>2, <2>2, <2>4, <3>1 DEF FileTypeOK, FileByte
  <2>6. PICK start \in [1 .. Len(items) + 1 -> Nat] : ItemsAt(start)
    BY DEF FileInv
  <2>7. ItemsAt(start)'
    BY <2>2, <2>6 DEF ItemsAt
  <2>8. ReaderAt(start)'
    <3>1. start[1] = 0 /\ Len(items) \in Nat
      BY <1>1, <2>6 DEF ItemsAt, FileTypeOK
    <3> QED
      BY <1>2, <2>2, <3>1 DEF ReaderAt
  <2> QED
    BY <1>3, <2>2, <2>4, <2>5, <2>6, <2>7, <2>8 DEF FileInv
<1> QED
  BY <1>4, <1>5

LEMMA FileStart == FileInit => FileInv
<1> SUFFICES ASSUME FileInit PROVE FileInv
  OBVIOUS
<1>1. /\ disk \in Seq(FileByte) /\ buffer \in Seq(FileByte) /\ written \in Seq(FileByte)
      /\ items \in Seq(Kinds) /\ Len(disk) = 0 /\ Len(buffer) = 0 /\ Len(items) = 0 /\ Len(written) = 0
      /\ readPos \in 0 .. Len(disk) /\ next \in 1 .. MaxItems + 1 /\ Len(items) <= MaxItems
  BY FileAssumption DEF FileAssumption, FileInit
<1>2. FileTypeOK /\ ReadsBack /\ StartsRight
  <2>1. FileTypeOK
    BY <1>1 DEF FileInit, FileTypeOK, FileByte
  <2>2. ReadsBack /\ StartsRight
    BY <1>1 DEF FileInit, ReadsBack, StartsRight
  <2> QED
    BY <2>1, <2>2
<1> PICK start : start = [i \in 1 .. 1 |-> 0]
  OBVIOUS
<1>3. start \in [1 .. Len(items) + 1 -> Nat] /\ start[1] = 0 /\ start[Len(items) + 1] = 0
  BY <1>1
<1>4. ItemsAt(start) /\ ReaderAt(start)
  BY <1>1, <1>3 DEF FileInit, ItemsAt, ReaderAt
<1> QED
  BY <1>2, <1>3, <1>4 DEF FileInv

LEMMA FileStep == FileInv /\ [FileNext]_fileVars => FileInv'
<1> SUFFICES ASSUME FileInv, [FileNext]_fileVars PROVE FileInv'
  OBVIOUS
<1>1. FileTypeOK /\ StartsRight /\ ReadsBack
  BY DEF FileInv
<1>2. ASSUME FlushBuffer
      PROVE  /\ buffer' = <<>> /\ full' \in BOOLEAN
             /\ \E n \in 0 .. Len(buffer) : disk' = disk \o SubSeq(buffer, 1, n)
  <2>1. PICK r \in Flushed : disk' = r.disk /\ full' = r.full
    BY <1>2 DEF FlushBuffer
  <2> QED
    BY <1>1, <1>2, <2>1, FlushedPart DEF FlushBuffer
<1>3. CASE CloseFile
  <2>1. file' = "closed" /\ named' = FALSE /\ UNCHANGED <<items, readPos, next, outcome, written, spliced>>
    BY <1>3 DEF CloseFile
  <2>2. FlushBuffer
    BY <1>3 DEF CloseFile
  <2>3. PICK n \in 0 .. Len(buffer) : disk' = disk \o SubSeq(buffer, 1, n)
    BY <1>2, <2>2
  <2> QED
    BY <1>2, <2>1, <2>2, <2>3, NotReading
<1>4. CASE FlushFile
  <2>1. /\ file' \in {"w+b", "a+b"} /\ named' \in BOOLEAN
        /\ UNCHANGED <<items, readPos, next, outcome, written, spliced>>
    BY <1>1, <1>4 DEF FlushFile, FileTypeOK
  <2>2. FlushBuffer
    BY <1>4 DEF FlushFile
  <2>3. PICK n \in 0 .. Len(buffer) : disk' = disk \o SubSeq(buffer, 1, n)
    BY <1>2, <2>2
  <2> QED
    BY <1>2, <2>1, <2>2, <2>3, NotReading
<1>5. CASE FileCrash
  <2>1. /\ file' = "closed" /\ named' = FALSE /\ buffer' = <<>> /\ full' \in BOOLEAN
        /\ UNCHANGED <<items, readPos, next, outcome, written, spliced>>
    BY <1>1, <1>5 DEF FileCrash, FileTypeOK
  <2>2. PICK i \in 0 .. Len(buffer) : disk' = IF full THEN disk ELSE disk \o SubSeq(buffer, 1, i)
    BY <1>5 DEF FileCrash
  <2>3. disk = disk \o SubSeq(buffer, 1, 0) /\ 0 \in 0 .. Len(buffer)
    <3>1. disk \in Seq(FileByte) /\ buffer \in Seq(FileByte)
      BY <1>1 DEF FileTypeOK, FileByte
    <3> QED
      BY <3>1
  <2>4. PICK n \in 0 .. Len(buffer) : disk' = disk \o SubSeq(buffer, 1, n)
    BY <2>2, <2>3
  <2> QED
    BY <2>1, <2>4, NotReading
<1>6. ASSUME NEW m \in {"w+b", "a+b", "rb"}, OpenFile(m) PROVE FileInv'
  BY <1>6, OpenKeepsFile
<1>7. ASSUME NEW k \in Kinds, WriteItem(k) PROVE FileInv'
  BY <1>7, WriteKeepsFile
<1>8. CASE ReadItem
  BY <1>8, ReadKeepsFile
<1>9. CASE Rewind
  <2>1. /\ readPos' = 0 /\ next' = 1 /\ outcome' = "none"
        /\ UNCHANGED <<file, named, disk, buffer, items, full, written, spliced>>
    BY <1>9 DEF Rewind
  <2>2. FileTypeOK'
    <3>1. readPos' \in 0 .. Len(disk) /\ next' \in 1 .. MaxItems + 1
      BY <1>1, <2>1, FileAssumption DEF FileAssumption, FileTypeOK
    <3> QED
      BY <1>1, <2>1, <3>1 DEF FileTypeOK
  <2>3. ReadsBack' /\ StartsRight'
    BY <1>1, <2>1 DEF ReadsBack, StartsRight
  <2>4. PICK start \in [1 .. Len(items) + 1 -> Nat] : ItemsAt(start) /\ ReaderAt(start)
    BY DEF FileInv
  <2>5. ItemsAt(start)'
    BY <2>1, <2>4 DEF ItemsAt
  <2>6. ReaderAt(start)'
    <3>1. start[1] = 0 /\ Len(items) \in Nat
      BY <1>1, <2>4 DEF ItemsAt, FileTypeOK
    <3> QED
      BY <2>1, <2>4, <3>1 DEF ReaderAt
  <2> QED
    BY <2>1, <2>2, <2>3, <2>4, <2>5, <2>6 DEF FileInv
<1>10. CASE UNCHANGED fileVars
  <2>1. UNCHANGED <<file, named, disk, buffer, items, readPos, next, outcome, full, written, spliced>>
    BY <1>10 DEF fileVars
  <2>2. FileTypeOK' /\ ReadsBack' /\ StartsRight'
    BY <1>1, <2>1 DEF FileTypeOK, ReadsBack, StartsRight
  <2>3. PICK start \in [1 .. Len(items) + 1 -> Nat] : ItemsAt(start) /\ ReaderAt(start)
    BY DEF FileInv
  <2>4. ItemsAt(start)' /\ ReaderAt(start)'
    BY <2>1, <2>3 DEF ItemsAt, ReaderAt
  <2> QED
    BY <2>1, <2>2, <2>3, <2>4 DEF FileInv
<1> QED
  BY <1>3, <1>4, <1>5, <1>6, <1>7, <1>8, <1>9, <1>10 DEF FileNext

\* A read of a file gives the item that was written in its place, or throws, however many items
\* there are and of whatever sizes, and wherever crashes and full disks cut the file, unless it was
\* continued where bytes were missing (BinaryFile's reads and writes, Serializer::ReadFromFile).
THEOREM FileReadsBack == FileSpec => []ReadsBack
<1>1. FileInv => ReadsBack
  BY DEF FileInv
<1> QED
  BY <1>1, FileStart, FileStep, PTL DEF FileSpec

-----------------------------------------------------------------------------
(* md5 in pieces.                                                            *)

Block == [1 .. BlockSize -> Int]

\* The whole blocks of a sequence of bytes, byte by byte.
Cut(blocks, bytes) ==
  /\ blocks \in Seq(Block) /\ Len(blocks) = Len(bytes) \div BlockSize
  /\ \A j \in 1 .. Len(blocks) : \A i \in 1 .. BlockSize : blocks[j][i] = bytes[(j - 1) * BlockSize + i]

LEMMA Joined ==
  ASSUME NEW S, NEW s \in Seq(S), NEW x \in Seq(S), NEW v, v = s \o x
  PROVE  /\ v \in Seq(S) /\ Len(v) = Len(s) + Len(x)
         /\ \A j \in 1 .. Len(s) : v[j] = s[j]
         /\ \A j \in 1 .. Len(x) : v[Len(s) + j] = x[j]
OBVIOUS

LEMMA JoinedType == ASSUME NEW s \in Seq(Int), NEW x \in Seq(Int) PROVE s \o x \in Seq(Int)
OBVIOUS

LEMMA PartOf ==
  ASSUME NEW S, NEW s \in Seq(S), NEW i \in Nat, NEW n \in Nat, i + n <= Len(s),
         NEW v, v = SubSeq(s, i + 1, i + n)
  PROVE  v \in Seq(S) /\ Len(v) = n /\ \A j \in 1 .. n : v[j] = s[i + j]
OBVIOUS

\* Numbers of bytes in whole blocks and what is left over.
LEMMA BlockFacts ==
  ASSUME NEW b \in Nat \ {0}, NEW n \in Nat
  PROVE  n \div b \in Nat /\ n % b \in 0 .. b - 1 /\ n = (n \div b) * b + (n % b)
<1>1. n \div b \in Nat /\ n % b \in 0 .. b - 1 /\ n = b * (n \div b) + (n % b)
  BY SMT
<1>2. (n \div b) * b = b * (n \div b)
  BY <1>1
<1> QED
  BY <1>1, <1>2

LEMMA DivisionIs ==
  ASSUME NEW b \in Nat \ {0}, NEW n \in Nat, NEW q \in Nat, NEW r \in 0 .. b - 1, n = q * b + r
  PROVE  n \div b = q /\ n % b = r
<1>1. n = b * q + r
  OBVIOUS
<1> QED
  BY ONLY b \in Nat \ {0}, n \in Nat, q \in Nat, r \in 0 .. b - 1, <1>1, SMT

\* Where the bytes of the p-th of q blocks are.
LEMMA BlockBounds ==
  ASSUME NEW b \in Nat \ {0}, NEW q \in Nat, NEW p \in 1 .. q, NEW i \in 1 .. b
  PROVE  (p - 1) * b + i \in 1 .. q * b
<1>1. (p - 1) * b + b = p * b /\ p * b <= q * b /\ (p - 1) * b \in Nat
  BY SMT
<1> QED
  BY <1>1

LEMMA ChunksCut == ASSUME NEW s \in Seq(Int) PROVE Cut(Chunks(s), s)
<1> PICK b \in Nat \ {0} : b = BlockSize
  BY Md5Assumption DEF Md5Assumption
<1> PICK q : q = Len(s) \div b
  OBVIOUS
<1> PICK t : t = [j \in 1 .. q |-> SubSeq(s, (j - 1) * b + 1, j * b)]
  OBVIOUS
<1>1. q \in Nat /\ q * b <= Len(s) /\ Len(s) \in Nat
  <2>1. Len(s) \in Nat
    BY ONLY s \in Seq(Int)
  <2>2. q \in Nat /\ Len(s) % b \in 0 .. b - 1 /\ Len(s) = q * b + (Len(s) % b)
    BY <2>1, BlockFacts
  <2>3. q * b \in Nat
    BY <2>2
  <2> QED
    BY <2>1, <2>2, <2>3
<1>2. ASSUME NEW j \in 1 .. q PROVE /\ t[j] \in [1 .. b -> Int]
                                    /\ \A i \in 1 .. b : t[j][i] = s[(j - 1) * b + i]
  <2> PICK at : at = (j - 1) * b
    OBVIOUS
  <2>1. at \in Nat /\ at + b = j * b /\ at + b <= q * b
    BY ONLY <1>1, at = (j - 1) * b, j \in 1 .. q, b \in Nat \ {0}, SMT
  <2>2. at + b <= Len(s)
    BY <1>1, <2>1
  <2>3. t[j] = SubSeq(s, at + 1, at + b)
    BY <2>1
  <2> PICK x : x = SubSeq(s, at + 1, at + b)
    OBVIOUS
  <2>4. x \in Seq(Int) /\ Len(x) = b /\ \A i \in 1 .. b : x[i] = s[at + i]
    <3>1. at \in Nat /\ b \in Nat /\ at + b <= Len(s)
      BY ONLY <2>1, <2>2, b \in Nat \ {0}
    <3> PICK l, h : l = at + 1 /\ h = at + b
      OBVIOUS
    <3>2. l \in Int /\ h \in Int /\ l <= h + 1 /\ h - l + 1 = b /\ \A i \in l .. h : s[i] \in Int
      BY ONLY <3>1, l = at + 1, h = at + b, s \in Seq(Int)
    <3>3. /\ SubSeq(s, l, h) \in Seq(Int) /\ Len(SubSeq(s, l, h)) = (IF l <= h THEN h - l + 1 ELSE 0)
          /\ \A i \in 1 .. h - l + 1 : SubSeq(s, l, h)[i] = s[l + i - 1]
      BY ONLY <3>2, SubSeqProperties
    <3>4. ASSUME NEW i \in 1 .. b PROVE x[i] = s[at + i]
      <4>1. l + i - 1 = at + i /\ i \in 1 .. h - l + 1
        BY ONLY <3>1, <3>2, l = at + 1, i \in 1 .. b
      <4> QED
        BY ONLY <3>3, <4>1, x = SubSeq(s, at + 1, at + b), l = at + 1, h = at + b
    <3>5. (IF l <= h THEN h - l + 1 ELSE 0) = b
      BY ONLY <3>1, <3>2
    <3>6. x = SubSeq(s, l, h)
      BY ONLY x = SubSeq(s, at + 1, at + b), l = at + 1, h = at + b
    <3> QED
      BY ONLY <3>3, <3>4, <3>5, <3>6
  <2>5. x \in [1 .. b -> Int]
    BY ONLY <2>4, b \in Nat \ {0}
  <2> QED
    BY ONLY <2>3, <2>4, <2>5, x = SubSeq(s, at + 1, at + b), at = (j - 1) * b
<1>3. \A j \in 1 .. q : t[j] \in Block
  BY ONLY <1>2, b = BlockSize DEF Block
<1>4. t \in Seq(Block) /\ Len(t) = q
  <2>1. t \in [1 .. q -> Block]
    BY ONLY <1>3, t = [j \in 1 .. q |-> SubSeq(s, (j - 1) * b + 1, j * b)]
  <2> QED
    BY ONLY <1>1, <2>1
<1>5. t = Chunks(s)
  BY DEF Chunks
<1> QED
  BY ONLY <1>2, <1>4, <1>5, b = BlockSize, q = Len(s) \div b DEF Cut

LEMMA CutOnce ==
  ASSUME NEW s, NEW t, NEW u, Cut(t, s), Cut(u, s)
  PROVE  t = u
<1>1. /\ t \in Seq(Block) /\ u \in Seq(Block) /\ Len(t) = Len(u)
      /\ \A j \in 1 .. Len(t) : \A i \in 1 .. BlockSize : t[j][i] = u[j][i]
  BY DEF Cut
<1>2. ASSUME NEW j \in 1 .. Len(t) PROVE t[j] = u[j]
  <2> PICK x, y : x = t[j] /\ y = u[j]
    OBVIOUS
  <2>1. x \in Block /\ y \in Block
    BY ONLY <1>1, j \in 1 .. Len(t), x = t[j] /\ y = u[j]
  <2>2. \A i \in 1 .. BlockSize : x[i] = y[i]
    BY ONLY <1>1, j \in 1 .. Len(t), x = t[j] /\ y = u[j]
  <2>3. x = y
    BY ONLY <2>1, <2>2, Md5Assumption DEF Block, Md5Assumption
  <2> QED
    BY <2>3
<1> QED
  BY <1>1, <1>2, SeqEqual

\* Bytes behind whole blocks are cut on their own.
LEMMA CutConcat ==
  ASSUME NEW x \in Seq(Int), NEW y \in Seq(Int), NEW t, NEW u, Cut(t, x), Cut(u, y), NEW b \in Nat \ {0},
         b = BlockSize, NEW n \in Nat, Len(x) = n * b
  PROVE  Cut(t \o u, x \o y)
<1> PICK s : s = x \o y
  OBVIOUS
<1> PICK v : v = t \o u
  OBVIOUS
<1> PICK m : m = Len(y) \div b
  OBVIOUS
<1>1. s \in Seq(Int) /\ Len(s) = Len(x) + Len(y) /\ \A i \in 1 .. Len(x) : s[i] = x[i]
  BY ONLY x \in Seq(Int), y \in Seq(Int), Joined, s = x \o y
<1>2. \A i \in 1 .. Len(y) : s[Len(x) + i] = y[i]
  BY ONLY x \in Seq(Int), y \in Seq(Int), Joined, s = x \o y
<1>3. Len(x) \in Nat /\ Len(y) \in Nat /\ n * b \in Nat
  BY ONLY x \in Seq(Int), y \in Seq(Int), n \in Nat, b \in Nat \ {0}, Len(x) = n * b
<1>4. m \in Nat /\ Len(y) % b \in 0 .. b - 1 /\ Len(y) = m * b + (Len(y) % b)
  BY <1>3, BlockFacts
<1>5. t \in Seq(Block) /\ u \in Seq(Block) /\ Len(t) = n /\ Len(u) = m
  <2>1. Len(x) \div b = n
    <3>1. Len(x) = n * b + 0 /\ 0 \in 0 .. b - 1
      BY <1>3
    <3> QED
      BY ONLY <1>3, <3>1, n \in Nat, b \in Nat \ {0}, DivisionIs
  <2> QED
    BY <2>1 DEF Cut
<1>6. /\ v \in Seq(Block) /\ Len(v) = n + m
      /\ \A j \in 1 .. n : v[j] = t[j]
      /\ \A j \in 1 .. m : v[n + j] = u[j]
  <2>1. v \in Seq(Block)
    BY ONLY <1>5, v = t \o u, Joined
  <2>0. t \in Seq(Block) /\ u \in Seq(Block)
    BY <1>5
  <2>3. Len(v) = Len(t) + Len(u)
    BY ONLY <2>0, v = t \o u
  <2>4. \A j \in 1 .. Len(t) : v[j] = t[j]
    BY ONLY <1>5, v = t \o u, Joined
  <2>2. \A j \in 1 .. Len(u) : v[Len(t) + j] = u[j]
    BY ONLY <1>5, Joined, v = t \o u
  <2> QED
    BY ONLY <1>5, <2>1, <2>2, <2>3, <2>4
<1>7. Len(s) \div b = n + m
  <2>1. Len(s) = (n + m) * b + (Len(y) % b)
    <3>1. (n + m) * b = n * b + m * b
      BY <1>4
    <3>2. m * b \in Nat
      BY <1>4
    <3> QED
      BY <1>1, <1>3, <1>4, <3>1, <3>2
  <2>2. n + m \in Nat /\ Len(s) \in Nat
    BY <1>1, <1>3, <1>4
  <2> QED
    BY ONLY <1>4, <2>1, <2>2, DivisionIs, b \in Nat \ {0}
<1>8. ASSUME NEW j \in 1 .. n, NEW i \in 1 .. b PROVE v[j][i] = s[(j - 1) * b + i]
  <2>1. (j - 1) * b + i \in 1 .. Len(x)
    BY BlockBounds
  <2>2. t[j][i] = x[(j - 1) * b + i]
    BY <1>5 DEF Cut
  <2> QED
    BY <1>1, <1>6, <2>1, <2>2
<1>9. ASSUME NEW j \in 1 .. m, NEW i \in 1 .. b PROVE v[n + j][i] = s[(n + j - 1) * b + i]
  <2>1. (j - 1) * b + i \in 1 .. m * b
    BY <1>4, BlockBounds
  <2>2. m * b \in Nat /\ (j - 1) * b \in Int
    BY <1>4
  <2>3. (j - 1) * b + i \in 1 .. Len(y)
    BY <1>3, <1>4, <2>1, <2>2
  <2>4. u[j][i] = y[(j - 1) * b + i]
    BY <1>5 DEF Cut
  <2>5. (n + j - 1) * b + i = Len(x) + ((j - 1) * b + i)
    <3>1. (n + j - 1) * b = n * b + (j - 1) * b
      BY <1>4
    <3> QED
      BY <1>3, <2>2, <3>1
  <2> QED
    BY <1>2, <1>6, <2>3, <2>4, <2>5
<1>10. ASSUME NEW j \in 1 .. n + m, NEW i \in 1 .. b PROVE v[j][i] = s[(j - 1) * b + i]
  <2>1. CASE j <= n
    <3>1. j \in 1 .. n
      BY ONLY <1>4, <2>1, j \in 1 .. n + m, n \in Nat
    <3> QED
      BY ONLY <1>8, <3>1, i \in 1 .. b
  <2>2. CASE j > n
    <3> PICK k : k = j - n
      OBVIOUS
    <3>1. k \in 1 .. m /\ j = n + k
      BY ONLY <1>4, <2>2, j \in 1 .. n + m, n \in Nat, k = j - n
    <3>2. v[n + k][i] = s[(n + k - 1) * b + i]
      BY ONLY <1>9, <3>1, i \in 1 .. b
    <3> QED
      BY ONLY <3>1, <3>2
  <2> QED
    BY ONLY <1>4, <2>1, <2>2, j \in 1 .. n + m, n \in Nat
<1> QED
  BY <1>6, <1>7, <1>10 DEF Cut

LEMMA CutNothing == Cut(<<>>, <<>>)
<1>1. BlockSize \in Nat \ {0} /\ 0 = 0 * BlockSize + 0 /\ 0 \in 0 .. BlockSize - 1
  BY Md5Assumption DEF Md5Assumption
<1>2. 0 \div BlockSize = 0
  BY ONLY <1>1, DivisionIs, 0 \in Nat
<1>3. <<>> \in Seq(Block) /\ Len(<<>>) = 0
  OBVIOUS
<1> QED
  BY ONLY <1>2, <1>3 DEF Cut

\* Bytes that fill no block are not cut.
LEMMA CutRest ==
  ASSUME NEW b \in Nat \ {0}, b = BlockSize, NEW m \in Seq(Int), NEW d \in Seq(Int), NEW t, Cut(t, m),
         (Len(m) % b) + Len(d) < b
  PROVE  Cut(t, m \o d)
<1> PICK s : s = m \o d
  OBVIOUS
<1> PICK q, r : q = Len(m) \div b /\ r = Len(m) % b
  OBVIOUS
<1>1. Len(m) \in Nat /\ Len(d) \in Nat
  BY ONLY m \in Seq(Int), d \in Seq(Int)
<1>2. q \in Nat /\ r \in 0 .. b - 1 /\ Len(m) = q * b + r
  BY ONLY <1>1, b \in Nat \ {0}, q = Len(m) \div b /\ r = Len(m) % b, BlockFacts
<1>3. s \in Seq(Int) /\ Len(s) = Len(m) + Len(d) /\ \A i \in 1 .. Len(m) : s[i] = m[i]
  BY ONLY m \in Seq(Int), d \in Seq(Int), s = m \o d
<1>4. Len(s) \div b = q
  <2>1. q * b \in Nat
    BY <1>2
  <2>2. r + Len(d) < b
    BY ONLY (Len(m) % b) + Len(d) < b, q = Len(m) \div b /\ r = Len(m) % b
  <2>3. r + Len(d) \in 0 .. b - 1 /\ Len(s) = q * b + (r + Len(d)) /\ Len(s) \in Nat
    BY ONLY <1>1, <1>2, <1>3, <2>1, <2>2, b \in Nat \ {0}
  <2> QED
    BY ONLY <1>2, <2>3, b \in Nat \ {0}, DivisionIs
<1>5. t \in Seq(Block) /\ Len(t) = q /\ \A j \in 1 .. q : \A i \in 1 .. b : t[j][i] = m[(j - 1) * b + i]
  BY ONLY Cut(t, m), b = BlockSize, q = Len(m) \div b /\ r = Len(m) % b DEF Cut
<1>6. ASSUME NEW j \in 1 .. q, NEW i \in 1 .. b PROVE t[j][i] = s[(j - 1) * b + i]
  <2>1. (j - 1) * b + i \in 1 .. q * b
    BY ONLY <1>2, b \in Nat \ {0}, j \in 1 .. q, i \in 1 .. b, BlockBounds
  <2>2. q * b \in Nat
    BY <1>2
  <2>3. (j - 1) * b + i \in 1 .. Len(m)
    BY ONLY <1>1, <1>2, <2>1, <2>2
  <2>4. s[(j - 1) * b + i] = m[(j - 1) * b + i]
    BY ONLY <1>3, <2>3
  <2>5. t[j][i] = m[(j - 1) * b + i]
    BY ONLY <1>5, j \in 1 .. q, i \in 1 .. b
  <2> QED
    BY ONLY <2>4, <2>5
<1>7. Cut(t, s)
  BY ONLY <1>4, <1>5, <1>6, b = BlockSize DEF Cut
<1> QED
  BY <1>7

\* Bytes that complete a block, with what was left over before them.
LEMMA CutFill ==
  ASSUME NEW b \in Nat \ {0}, b = BlockSize, NEW m \in Seq(Int), NEW c \in Seq(Int), NEW t, Cut(t, m),
         NEW r \in Nat, r = Len(m) % b, Len(c) = b - r,
         NEW f \in Block,
         \A i \in 1 .. r : f[i] = m[Len(m) - r + i],
         \A i \in 1 .. Len(c) : f[r + i] = c[i]
  PROVE  Cut(t \o <<f>>, m \o c)
<1> PICK s : s = m \o c
  OBVIOUS
<1> PICK v : v = t \o <<f>>
  OBVIOUS
<1> PICK q : q = Len(m) \div b
  OBVIOUS
<1>1. Len(m) \in Nat /\ Len(c) \in Nat
  BY ONLY m \in Seq(Int), c \in Seq(Int)
<1>2. q \in Nat /\ Len(m) = q * b + r /\ q * b \in Nat
  <2>1. q \in Nat /\ Len(m) = q * b + r
    BY ONLY <1>1, b \in Nat \ {0}, q = Len(m) \div b, r = Len(m) % b, BlockFacts
  <2> QED
    BY <2>1
<1>3. s \in Seq(Int) /\ Len(s) = Len(m) + Len(c) /\ \A i \in 1 .. Len(m) : s[i] = m[i]
  BY ONLY m \in Seq(Int), c \in Seq(Int), s = m \o c
<1>4. \A i \in 1 .. Len(c) : s[Len(m) + i] = c[i]
  BY ONLY m \in Seq(Int), c \in Seq(Int), s = m \o c
<1>5. Len(s) \div b = q + 1
  <2>1. (q + 1) * b = q * b + b /\ q + 1 \in Nat
    BY ONLY <1>2, b \in Nat \ {0}
  <2>2. Len(s) = (q + 1) * b + 0 /\ Len(s) \in Nat /\ 0 \in 0 .. b - 1
    <3> PICK w, z : w = q * b /\ z = (q + 1) * b
      OBVIOUS
    <3>1. w \in Nat /\ z = w + b /\ Len(m) = w + r
      BY ONLY <1>2, <2>1, w = q * b /\ z = (q + 1) * b
    <3>2. Len(s) = z + 0 /\ Len(s) \in Nat /\ 0 \in 0 .. b - 1
      <4>1. Len(s) = Len(m) + Len(c)
        BY <1>3
      <4>2. z + 0 = z /\ z \in Nat /\ 0 \in 0 .. b - 1
        BY ONLY <3>1, b \in Nat \ {0}
      <4>3. Len(s) = z
        BY ONLY <1>1, <3>1, <4>1, Len(c) = b - r, b \in Nat \ {0}, r \in Nat
      <4> QED
        BY ONLY <4>2, <4>3
    <3> QED
      BY ONLY <3>2, w = q * b /\ z = (q + 1) * b
  <2> QED
    BY ONLY <2>1, <2>2, b \in Nat \ {0}, DivisionIs
<1>6. t \in Seq(Block) /\ Len(t) = q /\ \A j \in 1 .. q : \A i \in 1 .. b : t[j][i] = m[(j - 1) * b + i]
  BY ONLY Cut(t, m), b = BlockSize, q = Len(m) \div b DEF Cut
<1>7. v \in Seq(Block) /\ Len(v) = q + 1 /\ v[q + 1] = f /\ \A j \in 1 .. q : v[j] = t[j]
  <2>1. v = Append(t, f)
    BY ONLY <1>6, v = t \o <<f>>
  <2>2. t \in Seq(Block) /\ Len(t) = q
    BY <1>6
  <2> QED
    BY ONLY <2>1, <2>2, f \in Block
<1>8. ASSUME NEW j \in 1 .. q, NEW i \in 1 .. b PROVE v[j][i] = s[(j - 1) * b + i]
  <2>1. (j - 1) * b + i \in 1 .. q * b
    BY ONLY <1>2, b \in Nat \ {0}, j \in 1 .. q, i \in 1 .. b, BlockBounds
  <2>2. (j - 1) * b + i \in 1 .. Len(m)
    BY ONLY <1>1, <1>2, <2>1, r \in Nat
  <2>3. s[(j - 1) * b + i] = m[(j - 1) * b + i]
    BY ONLY <1>3, <2>2
  <2>4. t[j][i] = m[(j - 1) * b + i]
    BY ONLY <1>6, j \in 1 .. q, i \in 1 .. b
  <2> QED
    BY ONLY <1>7, <2>3, <2>4, j \in 1 .. q
<1>9. ASSUME NEW i \in 1 .. b PROVE f[i] = s[q * b + i]
  <2>1. CASE i <= r
    <3>1. i \in 1 .. r /\ Len(m) - r + i = q * b + i /\ q * b + i \in 1 .. Len(m)
      BY ONLY <1>1, <1>2, <2>1, i \in 1 .. b, b \in Nat \ {0}, r \in Nat
    <3> QED
      BY ONLY <1>3, <3>1, \A j \in 1 .. r : f[j] = m[Len(m) - r + j]
  <2>2. CASE i > r
    <3> PICK k : k = i - r
      OBVIOUS
    <3>1. k \in 1 .. Len(c) /\ i = r + k /\ q * b + i = Len(m) + k
      BY ONLY <1>1, <1>2, <2>2, i \in 1 .. b, b \in Nat \ {0}, r \in Nat, Len(c) = b - r, k = i - r
    <3>2. f[r + k] = c[k] /\ s[Len(m) + k] = c[k]
      BY ONLY <1>4, <3>1, \A j \in 1 .. Len(c) : f[r + j] = c[j]
    <3> QED
      BY ONLY <3>1, <3>2
  <2> QED
    BY ONLY <2>1, <2>2, i \in 1 .. b, b \in Nat \ {0}, r \in Nat
<1>10. ASSUME NEW j \in 1 .. q + 1, NEW i \in 1 .. b PROVE v[j][i] = s[(j - 1) * b + i]
  <2>1. CASE j = q + 1
    <3>1. j - 1 = q
      BY ONLY <1>2, <2>1
    <3> QED
      BY ONLY <1>7, <1>9, <2>1, <3>1, i \in 1 .. b
  <2>2. CASE j # q + 1
    <3>1. j \in 1 .. q
      BY ONLY <1>2, <2>2, j \in 1 .. q + 1
    <3> QED
      BY ONLY <1>8, <3>1, i \in 1 .. b
  <2> QED
    BY <2>1, <2>2
<1>11. Cut(v, s)
  BY ONLY <1>5, <1>7, <1>10, b = BlockSize DEF Cut
<1> QED
  BY <1>11

\* A block by itself.
LEMMA CutOne ==
  ASSUME NEW b \in Nat \ {0}, b = BlockSize, NEW x \in Seq(Int), Len(x) = b
  PROVE  x \in Block /\ Cut(<<x>>, x)
<1>1. x \in Block
  BY ONLY x \in Seq(Int), Len(x) = b, b = BlockSize, b \in Nat \ {0} DEF Block
<1>2. Len(x) \div b = 1
  <2>1. Len(x) = 1 * b + 0 /\ 0 \in 0 .. b - 1 /\ Len(x) \in Nat
    BY ONLY Len(x) = b, b \in Nat \ {0}
  <2> QED
    BY ONLY <2>1, b \in Nat \ {0}, DivisionIs, 1 \in Nat
<1> PICK v : v = <<x>>
  OBVIOUS
<1>3. v \in Seq(Block) /\ Len(v) = 1 /\ v[1] = x
  BY ONLY <1>1, v = <<x>>
<1>4. ASSUME NEW j \in 1 .. 1, NEW i \in 1 .. b PROVE v[j][i] = x[(j - 1) * b + i]
  <2>1. j = 1 /\ (j - 1) * b + i = i
    BY ONLY j \in 1 .. 1, i \in 1 .. b, b \in Nat \ {0}
  <2> QED
    BY ONLY <1>3, <2>1
<1>5. Cut(v, x)
  BY ONLY <1>2, <1>3, <1>4, b = BlockSize DEF Cut
<1> QED
  BY <1>1, <1>5

LEMMA MinOfTwo == ASSUME NEW i \in Nat, NEW j \in Nat PROVE Min({i, j}) = IF i <= j THEN i ELSE j
BY DEF Min

Regroups(s, t, u) == (s \o t) \o u = s \o (t \o u)

LEMMA Regrouped ==
  ASSUME NEW s \in Seq(Int), NEW t \in Seq(Int), NEW u \in Seq(Int)
  PROVE  Regroups(s, t, u)
BY ONLY s \in Seq(Int), t \in Seq(Int), u \in Seq(Int), ConcatAssociative DEF Regroups

EndOf(x, s) == x \in Seq(Int) /\ \A i \in 1 .. Len(x) : x[i] = s[Len(s) - Len(x) + i]

\* A context for a message: the whole blocks are worked in, the rest is in its buffer.
Holds(c, m) ==
  /\ c.bytes = Len(m) /\ c.buffer \in Block /\ Cut(c.state, m)
  /\ \A i \in 1 .. Len(m) % BlockSize : c.buffer[i] = m[Len(m) - (Len(m) % BlockSize) + i]

\* What absorbing the last n bytes of a message gives: the bytes that fill no block are held in the
\* buffer, where a piece before this one began them, or remain from this piece.
Absorbs(a, m, n) ==
  /\ a.context \in [state : Seq(Block), bytes : Nat, buffer : Block]
  /\ a.context.bytes = Len(m) /\ Cut(a.context.state, m)
  /\ a.held \in Nat /\ EndOf(a.remaining, m) /\ a.held + Len(a.remaining) = Len(m) % BlockSize
  /\ a.held = 0 \/ (a.remaining = <<>> /\ n < a.held)
  /\ \A i \in 1 .. a.held : a.context.buffer[i] = m[Len(m) - (Len(m) % BlockSize) + i]

LEMMA LeftOverFacts ==
  ASSUME NEW s \in Seq(Int)
  PROVE  EndOf(LeftOver(s), s) /\ Len(LeftOver(s)) = Len(s) % BlockSize
<1> PICK b \in Nat \ {0} : b = BlockSize
  BY Md5Assumption DEF Md5Assumption
<1> PICK r : r = Len(s) % b
  OBVIOUS
<1>1. Len(s) \in Nat
  BY ONLY s \in Seq(Int)
<1> PICK q : q = Len(s) \div b
  OBVIOUS
<1>2. q \in Nat /\ r \in 0 .. b - 1 /\ Len(s) = q * b + r
  BY ONLY <1>1, b \in Nat \ {0}, r = Len(s) % b, q = Len(s) \div b, BlockFacts
<1> PICK at : at = Len(s) - r
  OBVIOUS
<1>3. at \in Nat /\ r \in Nat /\ at + r <= Len(s) /\ at + r = Len(s)
  <2>1. q * b \in Nat
    BY <1>2
  <2> QED
    BY ONLY <1>1, <1>2, <2>1, at = Len(s) - r, b \in Nat \ {0}
<1> PICK x : x = SubSeq(s, at + 1, at + r)
  OBVIOUS
<1>4. x \in Seq(Int) /\ Len(x) = r /\ \A i \in 1 .. r : x[i] = s[at + i]
  BY ONLY <1>3, s \in Seq(Int), x = SubSeq(s, at + 1, at + r), PartOf
<1>5. x = LeftOver(s)
  BY ONLY <1>3, b = BlockSize, r = Len(s) % b, at = Len(s) - r, x = SubSeq(s, at + 1, at + r) DEF LeftOver
<1> QED
  BY ONLY <1>4, <1>5, at = Len(s) - r, r = Len(s) % b, b = BlockSize DEF EndOf

\* When what came before ends with a block, the rest of a piece is cut on its own.
LEMMA AbsorbWhole ==
  ASSUME NEW m \in Seq(Int), NEW t, Cut(t, m), Len(m) % BlockSize = 0, NEW y \in Seq(Int)
  PROVE  /\ Cut(t \o Chunks(y), m \o y)
         /\ EndOf(LeftOver(y), m \o y) /\ Len(LeftOver(y)) = Len(m \o y) % BlockSize
<1> PICK b \in Nat \ {0} : b = BlockSize
  BY Md5Assumption DEF Md5Assumption
<1> PICK s : s = m \o y
  OBVIOUS
<1> PICK r : r = Len(s) % b
  OBVIOUS
<1> PICK n : n = Len(m) \div b
  OBVIOUS
<1>2. Len(m) \in Nat /\ Len(y) \in Nat
  BY ONLY m \in Seq(Int), y \in Seq(Int)
<1>0. n \in Nat /\ Len(m) = n * b
  <2>1. n \in Nat /\ Len(m) = n * b + (Len(m) % b)
    BY ONLY <1>2, b \in Nat \ {0}, n = Len(m) \div b, BlockFacts
  <2>2. n * b \in Nat
    BY ONLY <2>1, b \in Nat \ {0}
  <2> QED
    BY ONLY <2>1, <2>2, Len(m) % BlockSize = 0, b = BlockSize
<1>1. Cut(t \o Chunks(y), s)
  BY ONLY <1>0, b \in Nat \ {0}, b = BlockSize, m \in Seq(Int), Cut(t, m),
          y \in Seq(Int), s = m \o y, ChunksCut, CutConcat
<1>3. Len(s) = Len(m) + Len(y)
  BY ONLY m \in Seq(Int), y \in Seq(Int), s = m \o y
<1>4. \A i \in 1 .. Len(y) : s[Len(m) + i] = y[i]
  BY ONLY m \in Seq(Int), y \in Seq(Int), s = m \o y
<1> PICK k, l : k = Len(y) \div b /\ l = Len(y) % b
  OBVIOUS
<1>5. k \in Nat /\ l \in 0 .. b - 1 /\ Len(y) = k * b + l
  BY ONLY <1>2, b \in Nat \ {0}, k = Len(y) \div b /\ l = Len(y) % b, BlockFacts
<1>6. r = l
  <2>1. (n + k) * b = n * b + k * b /\ n + k \in Nat
    BY ONLY <1>0, <1>5, b \in Nat \ {0}
  <2> PICK u, v, w : u = n * b /\ v = k * b /\ w = (n + k) * b
    OBVIOUS
  <2>2. u \in Nat /\ v \in Nat /\ w = u + v /\ Len(y) = v + l /\ Len(m) = u
    BY ONLY <1>0, <1>5, <2>1, b \in Nat \ {0}, u = n * b /\ v = k * b /\ w = (n + k) * b
  <2>3. Len(s) = w + l
    BY ONLY <1>3, <1>5, <2>2, b \in Nat \ {0}
  <2> PICK p : p = n + k
    OBVIOUS
  <2>4. Len(s) \in Nat
    BY ONLY <1>2, <1>3
  <2>5. Len(s) = p * b + l
    BY ONLY <2>3, p = n + k, u = n * b /\ v = k * b /\ w = (n + k) * b
  <2>6. Len(s) % b = l
    <3>1. p \in Nat /\ l \in 0 .. b - 1
      BY ONLY <1>5, <2>1, p = n + k
    <3> QED
      BY ONLY <2>4, <2>5, <3>1, b \in Nat \ {0}, DivisionIs
  <2> QED
    BY ONLY <2>6, r = Len(s) % b
<1> PICK x : x = LeftOver(y)
  OBVIOUS
<1>7. x \in Seq(Int) /\ Len(x) = l /\ \A i \in 1 .. l : x[i] = y[Len(y) - l + i]
  <2>1. EndOf(x, y) /\ Len(x) = l
    BY ONLY b = BlockSize, y \in Seq(Int), k = Len(y) \div b /\ l = Len(y) % b, x = LeftOver(y), LeftOverFacts
  <2> QED
    BY ONLY <2>1 DEF EndOf
<1>8. ASSUME NEW i \in 1 .. l PROVE x[i] = s[Len(s) - l + i]
  <2> PICK v : v = k * b
    OBVIOUS
  <2>1. v \in Nat /\ Len(y) = v + l
    BY ONLY <1>5, b \in Nat \ {0}, v = k * b
  <2>2. Len(y) - l + i \in 1 .. Len(y) /\ Len(s) - l + i = Len(m) + (Len(y) - l + i)
    BY ONLY <1>2, <1>3, <1>5, <2>1, i \in 1 .. l, b \in Nat \ {0}
  <2>3. s[Len(m) + (Len(y) - l + i)] = y[Len(y) - l + i]
    BY ONLY <1>4, <2>2
  <2> QED
    BY ONLY <1>7, <2>2, <2>3, i \in 1 .. l
<1>9. EndOf(x, s)
  BY ONLY <1>7, <1>8 DEF EndOf
<1> QED
  BY ONLY <1>1, <1>6, <1>7, <1>9, x = LeftOver(y), s = m \o y, r = Len(s) % b, b = BlockSize

\* Bytes that a piece adds to a buffer stay behind those that were there.
LEMMA CopiedFacts ==
  ASSUME NEW b \in Nat \ {0}, b = BlockSize, NEW f \in Block, NEW r \in Nat, NEW x \in Seq(Int),
         r + Len(x) <= b
  PROVE  /\ CopiedTo(f, r, x) \in Block
         /\ \A i \in 1 .. r : CopiedTo(f, r, x)[i] = f[i]
         /\ \A i \in 1 .. Len(x) : CopiedTo(f, r, x)[r + i] = x[i]
<1> PICK k : k = Len(x)
  OBVIOUS
<1>1. k \in Nat /\ DOMAIN x = 1 .. k /\ \A i \in 1 .. k : x[i] \in Int
  BY ONLY x \in Seq(Int), k = Len(x)
<1>2. DOMAIN f = 1 .. b /\ \A i \in 1 .. b : f[i] \in Int
  BY ONLY f \in Block, b = BlockSize DEF Block
<1> PICK g : g = [i \in 1 .. b |-> IF i - r \in 1 .. k THEN x[i - r] ELSE f[i]]
  OBVIOUS
<1>3. g = CopiedTo(f, r, x)
  BY ONLY <1>1, <1>2, g = [i \in 1 .. b |-> IF i - r \in 1 .. k THEN x[i - r] ELSE f[i]] DEF CopiedTo
<1>4. g \in Block
  <2>1. \A i \in 1 .. b : (IF i - r \in 1 .. k THEN x[i - r] ELSE f[i]) \in Int
    BY ONLY <1>1, <1>2
  <2> QED
    BY ONLY <2>1, b = BlockSize, g = [i \in 1 .. b |-> IF i - r \in 1 .. k THEN x[i - r] ELSE f[i]] DEF Block
<1>5. ASSUME NEW i \in 1 .. r PROVE g[i] = f[i]
  <2>1. i \in 1 .. b /\ i - r \notin 1 .. k
    BY ONLY <1>1, i \in 1 .. r, r \in Nat, b \in Nat \ {0}, r + Len(x) <= b, k = Len(x)
  <2> QED
    BY ONLY <2>1, g = [j \in 1 .. b |-> IF j - r \in 1 .. k THEN x[j - r] ELSE f[j]]
<1>6. ASSUME NEW i \in 1 .. k PROVE g[r + i] = x[i]
  <2> PICK j : j = r + i
    OBVIOUS
  <2>1. j \in 1 .. b /\ j - r \in 1 .. k /\ j - r = i
    BY ONLY <1>1, i \in 1 .. k, r \in Nat, b \in Nat \ {0}, r + Len(x) <= b, k = Len(x), j = r + i
  <2>2. g[j] = x[j - r]
    BY ONLY <2>1, g = [p \in 1 .. b |-> IF p - r \in 1 .. k THEN x[p - r] ELSE f[p]]
  <2> QED
    BY ONLY <2>1, <2>2, j = r + i
<1> QED
  BY ONLY <1>3, <1>4, <1>5, <1>6, k = Len(x)

\* Absorbing a piece, whether it fills up the buffer, ends in it, or finds it empty.
LEMMA AbsorbedFacts ==
  ASSUME NEW c, c \in [state : Seq(Block), bytes : Nat, buffer : Block], NEW m \in Seq(Int), Holds(c, m),
         NEW d \in Seq(Int)
  PROVE  Absorbs(Absorbed(c, d), m \o d, Len(d))
<1> PICK b \in Nat \ {0} : b = BlockSize
  BY Md5Assumption DEF Md5Assumption
<1> PICK n : n = Len(d)
  OBVIOUS
<1> PICK r, q : r = Len(m) % b /\ q = Len(m) \div b
  OBVIOUS
<1> PICK k : k = IF r = 0 THEN 0 ELSE IF n <= b - r THEN n ELSE b - r
  OBVIOUS
<1> PICK copied, rest : copied = SubSeq(d, 1, k) /\ rest = SubSeq(d, k + 1, n)
  OBVIOUS
<1> PICK filled : filled = CopiedTo(c.buffer, r, copied)
  OBVIOUS
<1> PICK first : first = IF r + k = b THEN c.state \o <<filled>> ELSE c.state
  OBVIOUS
<1> PICK s : s = m \o d
  OBVIOUS
<1> PICK a : a = Absorbed(c, d)
  OBVIOUS
<1>1. Len(m) \in Nat /\ n \in Nat
  BY ONLY m \in Seq(Int), d \in Seq(Int), n = Len(d)
<1>2. q \in Nat /\ r \in 0 .. b - 1 /\ Len(m) = q * b + r /\ r \in Nat
  <2>1. q \in Nat /\ r \in 0 .. b - 1 /\ Len(m) = q * b + r
    BY ONLY <1>1, b \in Nat \ {0}, r = Len(m) % b /\ q = Len(m) \div b, n = Len(d), BlockFacts
  <2>2. r \in Nat
    BY ONLY <2>1, b \in Nat \ {0}
  <2> QED
    BY ONLY <2>1, <2>2
<1>3. /\ k \in 0 .. n /\ r + k <= b /\ (r = 0 => k = 0)
      /\ r > 0 /\ r + k # b => k = n
  BY ONLY <1>1, <1>2, b \in Nat \ {0}, k = IF r = 0 THEN 0 ELSE IF n <= b - r THEN n ELSE b - r
<1>4. copied \in Seq(Int) /\ Len(copied) = k /\ \A i \in 1 .. k : copied[i] = d[i]
  <2>1. 0 \in Nat /\ k \in Nat /\ 0 + k <= Len(d) /\ copied = SubSeq(d, 0 + 1, 0 + k)
    BY ONLY <1>1, <1>3, r = Len(m) % b /\ q = Len(m) \div b, n = Len(d),
            copied = SubSeq(d, 1, k) /\ rest = SubSeq(d, k + 1, n)
  <2>2. copied \in Seq(Int) /\ Len(copied) = k /\ \A i \in 1 .. k : copied[i] = d[0 + i]
    BY ONLY <2>1, d \in Seq(Int), PartOf
  <2> QED
    BY ONLY <2>2, <2>1
<1>5. rest \in Seq(Int) /\ Len(rest) = n - k /\ \A i \in 1 .. n - k : rest[i] = d[k + i]
  <2> PICK l : l = n - k
    OBVIOUS
  <2>1. k \in Nat /\ l \in Nat /\ k + l <= Len(d) /\ k + l = n
    BY ONLY <1>1, <1>3, r = Len(m) % b /\ q = Len(m) \div b, n = Len(d), l = n - k
  <2>2. rest = SubSeq(d, k + 1, k + l)
    BY ONLY <2>1, copied = SubSeq(d, 1, k) /\ rest = SubSeq(d, k + 1, n)
  <2>3. rest \in Seq(Int) /\ Len(rest) = l /\ \A i \in 1 .. l : rest[i] = d[k + i]
    BY ONLY <2>1, <2>2, d \in Seq(Int), PartOf
  <2> QED
    BY ONLY <2>3, l = n - k
<1>6. copied \o rest = d
  <2> PICK x : x = copied \o rest
    OBVIOUS
  <2>1. x \in Seq(Int) /\ Len(x) = n
    <3>1. x \in Seq(Int) /\ Len(x) = Len(copied) + Len(rest)
      <4>1. copied \in Seq(Int) /\ rest \in Seq(Int)
        BY <1>4, <1>5
      <4> QED
        BY ONLY <4>1, x = copied \o rest
    <3> QED
      BY ONLY <1>1, <1>3, <1>4, <1>5, <3>1
  <2>2. ASSUME NEW i \in 1 .. n PROVE x[i] = d[i]
    <3>1. CASE i <= k
      <4>1. i \in 1 .. k /\ i \in 1 .. Len(copied)
        BY ONLY <1>1, <1>3, <1>4, <3>1, i \in 1 .. n
      <4>2. x[i] = copied[i]
        <5>1. copied \in Seq(Int) /\ rest \in Seq(Int)
          BY ONLY <1>4, <1>5
        <5> QED
          BY ONLY <4>1, <5>1, Joined, x = copied \o rest
      <4> QED
        BY ONLY <1>4, <4>1, <4>2
    <3>2. CASE i > k
      <4> PICK j : j = i - k
        OBVIOUS
      <4>1. j \in 1 .. n - k /\ j \in 1 .. Len(rest) /\ i = k + j
        BY ONLY <1>1, <1>3, <1>5, <3>2, i \in 1 .. n, j = i - k
      <4>2. x[Len(copied) + j] = rest[j]
        BY ONLY <1>4, <1>5, <4>1, x = copied \o rest, Joined
      <4> QED
        BY ONLY <1>4, <1>5, <4>1, <4>2
    <3> QED
      BY ONLY <1>1, <1>3, <3>1, <3>2, i \in 1 .. n
  <2>3. Len(d) = n
    BY ONLY r = Len(m) % b /\ q = Len(m) \div b, n = Len(d)
  <2> QED
    BY ONLY <2>1, <2>2, <2>3, d \in Seq(Int), x = copied \o rest, SeqEqual
<1>7. /\ c.bytes = Len(m) /\ c.buffer \in Block /\ c.state \in Seq(Block) /\ Cut(c.state, m)
      /\ \A i \in 1 .. r : c.buffer[i] = m[Len(m) - r + i]
  BY ONLY c \in [state : Seq(Block), bytes : Nat, buffer : Block], Holds(c, m), b = BlockSize,
          r = Len(m) % b /\ q = Len(m) \div b, n = Len(d) DEF Holds
<1>8. /\ filled \in Block
      /\ \A i \in 1 .. r : filled[i] = m[Len(m) - r + i]
      /\ \A i \in 1 .. k : filled[r + i] = copied[i]
  <2>1. /\ filled \in Block
        /\ \A i \in 1 .. r : filled[i] = c.buffer[i]
        /\ \A i \in 1 .. Len(copied) : filled[r + i] = copied[i]
    <3>1. r \in Nat /\ copied \in Seq(Int) /\ r + Len(copied) <= b
      BY ONLY <1>2, <1>3, <1>4
    <3> PICK f : f = c.buffer
      OBVIOUS
    <3>2. f \in Block
      BY <1>7
    <3>3. /\ CopiedTo(f, r, copied) \in Block
          /\ \A i \in 1 .. r : CopiedTo(f, r, copied)[i] = f[i]
          /\ \A i \in 1 .. Len(copied) : CopiedTo(f, r, copied)[r + i] = copied[i]
      BY ONLY <3>1, <3>2, b \in Nat \ {0}, b = BlockSize, CopiedFacts
    <3> QED
      BY ONLY <3>3, f = c.buffer, filled = CopiedTo(c.buffer, r, copied)
  <2> QED
    BY ONLY <1>4, <1>7, <2>1
<1>9. a = [context |-> [state |-> first \o Chunks(rest), bytes |-> Len(m) + n, buffer |-> filled],
           held |-> (r + k) % b, remaining |-> LeftOver(rest)]
  <2>1. copied = IF r = 0 THEN <<>> ELSE SubSeq(d, 1, Min({Len(d), BlockSize - r}))
    <3>1. CASE r = 0
      BY ONLY <1>3, <1>4, <3>1
    <3>2. CASE r # 0
      <4>1. Len(d) \in Nat /\ BlockSize - r \in Nat /\ Len(d) = n
        BY ONLY <1>1, <1>2, b \in Nat \ {0}, b = BlockSize, r = Len(m) % b /\ q = Len(m) \div b, n = Len(d)
      <4>2. Min({Len(d), BlockSize - r}) = k
        BY ONLY <3>2, <4>1, MinOfTwo, b = BlockSize, k = IF r = 0 THEN 0 ELSE IF n <= b - r THEN n ELSE b - r
      <4> QED
        BY ONLY <3>2, <4>2, copied = SubSeq(d, 1, k) /\ rest = SubSeq(d, k + 1, n)
    <3> QED
      BY <3>1, <3>2
  <2>2. c.bytes % BlockSize = r /\ c.bytes = Len(m)
    BY ONLY <1>7, b = BlockSize, r = Len(m) % b /\ q = Len(m) \div b, n = Len(d)
  <2>3. rest = SubSeq(d, Len(copied) + 1, Len(d))
    BY ONLY <1>4, copied = SubSeq(d, 1, k) /\ rest = SubSeq(d, k + 1, n),
            r = Len(m) % b /\ q = Len(m) \div b, n = Len(d)
  <2> QED
    BY ONLY <1>4, <2>1, <2>2, <2>3, b = BlockSize, filled = CopiedTo(c.buffer, r, copied), a = Absorbed(c, d),
            first = IF r + k = b THEN c.state \o <<filled>> ELSE c.state,
            r = Len(m) % b /\ q = Len(m) \div b, n = Len(d) DEF Absorbed, Worked
<1>10. /\ a.context.state = first \o Chunks(rest) /\ a.context.bytes = Len(m) + n /\ a.context.buffer = filled
       /\ a.context = [state |-> first \o Chunks(rest), bytes |-> Len(m) + n, buffer |-> filled]
       /\ a.held = (r + k) % b /\ a.remaining = LeftOver(rest)
  BY ONLY <1>9
<1>11. /\ s \in Seq(Int) /\ Len(s) = Len(m) + n /\ Len(s) \in Nat
       /\ \A i \in 1 .. Len(m) : s[i] = m[i]
       /\ \A i \in 1 .. n : s[Len(m) + i] = d[i]
  <2>1. s \in Seq(Int) /\ Len(s) = Len(m) + Len(d)
    BY ONLY m \in Seq(Int), d \in Seq(Int), s = m \o d
  <2>2. \A i \in 1 .. Len(m) : s[i] = m[i]
    BY ONLY m \in Seq(Int), d \in Seq(Int), s = m \o d
  <2>3. \A i \in 1 .. Len(d) : s[Len(m) + i] = d[i]
    BY ONLY m \in Seq(Int), d \in Seq(Int), s = m \o d
  <2> QED
    BY ONLY <1>1, <2>1, <2>2, <2>3, n = Len(d)
<1> PICK l : l = Len(s) % b
  OBVIOUS
<1> HIDE <1>9
<1>12. ASSUME NEW x, x = m \o copied, Cut(first, x), Len(x) % b = 0, (r + k) % b = 0
       PROVE  Absorbs(a, s, n)
  <2>1. x \in Seq(Int)
    BY ONLY <1>4, <1>12, m \in Seq(Int)
  <2>2. s = x \o rest
    <3>1. copied \in Seq(Int) /\ rest \in Seq(Int)
      BY <1>4, <1>5
    <3>2. (m \o copied) \o rest = m \o (copied \o rest)
      BY ONLY <3>1, m \in Seq(Int), Regrouped DEF Regroups
    <3> QED
      BY ONLY <1>6, <1>12, <3>2, s = m \o d
  <2>3. Cut(first \o Chunks(rest), s) /\ EndOf(LeftOver(rest), s) /\ Len(LeftOver(rest)) = Len(s) % BlockSize
    <3>1. Cut(first, x) /\ Len(x) % BlockSize = 0 /\ rest \in Seq(Int)
      BY ONLY <1>5, <1>12, b = BlockSize
    <3> QED
      BY ONLY <2>1, <2>2, <3>1, AbsorbWhole
  <2>4. a.context \in [state : Seq(Block), bytes : Nat, buffer : Block]
    <3>1. first \o Chunks(rest) \in Seq(Block)
      BY ONLY <2>3 DEF Cut
    <3>2. Len(m) + n \in Nat
      BY ONLY <1>1
    <3> QED
      BY ONLY <1>8, <1>10, <3>1, <3>2
  <2>5. a.held = 0 /\ a.remaining = LeftOver(rest) /\ a.context.bytes = Len(s) /\ Cut(a.context.state, s)
    BY ONLY <1>10, <1>11, <1>12, <2>3
  <2>6. a.held + Len(a.remaining) = Len(s) % BlockSize /\ a.held \in Nat /\ 1 .. a.held = {}
    <3>1. Len(LeftOver(rest)) \in Nat
      BY ONLY <2>3 DEF EndOf
    <3> QED
      BY ONLY <2>3, <2>5, <3>1
  <2> QED
    BY ONLY <2>3, <2>4, <2>5, <2>6 DEF Absorbs
<1>13. CASE r + k = b
  <2> PICK x, p : x = m \o copied /\ p = q + 1
    OBVIOUS
  <2>1. first = c.state \o <<filled>>
    BY ONLY <1>13, first = IF r + k = b THEN c.state \o <<filled>> ELSE c.state
  <2>2. Cut(first, x)
    <3> PICK t : t = c.state
      OBVIOUS
    <3>1. Cut(t, m) /\ r \in Nat /\ r = Len(m) % b /\ copied \in Seq(Int) /\ filled \in Block
      BY ONLY <1>2, <1>4, <1>7, <1>8, t = c.state, r = Len(m) % b /\ q = Len(m) \div b
    <3>2. Len(copied) = b - r
      BY ONLY <1>2, <1>3, <1>4, <1>13, b \in Nat \ {0}
    <3>3. /\ \A i \in 1 .. r : filled[i] = m[Len(m) - r + i]
          /\ \A i \in 1 .. Len(copied) : filled[r + i] = copied[i]
      BY ONLY <1>4, <1>8
    <3>4. Cut(t \o <<filled>>, m \o copied)
      BY ONLY <3>1, <3>2, <3>3, b \in Nat \ {0}, b = BlockSize, m \in Seq(Int), CutFill
    <3> QED
      BY ONLY <2>1, <3>4, t = c.state, x = m \o copied /\ p = q + 1
  <2>3. Len(x) % b = 0
    <3>1. Len(x) = Len(m) + k
      <4>1. x = m \o copied /\ copied \in Seq(Int) /\ Len(copied) = k
        BY ONLY <1>4, x = m \o copied /\ p = q + 1
      <4>2. Len(x) = Len(m) + Len(copied)
        <5>1. x = m \o copied /\ copied \in Seq(Int)
          BY <4>1
        <5> QED
          BY ONLY <5>1, m \in Seq(Int)
      <4> QED
        BY ONLY <4>1, <4>2
    <3>2. p \in Nat /\ p * b = q * b + b /\ q * b \in Nat
      BY ONLY <1>2, b \in Nat \ {0}, x = m \o copied /\ p = q + 1
    <3> PICK u, v : u = q * b /\ v = p * b
      OBVIOUS
    <3>3. v = u + b /\ u \in Nat /\ Len(m) = u + r /\ k = b - r
      BY ONLY <1>2, <1>3, <1>13, <3>2, u = q * b /\ v = p * b, b \in Nat \ {0}
    <3>4. Len(x) = v
      BY ONLY <1>1, <1>2, <3>1, <3>3, b \in Nat \ {0}
    <3>5. Len(x) = p * b + 0 /\ 0 \in 0 .. b - 1 /\ Len(x) \in Nat
      BY ONLY <3>3, <3>4, u = q * b /\ v = p * b, b \in Nat \ {0}
    <3> QED
      BY ONLY <3>2, <3>5, b \in Nat \ {0}, DivisionIs
  <2>4. (r + k) % b = 0
    <3>1. b = 1 * b + 0 /\ 0 \in 0 .. b - 1 /\ b \in Nat
      BY ONLY b \in Nat \ {0}
    <3>2. b % b = 0
      BY ONLY <3>1, b \in Nat \ {0}, 1 \in Nat, DivisionIs
    <3> QED
      BY ONLY <1>13, <3>2
  <2> QED
    BY <1>12, <2>2, <2>3, <2>4
<1>14. CASE r = 0
  <2>1. k = 0 /\ r + k # b
    BY ONLY <1>3, <1>14, b \in Nat \ {0}
  <2>2. first = c.state
    BY ONLY <2>1, first = IF r + k = b THEN c.state \o <<filled>> ELSE c.state
  <2> PICK x : x = m \o copied
    OBVIOUS
  <2>3. x = m
    <3>1. copied = <<>>
      BY ONLY <1>4, <2>1
    <3> QED
      BY ONLY <3>1, m \in Seq(Int), x = m \o copied
  <2>4. Cut(first, x) /\ Len(x) % b = 0
    BY ONLY <1>7, <1>14, <2>2, <2>3, r = Len(m) % b /\ q = Len(m) \div b
  <2>5. (r + k) % b = 0
    <3>1. 0 = 0 * b + 0 /\ 0 \in 0 .. b - 1 /\ 0 \in Nat
      BY ONLY b \in Nat \ {0}
    <3>2. 0 % b = 0
      BY ONLY <3>1, b \in Nat \ {0}, DivisionIs
    <3>3. r + k = 0
      BY ONLY <1>14, <2>1
    <3> QED
      BY ONLY <3>2, <3>3
  <2> QED
    BY <1>12, <2>4, <2>5
<1>15. CASE r # 0 /\ r + k # b
  <2>1. k = n /\ r + n \in 1 .. b - 1 /\ n < r + n
    BY ONLY <1>1, <1>2, <1>3, <1>15, b \in Nat \ {0}
  <2>2. rest = <<>>
    BY ONLY <1>1, <1>5, <2>1
  <2>3. Chunks(rest) = <<>>
    <3>1. Cut(Chunks(rest), rest) /\ Cut(<<>>, rest)
      BY ONLY <1>5, <2>2, ChunksCut, CutNothing
    <3> QED
      BY ONLY <3>1, CutOnce
  <2>4. a.context.state = c.state
    <3>1. first = c.state
      BY ONLY <1>15, first = IF r + k = b THEN c.state \o <<filled>> ELSE c.state
    <3>2. c.state \o <<>> = c.state
      BY ONLY <1>7
    <3> QED
      BY ONLY <1>10, <2>3, <3>1, <3>2
  <2>5. l = r + n
    <3> PICK w : w = r + n
      OBVIOUS
    <3>1. q * b \in Nat
      BY ONLY <1>2, b \in Nat \ {0}
    <3>2. w \in 0 .. b - 1 /\ Len(s) = q * b + w
      <4>1. Len(s) = Len(m) + n /\ Len(m) = q * b + r
        BY <1>2, <1>11
      <4> PICK v : v = q * b
        OBVIOUS
      <4>2. v \in Nat /\ Len(s) = (v + r) + n
        BY ONLY <3>1, <4>1, v = q * b
      <4>3. w \in 0 .. b - 1 /\ (v + r) + n = v + w
        BY ONLY <1>1, <1>2, <2>1, <4>2, w = r + n, b \in Nat \ {0}
      <4> QED
        BY ONLY <4>2, <4>3, v = q * b
    <3>3. Len(s) \in Nat /\ q \in Nat
      BY ONLY <1>2, <1>11
    <3>4. Len(s) % b = w
      BY ONLY <3>2, <3>3, b \in Nat \ {0}, DivisionIs
    <3> QED
      BY ONLY <3>4, w = r + n, l = Len(s) % b
  <2>6. a.held = l
    <3> PICK w : w = r + n
      OBVIOUS
    <3>1. w \in 0 .. b - 1 /\ w = 0 * b + w /\ w \in Nat
      BY ONLY <2>1, w = r + n, b \in Nat \ {0}
    <3>2. w % b = w
      BY ONLY <3>1, b \in Nat \ {0}, 0 \in Nat, DivisionIs
    <3> QED
      BY ONLY <1>10, <2>1, <2>5, <3>2, w = r + n
  <2>7. a.remaining = <<>>
    <3>1. Len(LeftOver(rest)) = Len(rest) % b /\ LeftOver(rest) \in Seq(Int)
      BY ONLY <1>5, b = BlockSize, LeftOverFacts DEF EndOf
    <3>2. Len(rest) = 0 /\ 0 = 0 * b + 0 /\ 0 \in 0 .. b - 1 /\ 0 \in Nat
      BY ONLY <2>2, b \in Nat \ {0}
    <3>3. 0 % b = 0
      BY ONLY <3>2, b \in Nat \ {0}, DivisionIs
    <3> QED
      BY ONLY <1>10, <3>1, <3>2, <3>3
  <2>8. Cut(a.context.state, s)
    <3> PICK t : t = c.state
      OBVIOUS
    <3>1. Cut(t, m) /\ (Len(m) % b) + Len(d) < b
      BY ONLY <1>1, <1>2, <1>7, <2>1, t = c.state, n = Len(d), r = Len(m) % b /\ q = Len(m) \div b,
              b \in Nat \ {0}
    <3>2. Cut(t, m \o d)
      BY ONLY <3>1, b \in Nat \ {0}, b = BlockSize, m \in Seq(Int), d \in Seq(Int), CutRest
    <3> QED
      BY ONLY <2>4, <3>2, t = c.state, s = m \o d
  <2>9. a.context \in [state : Seq(Block), bytes : Nat, buffer : Block]
    <3>1. first \o Chunks(rest) \in Seq(Block)
      BY ONLY <1>7, <1>10, <2>4
    <3>2. Len(m) + n \in Nat
      BY ONLY <1>1
    <3> QED
      BY ONLY <1>8, <1>10, <3>1, <3>2
  <2>10. ASSUME NEW i \in 1 .. l PROVE a.context.buffer[i] = s[Len(s) - l + i]
    <3>1. Len(s) - l = Len(m) - r /\ r <= Len(m)
      <4>1. q * b \in Nat
        BY ONLY <1>2, b \in Nat \ {0}
      <4> QED
        BY ONLY <1>1, <1>2, <1>11, <2>5, <4>1
    <3>2. CASE i <= r
      <4>1. i \in 1 .. r /\ Len(m) - r + i \in 1 .. Len(m)
        <5>1. i \in 1 .. r /\ r \in Nat
          BY ONLY <1>2, <2>1, <2>5, <3>2, i \in 1 .. l
        <5> QED
          BY ONLY <1>1, <3>1, <5>1
      <4>2. s[Len(m) - r + i] = m[Len(m) - r + i]
        BY ONLY <1>11, <4>1
      <4>3. filled[i] = m[Len(m) - r + i]
        BY ONLY <1>8, <4>1
      <4> QED
        BY ONLY <1>10, <3>1, <4>2, <4>3
    <3>3. CASE i > r
      <4> PICK j : j = i - r
        OBVIOUS
      <4>1. j \in 1 .. n /\ j \in 1 .. k /\ i = r + j /\ Len(s) - l + i = Len(m) + j
        <5>1. k = n /\ r \in Nat /\ i \in 1 .. r + n
          BY ONLY <1>2, <2>1, <2>5, i \in 1 .. l
        <5>2. j \in 1 .. n /\ i = r + j
          BY ONLY <1>1, <3>3, <5>1, j = i - r
        <5>3. Len(s) - l + i = Len(m) - r + (r + j)
          BY ONLY <3>1, <5>2
        <5>4. Len(m) - r + (r + j) = Len(m) + j
          BY ONLY <1>1, <5>1, <5>2
        <5> QED
          BY ONLY <5>1, <5>2, <5>3, <5>4
      <4>2. filled[r + j] = d[j]
        BY ONLY <1>4, <1>8, <4>1
      <4>3. s[Len(m) + j] = d[j]
        BY ONLY <1>11, <4>1
      <4> QED
        BY ONLY <1>10, <4>1, <4>2, <4>3
    <3> QED
      BY ONLY <1>2, <2>1, <2>5, <3>2, <3>3, i \in 1 .. l
  <2>11. /\ l \in Nat /\ a.held \in Nat /\ a.remaining \in Seq(Int)
         /\ a.held + Len(a.remaining) = l /\ Len(a.remaining) = 0
    <3>1. a.remaining \in Seq(Int) /\ Len(a.remaining) = 0
      BY ONLY <2>7
    <3> QED
      BY ONLY <2>1, <2>5, <2>6, <3>1
  <2>12. a.context.bytes = Len(s) /\ n < a.held
    BY ONLY <1>10, <1>11, <2>1, <2>5, <2>6
  <2>13. \A i \in 1 .. a.held : a.context.buffer[i] = s[Len(s) - l + i]
    BY ONLY <2>6, <2>10
  <2>15. l = Len(s) % BlockSize
    BY ONLY b = BlockSize, l = Len(s) % b
  <2>16. \A i \in 1 .. a.held : a.context.buffer[i] = s[Len(s) - (Len(s) % BlockSize) + i]
    BY ONLY <2>13, <2>15
  <2>17. EndOf(a.remaining, s)
    BY ONLY <2>11 DEF EndOf
  <2>18. a.held \in Nat /\ a.held + Len(a.remaining) = Len(s) % BlockSize
    BY ONLY <2>11, <2>15
  <2>19. a.held = 0 \/ (a.remaining = <<>> /\ n < a.held)
    BY ONLY <2>7, <2>12
  <2>20. a.context.bytes = Len(s)
    BY <2>12
  <2>21. Absorbs(a, s, n)
    BY ONLY <2>8, <2>9, <2>16, <2>17, <2>18, <2>19, <2>20 DEF Absorbs
  <2> QED
    BY ONLY <2>21, a = Absorbed(c, d), s = m \o d, n = Len(d)
<1>16. Absorbs(a, s, n)
  BY <1>13, <1>14, <1>15
<1> QED
  BY ONLY <1>16, a = Absorbed(c, d), s = m \o d, n = Len(d)

\* The bytes that fill no block are in the buffer for the next piece.
LEMMA KeptHolds ==
  ASSUME NEW a, NEW s \in Seq(Int), NEW n, Absorbs(a, s, n)
  PROVE  Kept(a) \in [state : Seq(Block), bytes : Nat, buffer : Block] /\ Holds(Kept(a), s)
<1> PICK b \in Nat \ {0} : b = BlockSize
  BY Md5Assumption DEF Md5Assumption
<1> PICK l, f, x, g : l = Len(s) % b /\ f = a.context.buffer /\ x = a.remaining /\ g = CopiedTo(f, 0, x)
  OBVIOUS
<1> PICK k : k = Kept(a)
  OBVIOUS
<1>1. l \in 0 .. b - 1
  <2>1. Len(s) \in Nat
    BY ONLY s \in Seq(Int)
  <2> QED
    BY ONLY <2>1, b \in Nat \ {0}, BlockFacts,
            l = Len(s) % b /\ f = a.context.buffer /\ x = a.remaining /\ g = CopiedTo(f, 0, x)
<1>2. /\ a.context \in [state : Seq(Block), bytes : Nat, buffer : Block]
      /\ a.context.bytes = Len(s) /\ Cut(a.context.state, s)
  BY ONLY Absorbs(a, s, n) DEF Absorbs
<1>3. /\ a.held \in Nat /\ EndOf(x, s) /\ a.held + Len(x) = l
      /\ a.held = 0 \/ x = <<>>
      /\ \A i \in 1 .. a.held : f[i] = s[Len(s) - l + i]
  BY ONLY Absorbs(a, s, n), b = BlockSize,
          l = Len(s) % b /\ f = a.context.buffer /\ x = a.remaining /\ g = CopiedTo(f, 0, x) DEF Absorbs
<1>4. x \in Seq(Int) /\ Len(x) \in Nat /\ \A i \in 1 .. Len(x) : x[i] = s[Len(s) - Len(x) + i]
  BY ONLY <1>3 DEF EndOf
<1>5. f \in Block
  BY ONLY <1>2, l = Len(s) % b /\ f = a.context.buffer /\ x = a.remaining /\ g = CopiedTo(f, 0, x)
<1>6. g \in Block /\ \A i \in 1 .. Len(x) : g[i] = x[i]
  <2>1. 0 \in Nat /\ 0 + Len(x) <= b
    BY ONLY <1>1, <1>3, <1>4
  <2>2. /\ CopiedTo(f, 0, x) \in Block
        /\ \A i \in 1 .. Len(x) : CopiedTo(f, 0, x)[0 + i] = x[i]
    BY ONLY <1>4, <1>5, <2>1, b \in Nat \ {0}, b = BlockSize, CopiedFacts
  <2>3. \A i \in 1 .. Len(x) : 0 + i = i
    OBVIOUS
  <2> QED
    BY ONLY <2>2, <2>3, l = Len(s) % b /\ f = a.context.buffer /\ x = a.remaining /\ g = CopiedTo(f, 0, x)
<1>7. ASSUME NEW i \in 1 .. l PROVE g[i] = s[Len(s) - l + i]
  <2>1. CASE a.held = 0
    <3>1. Len(x) = l
      BY ONLY <1>1, <1>3, <1>4, <2>1
    <3> QED
      BY ONLY <1>4, <1>6, <3>1, i \in 1 .. l
  <2>2. CASE a.held # 0
    <3>1. x = <<>> /\ a.held = l
      <4>1. x = <<>>
        BY <1>3, <2>2
      <4>2. Len(x) = 0
        BY ONLY <4>1
      <4> QED
        BY ONLY <1>1, <1>3, <4>1, <4>2
    <3>2. DOMAIN f = 1 .. b /\ i \in 1 .. b
      BY ONLY <1>1, <1>5, b = BlockSize, i \in 1 .. l, b \in Nat \ {0} DEF Block
    <3>3. i - 0 \notin DOMAIN x
      BY ONLY <3>1
    <3>4. g[i] = f[i]
      BY ONLY <3>2, <3>3, l = Len(s) % b /\ f = a.context.buffer /\ x = a.remaining /\ g = CopiedTo(f, 0, x)
      DEF CopiedTo
    <3> QED
      BY ONLY <1>3, <3>1, <3>4, i \in 1 .. l
  <2> QED
    BY <2>1, <2>2
<1>8. k = [a.context EXCEPT !.buffer = g]
  BY ONLY k = Kept(a), l = Len(s) % b /\ f = a.context.buffer /\ x = a.remaining /\ g = CopiedTo(f, 0,
          x) DEF Kept
<1>9. /\ k \in [state : Seq(Block), bytes : Nat, buffer : Block]
      /\ k.bytes = a.context.bytes /\ k.state = a.context.state /\ k.buffer = g
  BY ONLY <1>2, <1>6, <1>8
<1>10. Holds(k, s)
  <2>1. l = Len(s) % BlockSize
    BY ONLY b = BlockSize, l = Len(s) % b /\ f = a.context.buffer /\ x = a.remaining /\ g = CopiedTo(f, 0, x)
  <2> QED
    BY ONLY <1>2, <1>6, <1>7, <1>9, <2>1 DEF Holds
<1> QED
  BY ONLY <1>9, <1>10, k = Kept(a)

\* A sequence made of one and another, by its elements.
Follows(v, s, x) ==
  /\ v \in Seq(Int) /\ Len(v) = Len(s) + Len(x)
  /\ \A i \in 1 .. Len(s) : v[i] = s[i]
  /\ \A i \in 1 .. Len(x) : v[Len(s) + i] = x[i]

LEMMA JoinedBytes == ASSUME NEW s \in Seq(Int), NEW x \in Seq(Int) PROVE Follows(s \o x, s, x)
BY Joined DEF Follows

\* The data end with a mark and zeros, and then the length.
Marked(q, y, z) ==
  /\ q \in Seq(Int) /\ Len(q) = Len(y) + 1 + z
  /\ \A i \in 1 .. Len(y) : q[i] = y[i]
  /\ q[Len(y) + 1] = Mark
  /\ \A i \in Len(y) + 2 .. Len(y) + 1 + z : q[i] = Zero

Ended(v, y, z, n) ==
  /\ v \in Seq(Int) /\ Len(v) = Len(y) + 1 + z + LengthSize
  /\ \A i \in 1 .. Len(y) : v[i] = y[i]
  /\ v[Len(y) + 1] = Mark
  /\ \A i \in Len(y) + 2 .. Len(y) + 1 + z : v[i] = Zero
  /\ \A i \in Len(y) + 2 + z .. Len(v) : v[i] = -2 - n

LEMMA LengthFacts ==
  ASSUME NEW n \in Nat
  PROVE  /\ LengthBytes(n) \in Seq(Int) /\ Len(LengthBytes(n)) = LengthSize
         /\ \A i \in 1 .. LengthSize : LengthBytes(n)[i] = -2 - n
BY Md5Assumption DEF Md5Assumption, LengthBytes

LEMMA ZerosFacts ==
  ASSUME NEW z \in Nat
  PROVE  /\ Zeros(z) \in Seq(Int) /\ Len(Zeros(z)) = z
         /\ \A i \in 1 .. z : Zeros(z)[i] = Zero
BY DEF Zeros, Zero

LEMMA MarkFacts ==
  ASSUME NEW y \in Seq(Int), NEW z \in Nat
  PROVE  Marked(y \o <<Mark>> \o Zeros(z), y, z)
<1> PICK l : l = Len(y)
  OBVIOUS
<1>1. l \in Nat
  BY ONLY y \in Seq(Int), l = Len(y)
<1> PICK m, o : m = <<Mark>> /\ o = Zeros(z)
  OBVIOUS
<1>2. m \in Seq(Int) /\ Len(m) = 1 /\ m[1] = Mark
  BY ONLY m = <<Mark>> /\ o = Zeros(z) DEF Mark
<1>3. o \in Seq(Int) /\ Len(o) = z /\ \A i \in 1 .. z : o[i] = Zero
  BY ONLY z \in Nat, m = <<Mark>> /\ o = Zeros(z), ZerosFacts
<1> PICK p, q : p = y \o m /\ q = p \o o
  OBVIOUS
<1>5. /\ p \in Seq(Int) /\ Len(p) = l + 1 /\ p[l + 1] = Mark
      /\ \A i \in 1 .. l : p[i] = y[i]
  <2>1. Follows(p, y, m)
    BY ONLY <1>2, y \in Seq(Int), p = y \o m /\ q = p \o o, JoinedBytes
  <2>2. p \in Seq(Int) /\ Len(p) = l + 1 /\ \A i \in 1 .. l : p[i] = y[i]
    BY ONLY <1>1, <1>2, <2>1, l = Len(y) DEF Follows
  <2>3. p[l + 1] = m[1]
    <3>1. 1 \in 1 .. Len(m)
      BY ONLY <1>2
    <3> QED
      BY ONLY <2>1, <3>1, l = Len(y) DEF Follows
  <2> QED
    BY ONLY <1>2, <2>2, <2>3
<1>6. /\ q \in Seq(Int) /\ Len(q) = l + 1 + z
      /\ \A i \in 1 .. l + 1 : q[i] = p[i]
      /\ \A i \in l + 2 .. l + 1 + z : q[i] = Zero
  <2>0. Follows(q, p, o)
    BY ONLY <1>3, <1>5, p = y \o m /\ q = p \o o, JoinedBytes
  <2>1. q \in Seq(Int) /\ Len(q) = Len(p) + Len(o)
    BY ONLY <2>0 DEF Follows
  <2>2. \A i \in 1 .. Len(p) : q[i] = p[i]
    BY ONLY <2>0 DEF Follows
  <2>3. \A i \in 1 .. Len(o) : q[Len(p) + i] = o[i]
    BY ONLY <2>0 DEF Follows
  <2>4. ASSUME NEW i \in l + 2 .. l + 1 + z PROVE q[i] = Zero
    <3> PICK j : j = i - (l + 1)
      OBVIOUS
    <3>1. j \in 1 .. z /\ i = l + 1 + j
      BY ONLY <1>1, z \in Nat, i \in l + 2 .. l + 1 + z, j = i - (l + 1)
    <3> QED
      BY ONLY <1>3, <1>5, <2>3, <3>1
  <2> QED
    BY ONLY <1>1, <1>3, <1>5, <2>1, <2>2, <2>4, z \in Nat
<1>7. Marked(q, y, z)
  BY ONLY <1>1, <1>5, <1>6, l = Len(y), z \in Nat DEF Marked
<1> QED
  BY ONLY <1>7, p = y \o m /\ q = p \o o, m = <<Mark>> /\ o = Zeros(z)

LEMMA EndFacts ==
  ASSUME NEW y \in Seq(Int), NEW z \in Nat, NEW n \in Nat
  PROVE  Ended(y \o <<Mark>> \o Zeros(z) \o LengthBytes(n), y, z, n)
<1> PICK k, l : k = LengthSize /\ l = Len(y)
  OBVIOUS
<1>1. k \in Nat /\ l \in Nat
  BY ONLY y \in Seq(Int), k = LengthSize /\ l = Len(y), Md5Assumption DEF Md5Assumption
<1> PICK q, e, v : q = y \o <<Mark>> \o Zeros(z) /\ e = LengthBytes(n) /\ v = q \o e
  OBVIOUS
<1>4. e \in Seq(Int) /\ Len(e) = k /\ \A i \in 1 .. k : e[i] = -2 - n
  BY ONLY n \in Nat, k = LengthSize /\ l = Len(y), LengthFacts,
          q = y \o <<Mark>> \o Zeros(z) /\ e = LengthBytes(n) /\ v = q \o e
<1>5. Marked(q, y, z)
  BY ONLY y \in Seq(Int), z \in Nat, MarkFacts,
          q = y \o <<Mark>> \o Zeros(z) /\ e = LengthBytes(n) /\ v = q \o e
<1>6. /\ q \in Seq(Int) /\ Len(q) = l + 1 + z
      /\ \A i \in 1 .. l : q[i] = y[i]
      /\ q[l + 1] = Mark
      /\ \A i \in l + 2 .. l + 1 + z : q[i] = Zero
  BY ONLY <1>5, k = LengthSize /\ l = Len(y) DEF Marked
<1>8. /\ v \in Seq(Int) /\ Len(v) = Len(q) + Len(e)
      /\ \A i \in 1 .. Len(q) : v[i] = q[i]
      /\ \A i \in 1 .. Len(e) : v[Len(q) + i] = e[i]
  <2>1. Follows(v, q, e)
    BY ONLY <1>4, <1>6, JoinedBytes, q = y \o <<Mark>> \o Zeros(z) /\ e = LengthBytes(n) /\ v = q \o e
  <2> QED
    BY ONLY <2>1 DEF Follows
<1>9. v \in Seq(Int) /\ Len(v) = l + 1 + z + k
  BY ONLY <1>1, <1>4, <1>6, <1>8, z \in Nat
<1>10. \A i \in 1 .. l : v[i] = y[i]
  BY ONLY <1>1, <1>6, <1>8, z \in Nat
<1>11. v[l + 1] = Mark
  BY ONLY <1>1, <1>6, <1>8, z \in Nat
<1>12. ASSUME NEW i \in l + 2 .. l + 1 + z PROVE v[i] = Zero
  <2>1. i \in 1 .. Len(q)
    BY ONLY <1>1, <1>6, z \in Nat, i \in l + 2 .. l + 1 + z
  <2> QED
    BY ONLY <1>6, <1>8, <2>1, i \in l + 2 .. l + 1 + z
<1>13. ASSUME NEW i \in l + 2 + z .. Len(v) PROVE v[i] = -2 - n
  <2> PICK j : j = i - (l + 1 + z)
    OBVIOUS
  <2>1. j \in 1 .. k /\ i = l + 1 + z + j
    BY ONLY <1>1, <1>9, z \in Nat, i \in l + 2 + z .. Len(v), j = i - (l + 1 + z)
  <2> QED
    BY ONLY <1>4, <1>6, <1>8, <2>1
<1>14. Ended(v, y, z, n)
  BY ONLY <1>9, <1>10, <1>11, <1>12, <1>13, k = LengthSize /\ l = Len(y) DEF Ended
<1> QED
  BY ONLY <1>14, q = y \o <<Mark>> \o Zeros(z) /\ e = LengthBytes(n) /\ v = q \o e

\* The last bytes of a block make room for the length.
LengthPut(w, p, n) ==
  /\ w \in Seq(Int) /\ Len(w) = BlockSize
  /\ \A i \in 1 .. BlockSize - LengthSize : w[i] = p[i]
  /\ \A i \in BlockSize - LengthSize + 1 .. BlockSize : w[i] = -2 - n

LEMMA WithLengthFacts ==
  ASSUME NEW p \in Seq(Int), Len(p) = BlockSize, NEW n \in Nat
  PROVE  LengthPut(WithLength(p, n), p, n)
<1> PICK t : t = BlockSize - LengthSize
  OBVIOUS
<1> PICK b, k : b = BlockSize /\ k = LengthSize
  OBVIOUS
<1>1. b \in Nat /\ k \in Nat /\ t \in Nat /\ t + k = b
  BY ONLY t = BlockSize - LengthSize, b = BlockSize /\ k = LengthSize, Md5Assumption DEF Md5Assumption
<1> PICK s, e, w : s = SubSeq(p, 1, t) /\ e = LengthBytes(n) /\ w = s \o e
  OBVIOUS
<1>2. s \in Seq(Int) /\ Len(s) = t /\ \A i \in 1 .. t : s[i] = p[i]
  <2>1. 0 \in Nat /\ 0 + t <= Len(p) /\ s = SubSeq(p, 0 + 1, 0 + t)
    BY ONLY <1>1, Len(p) = BlockSize, b = BlockSize /\ k = LengthSize,
            s = SubSeq(p, 1, t) /\ e = LengthBytes(n) /\ w = s \o e
  <2>2. s \in Seq(Int) /\ Len(s) = t /\ \A i \in 1 .. t : s[i] = p[0 + i]
    BY ONLY <1>1, <2>1, p \in Seq(Int), PartOf
  <2> QED
    BY ONLY <2>1, <2>2
<1>3. e \in Seq(Int) /\ Len(e) = k /\ \A i \in 1 .. k : e[i] = -2 - n
  BY ONLY n \in Nat, b = BlockSize /\ k = LengthSize, LengthFacts,
          s = SubSeq(p, 1, t) /\ e = LengthBytes(n) /\ w = s \o e
<1>4. Follows(w, s, e)
  BY ONLY <1>2, <1>3, JoinedBytes, s = SubSeq(p, 1, t) /\ e = LengthBytes(n) /\ w = s \o e
<1>5. /\ w \in Seq(Int) /\ Len(w) = b
      /\ \A i \in 1 .. t : w[i] = p[i]
      /\ \A i \in 1 .. k : w[t + i] = -2 - n
  BY ONLY <1>1, <1>2, <1>3, <1>4 DEF Follows
<1>6. ASSUME NEW i \in t + 1 .. b PROVE w[i] = -2 - n
  <2> PICK j : j = i - t
    OBVIOUS
  <2>1. j \in 1 .. k /\ i = t + j
    BY ONLY <1>1, i \in t + 1 .. b, j = i - t
  <2> QED
    BY ONLY <1>5, <2>1
<1>7. w = WithLength(p, n)
  BY ONLY t = BlockSize - LengthSize, s = SubSeq(p, 1, t) /\ e = LengthBytes(n) /\ w = s \o e DEF WithLength
<1> QED
  BY ONLY <1>5, <1>6, <1>7, t = BlockSize - LengthSize, b = BlockSize /\ k = LengthSize DEF LengthPut

LEMMA SameZeros ==
  ASSUME NEW b \in Nat \ {0}, NEW n \in Nat, NEW x \in 0 .. b - 1, NEW z \in 0 .. b - 1,
         (n + x) % b = 0, (n + z) % b = 0
  PROVE  x = z
<1> PICK i, j : i = n + x /\ j = n + z
  OBVIOUS
<1>1. i \in Nat /\ j \in Nat
  BY ONLY n \in Nat, x \in 0 .. b - 1, z \in 0 .. b - 1, i = n + x /\ j = n + z
<1> PICK u, v : u = i \div b /\ v = j \div b
  OBVIOUS
<1>2. u \in Nat /\ v \in Nat /\ i = u * b + (i % b) /\ j = v * b + (j % b)
  BY ONLY <1>1, b \in Nat \ {0}, u = i \div b /\ v = j \div b, BlockFacts
<1>3. i = u * b /\ j = v * b /\ u * b \in Nat /\ v * b \in Nat
  <2>1. u * b \in Nat /\ v * b \in Nat
    BY ONLY <1>2, b \in Nat \ {0}
  <2>2. i % b = 0 /\ j % b = 0
    BY ONLY (n + x) % b = 0, (n + z) % b = 0, i = n + x /\ j = n + z
  <2> QED
    BY ONLY <1>2, <2>1, <2>2
<1>4. CASE u = v
  <2>1. n + x = n + z
    BY ONLY <1>3, <1>4, i = n + x /\ j = n + z
  <2> QED
    BY ONLY <2>1, n \in Nat, x \in 0 .. b - 1, z \in 0 .. b - 1
<1>5. CASE u < v
  <2>1. u * b + b <= v * b
    BY ONLY <1>2, <1>5, b \in Nat \ {0}, SMT
  <2>2. n + x + b <= n + z
    BY ONLY <1>3, <2>1, i = n + x /\ j = n + z
  <2> QED
    BY ONLY <2>2, n \in Nat, x \in 0 .. b - 1, z \in 0 .. b - 1, b \in Nat \ {0}
<1>6. CASE v < u
  <2>1. v * b + b <= u * b
    BY ONLY <1>2, <1>6, b \in Nat \ {0}, SMT
  <2>2. n + z + b <= n + x
    BY ONLY <1>3, <2>1, i = n + x /\ j = n + z
  <2> QED
    BY ONLY <2>2, n \in Nat, x \in 0 .. b - 1, z \in 0 .. b - 1, b \in Nat \ {0}
<1> QED
  BY ONLY <1>2, <1>4, <1>5, <1>6

\* As many zeros as fill the block that has room for the length.
NeedsZeros(n, z) ==
  (CHOOSE x \in 0 .. BlockSize - 1 : (n + 1 + x + LengthSize) % BlockSize = 0) = z

LEMMA ZerosChosen ==
  ASSUME NEW b \in Nat \ {0}, b = BlockSize, NEW k, k = LengthSize, NEW n \in Nat, NEW l, l = n % b,
         NEW z, z = IF l < b - k THEN b - k - 1 - l ELSE b + b - k - 1 - l
  PROVE  z \in 0 .. b - 1 /\ NeedsZeros(n, z)
<1> PICK q : q = n \div b
  OBVIOUS
<1>1. q \in Nat /\ l \in 0 .. b - 1 /\ n = q * b + l
  BY ONLY b \in Nat \ {0}, n \in Nat, l = n % b, q = n \div b, BlockFacts
<1>2. k \in 1 .. b - 1
  BY ONLY b = BlockSize, k = LengthSize, Md5Assumption DEF Md5Assumption
<1>3. z \in 0 .. b - 1 /\ (l + 1 + z + k = b \/ l + 1 + z + k = b + b)
  BY ONLY <1>1, <1>2, b \in Nat \ {0}, z = IF l < b - k THEN b - k - 1 - l ELSE b + b - k - 1 - l
<1>4. (n + 1 + z + k) % b = 0
  <2> PICK w, i : w = q * b /\ i = n + 1 + z + k
    OBVIOUS
  <2>1. w \in Nat /\ (q + 1) * b = w + b /\ (q + 2) * b = w + b + b
    BY ONLY <1>1, b \in Nat \ {0}, w = q * b /\ i = n + 1 + z + k
  <2>2. n = w + l
    BY ONLY <1>1, w = q * b /\ i = n + 1 + z + k
  <2>3. i = w + (l + 1 + z + k)
    BY ONLY <1>1, <1>2, <1>3, <2>1, <2>2, w = q * b /\ i = n + 1 + z + k
  <2>4. 0 \in 0 .. b - 1 /\ q + 1 \in Nat /\ q + 2 \in Nat
    BY ONLY <1>1, b \in Nat \ {0}
  <2>5. CASE l + 1 + z + k = b
    <3>1. i \in Nat /\ i = w + b
      BY ONLY <2>1, <2>3, <2>5, b \in Nat \ {0}
    <3>2. i = (q + 1) * b + 0
      BY ONLY <2>1, <3>1, b \in Nat \ {0}
    <3>3. i % b = 0
      BY ONLY <2>4, <3>1, <3>2, b \in Nat \ {0}, DivisionIs
    <3> QED
      BY ONLY <3>3, w = q * b /\ i = n + 1 + z + k
  <2>6. CASE l + 1 + z + k = b + b
    <3>1. i \in Nat /\ i = w + b + b
      BY ONLY <2>1, <2>3, <2>6, b \in Nat \ {0}
    <3>2. i = (q + 2) * b + 0
      BY ONLY <2>1, <3>1, b \in Nat \ {0}
    <3>3. i % b = 0
      BY ONLY <2>4, <3>1, <3>2, b \in Nat \ {0}, DivisionIs
    <3> QED
      BY ONLY <3>3, w = q * b /\ i = n + 1 + z + k
  <2> QED
    BY ONLY <1>3, <2>5, <2>6
<1>5. ASSUME NEW x \in 0 .. b - 1, (n + 1 + x + k) % b = 0 PROVE x = z
  <2> PICK m : m = n + 1 + k
    OBVIOUS
  <2>1. m \in Nat /\ n + 1 + x + k = m + x /\ n + 1 + z + k = m + z
    BY ONLY <1>2, <1>3, n \in Nat, m = n + 1 + k, x \in 0 .. b - 1, b \in Nat \ {0}
  <2>2. (m + x) % b = 0 /\ (m + z) % b = 0
    BY ONLY <1>4, <1>5, <2>1
  <2> QED
    BY ONLY <1>3, <2>1, <2>2, b \in Nat \ {0}, x \in 0 .. b - 1, SameZeros
<1>6. (CHOOSE x \in 0 .. b - 1 : (n + 1 + x + k) % b = 0) = z
  BY ONLY <1>3, <1>4, <1>5
<1> QED
  BY ONLY <1>3, <1>6, b = BlockSize, k = LengthSize DEF NeedsZeros

\* The length fits behind the data, or goes to a block of its own.
FitsBehind(y, n, b, t, l) ==
  WithLength(y \o <<Mark>> \o Zeros(b - l - 1), n) = y \o <<Mark>> \o Zeros(t - 1 - l) \o LengthBytes(n)

TakesItsOwn(y, n, b, t, l) ==
  (y \o <<Mark>> \o Zeros(b - l - 1)) \o WithLength(Zeros(b), n)
    = y \o <<Mark>> \o Zeros(b + t - 1 - l) \o LengthBytes(n)

LEMMA OneBlock ==
  ASSUME NEW y \in Seq(Int), NEW n \in Nat, NEW b \in Nat \ {0}, b = BlockSize, NEW t, t = b - LengthSize,
         NEW l, l = Len(y), l < t
  PROVE  FitsBehind(y, n, b, t, l)
<1> PICK z, k : z = t - 1 - l /\ k = LengthSize
  OBVIOUS
<1>1. l \in Nat /\ z \in Nat /\ t \in 1 .. b - 1 /\ b - l - 1 \in Nat /\ l + 1 + z = t /\ t + k = b
  <2>1. k \in 1 .. b - 1 /\ l \in Nat /\ k = LengthSize
    BY ONLY y \in Seq(Int), l = Len(y), b = BlockSize, z = t - 1 - l /\ k = LengthSize, Md5Assumption
    DEF Md5Assumption
  <2> QED
    BY ONLY <2>1, z = t - 1 - l /\ k = LengthSize, l < t, t = b - LengthSize, b \in Nat \ {0}
<1> PICK p, w, v : /\ p = y \o <<Mark>> \o Zeros(b - l - 1) /\ w = WithLength(p, n)
                   /\ v = y \o <<Mark>> \o Zeros(z) \o LengthBytes(n)
  OBVIOUS
<1>2. Marked(p, y, b - l - 1)
  BY ONLY <1>1, y \in Seq(Int), MarkFacts, p = y \o <<Mark>> \o Zeros(b - l - 1) /\ w = WithLength(p, n)
                   /\ v = y \o <<Mark>> \o Zeros(z) \o LengthBytes(n)
<1>3. /\ p \in Seq(Int) /\ Len(p) = b
      /\ \A i \in 1 .. l : p[i] = y[i]
      /\ p[l + 1] = Mark
      /\ \A i \in l + 2 .. b : p[i] = Zero
  <2>1. l + 1 + (b - l - 1) = b
    BY ONLY <1>1, b \in Nat \ {0}
  <2> QED
    BY ONLY <1>2, <2>1, l = Len(y) DEF Marked
<1>4. /\ w \in Seq(Int) /\ Len(w) = b
      /\ \A i \in 1 .. t : w[i] = p[i]
      /\ \A i \in t + 1 .. b : w[i] = -2 - n
  <2>1. LengthPut(w, p, n)
    BY ONLY <1>3, b = BlockSize, n \in Nat, WithLengthFacts,
            /\ p = y \o <<Mark>> \o Zeros(b - l - 1) /\ w = WithLength(p, n)
            /\ v = y \o <<Mark>> \o Zeros(z) \o LengthBytes(n)
  <2> QED
    BY ONLY <2>1, b = BlockSize, t = b - LengthSize DEF LengthPut
<1>5. Ended(v, y, z, n)
  BY ONLY <1>1, y \in Seq(Int), n \in Nat, EndFacts,
          /\ p = y \o <<Mark>> \o Zeros(b - l - 1) /\ w = WithLength(p, n)
          /\ v = y \o <<Mark>> \o Zeros(z) \o LengthBytes(n)
<1>6. /\ v \in Seq(Int) /\ Len(v) = b
      /\ \A i \in 1 .. l : v[i] = y[i]
      /\ v[l + 1] = Mark
      /\ \A i \in l + 2 .. t : v[i] = Zero
      /\ \A i \in t + 1 .. b : v[i] = -2 - n
  <2>1. l + 2 + z = t + 1
    BY ONLY <1>1
  <2>2. Len(v) = b
    BY ONLY <1>1, <1>5, l = Len(y), z = t - 1 - l /\ k = LengthSize DEF Ended
  <2> QED
    BY ONLY <1>1, <1>5, <2>1, <2>2, l = Len(y) DEF Ended
<1>7. ASSUME NEW i \in 1 .. b PROVE w[i] = v[i]
  <2>1. CASE i > t
    <3>1. i \in t + 1 .. b
      BY ONLY <1>1, <2>1, i \in 1 .. b
    <3> QED
      BY ONLY <1>4, <1>6, <3>1
  <2>2. CASE i \in 1 .. l
    <3>1. i \in 1 .. t
      BY ONLY <1>1, <2>2
    <3> QED
      BY ONLY <1>3, <1>4, <1>6, <2>2, <3>1
  <2>3. CASE i = l + 1
    <3>1. i \in 1 .. t
      BY ONLY <1>1, <2>3
    <3> QED
      BY ONLY <1>3, <1>4, <1>6, <2>3, <3>1
  <2>4. CASE i \in l + 2 .. t
    <3>1. i \in 1 .. t /\ i \in l + 2 .. b
      BY ONLY <1>1, <2>4, b \in Nat \ {0}
    <3> QED
      BY ONLY <1>3, <1>4, <1>6, <2>4, <3>1
  <2>5. i > t \/ i \in 1 .. l \/ i = l + 1 \/ i \in l + 2 .. t
    BY ONLY <1>1, i \in 1 .. b
  <2> QED
    BY ONLY <2>1, <2>2, <2>3, <2>4, <2>5
<1>8. w = v
  BY ONLY <1>4, <1>6, <1>7, SeqEqual
<1> QED
  BY ONLY <1>8, z = t - 1 - l /\ k = LengthSize,
          /\ p = y \o <<Mark>> \o Zeros(b - l - 1) /\ w = WithLength(p, n)
                   /\ v = y \o <<Mark>> \o Zeros(z) \o LengthBytes(n) DEF FitsBehind

LEMMA TwoBlocks ==
  ASSUME NEW y \in Seq(Int), NEW n \in Nat, NEW b \in Nat \ {0}, b = BlockSize, NEW t, t = b - LengthSize,
         NEW l, l = Len(y), l < b, ~(l < t)
  PROVE  TakesItsOwn(y, n, b, t, l)
<1> PICK z, k : z = b + t - 1 - l /\ k = LengthSize
  OBVIOUS
<1>1. l \in Nat /\ z \in Nat /\ t \in 1 .. b - 1 /\ b - l - 1 \in Nat /\ l + 1 + z = b + t /\ t + k = b
  <2>1. k \in 1 .. b - 1 /\ l \in Nat /\ k = LengthSize
    BY ONLY y \in Seq(Int), l = Len(y), b = BlockSize, z = b + t - 1 - l /\ k = LengthSize, Md5Assumption
    DEF Md5Assumption
  <2> QED
    BY ONLY <2>1, z = b + t - 1 - l /\ k = LengthSize, l < b, ~(l < t), t = b - LengthSize, b \in Nat \ {0}
<1> PICK p, o, w, u, v : /\ p = y \o <<Mark>> \o Zeros(b - l - 1) /\ o = Zeros(b) /\ w = WithLength(o, n)
                         /\ u = p \o w /\ v = y \o <<Mark>> \o Zeros(z) \o LengthBytes(n)
  OBVIOUS
<1>2. Marked(p, y, b - l - 1)
  BY ONLY <1>1, y \in Seq(Int), MarkFacts, 
          /\ p = y \o <<Mark>> \o Zeros(b - l - 1) /\ o = Zeros(b) /\ w = WithLength(o, n)
          /\ u = p \o w /\ v = y \o <<Mark>> \o Zeros(z) \o LengthBytes(n)
<1>3. /\ p \in Seq(Int) /\ Len(p) = b
      /\ \A i \in 1 .. l : p[i] = y[i]
      /\ p[l + 1] = Mark
      /\ \A i \in l + 2 .. b : p[i] = Zero
  <2>1. l + 1 + (b - l - 1) = b
    BY ONLY <1>1, b \in Nat \ {0}
  <2> QED
    BY ONLY <1>2, <2>1, l = Len(y) DEF Marked
<1>4. o \in Seq(Int) /\ Len(o) = b /\ \A i \in 1 .. b : o[i] = Zero
  BY ONLY b \in Nat \ {0}, ZerosFacts,
          /\ p = y \o <<Mark>> \o Zeros(b - l - 1) /\ o = Zeros(b) /\ w = WithLength(o, n)
          /\ u = p \o w /\ v = y \o <<Mark>> \o Zeros(z) \o LengthBytes(n)
<1>5. /\ w \in Seq(Int) /\ Len(w) = b
      /\ \A i \in 1 .. t : w[i] = Zero
      /\ \A i \in t + 1 .. b : w[i] = -2 - n
  <2>1. /\ w \in Seq(Int) /\ Len(w) = b
        /\ \A i \in 1 .. t : w[i] = o[i]
        /\ \A i \in t + 1 .. b : w[i] = -2 - n
    <3>1. LengthPut(w, o, n)
      BY ONLY <1>4, b = BlockSize, n \in Nat, WithLengthFacts,
              /\ p = y \o <<Mark>> \o Zeros(b - l - 1) /\ o = Zeros(b) /\ w = WithLength(o, n)
              /\ u = p \o w /\ v = y \o <<Mark>> \o Zeros(z) \o LengthBytes(n)
    <3> QED
      BY ONLY <3>1, b = BlockSize, t = b - LengthSize DEF LengthPut
  <2> QED
    BY ONLY <1>1, <1>4, <2>1
<1>6. Follows(u, p, w)
  BY ONLY <1>3, <1>5, JoinedBytes,
          /\ p = y \o <<Mark>> \o Zeros(b - l - 1) /\ o = Zeros(b) /\ w = WithLength(o, n)
          /\ u = p \o w /\ v = y \o <<Mark>> \o Zeros(z) \o LengthBytes(n)
<1>7. /\ u \in Seq(Int) /\ Len(u) = b + b
      /\ \A i \in 1 .. b : u[i] = p[i]
      /\ \A i \in 1 .. b : u[b + i] = w[i]
  BY ONLY <1>3, <1>5, <1>6 DEF Follows
<1>8. Ended(v, y, z, n)
  BY ONLY <1>1, y \in Seq(Int), n \in Nat, EndFacts,
          /\ p = y \o <<Mark>> \o Zeros(b - l - 1) /\ o = Zeros(b) /\ w = WithLength(o, n)
          /\ u = p \o w /\ v = y \o <<Mark>> \o Zeros(z) \o LengthBytes(n)
<1>9. /\ v \in Seq(Int) /\ Len(v) = b + b
      /\ \A i \in 1 .. l : v[i] = y[i]
      /\ v[l + 1] = Mark
      /\ \A i \in l + 2 .. b + t : v[i] = Zero
      /\ \A i \in b + t + 1 .. b + b : v[i] = -2 - n
  <2>1. l + 2 + z = b + t + 1 /\ b + t + k = b + b
    <3>0. l \in Nat /\ z \in Nat /\ t \in Nat /\ k \in Nat
      BY ONLY <1>1, z = b + t - 1 - l /\ k = LengthSize, Md5Assumption DEF Md5Assumption
    <3>1. l + 2 + z = (l + 1 + z) + 1 /\ b + t + k = b + (t + k)
      BY ONLY <3>0, b \in Nat \ {0}
    <3> QED
      BY ONLY <1>1, <3>1
  <2>2. Len(v) = b + b
    BY ONLY <1>1, <1>8, <2>1, l = Len(y), z = b + t - 1 - l /\ k = LengthSize DEF Ended
  <2> QED
    BY ONLY <1>1, <1>8, <2>1, <2>2, l = Len(y) DEF Ended
<1>10. ASSUME NEW i \in 1 .. b PROVE u[i] = v[i]
  <2>1. CASE i \in 1 .. l
    BY ONLY <1>3, <1>7, <1>9, <2>1, i \in 1 .. b
  <2>2. CASE i = l + 1
    BY ONLY <1>3, <1>7, <1>9, <2>2, i \in 1 .. b
  <2>3. CASE i \in l + 2 .. b
    <3>1. i \in l + 2 .. b + t
      BY ONLY <1>1, <2>3, b \in Nat \ {0}
    <3> QED
      BY ONLY <1>3, <1>7, <1>9, <2>3, <3>1, i \in 1 .. b
  <2>4. i \in 1 .. l \/ i = l + 1 \/ i \in l + 2 .. b
    BY ONLY <1>1, i \in 1 .. b
  <2> QED
    BY ONLY <2>1, <2>2, <2>3, <2>4
<1>11. ASSUME NEW i \in 1 .. b PROVE u[b + i] = v[b + i]
  <2>1. CASE i <= t
    <3>1. i \in 1 .. t /\ b + i \in l + 2 .. b + t
      BY ONLY <1>1, <2>1, i \in 1 .. b, b \in Nat \ {0}
    <3> QED
      BY ONLY <1>5, <1>7, <1>9, <3>1, i \in 1 .. b
  <2>2. CASE i > t
    <3>1. i \in t + 1 .. b /\ b + i \in b + t + 1 .. b + b
      BY ONLY <1>1, <2>2, i \in 1 .. b, b \in Nat \ {0}
    <3> QED
      BY ONLY <1>5, <1>7, <1>9, <3>1, i \in 1 .. b
  <2> QED
    BY ONLY <1>1, <2>1, <2>2, i \in 1 .. b
<1>12. ASSUME NEW i \in 1 .. b + b PROVE u[i] = v[i]
  <2>1. CASE i <= b
    <3>1. i \in 1 .. b
      BY ONLY <2>1, i \in 1 .. b + b, b \in Nat \ {0}
    <3> QED
      BY ONLY <1>10, <3>1
  <2>2. CASE i > b
    <3> PICK j : j = i - b
      OBVIOUS
    <3>1. j \in 1 .. b /\ i = b + j
      BY ONLY <2>2, i \in 1 .. b + b, b \in Nat \ {0}, j = i - b
    <3> QED
      BY ONLY <1>11, <3>1
  <2> QED
    BY ONLY <2>1, <2>2, i \in 1 .. b + b, b \in Nat \ {0}
<1>13. u = v
  BY ONLY <1>7, <1>9, <1>12, SeqEqual
<1> QED
  BY ONLY <1>13, z = b + t - 1 - l /\ k = LengthSize,
          /\ p = y \o <<Mark>> \o Zeros(b - l - 1) /\ o = Zeros(b) /\ w = WithLength(o, n)
          /\ u = p \o w /\ v = y \o <<Mark>> \o Zeros(z) \o LengthBytes(n) DEF TakesItsOwn

LEMMA TwoTogether == ASSUME NEW p \in Block, NEW w \in Block PROVE <<p>> \o <<w>> = <<p, w>>
<1> PICK s, t, v : s = <<p>> /\ t = <<w>> /\ v = s \o t
  OBVIOUS
<1>1. s \in Seq(Block) /\ t \in Seq(Block) /\ Len(s) = 1 /\ Len(t) = 1 /\ s[1] = p /\ t[1] = w
  BY ONLY p \in Block, w \in Block, s = <<p>> /\ t = <<w>> /\ v = s \o t
<1>2. v \in Seq(Block) /\ Len(v) = 2 /\ v[1] = p /\ v[2] = w
  BY ONLY <1>1, s = <<p>> /\ t = <<w>> /\ v = s \o t
<1>3. <<p, w>> \in Seq(Block)
  BY ONLY p \in Block, w \in Block
<1>4. v = <<p, w>>
  BY ONLY <1>2, <1>3
<1> QED
  BY ONLY <1>4, s = <<p>> /\ t = <<w>> /\ v = s \o t

LEMMA NothingBefore == ASSUME NEW x \in Seq(Int) PROVE <<>> \o x = x
OBVIOUS

LEMMA NothingBehind == ASSUME NEW x \in Seq(Int) PROVE x \o <<>> = x
OBVIOUS

LEMMA CutJoined ==
  ASSUME NEW x \in Seq(Int), NEW y \in Seq(Int), NEW t, NEW u, Cut(t, x), Cut(u, y), Len(x) % BlockSize = 0
  PROVE  Cut(t \o u, x \o y)
<1> PICK b \in Nat \ {0} : b = BlockSize
  BY Md5Assumption DEF Md5Assumption
<1> PICK n, m : n = Len(x) \div b /\ m = Len(x)
  OBVIOUS
<1>1. m \in Nat
  BY ONLY x \in Seq(Int), n = Len(x) \div b /\ m = Len(x)
<1>2. n \in Nat /\ m = n * b + (m % b)
  BY ONLY <1>1, b \in Nat \ {0}, n = Len(x) \div b /\ m = Len(x), BlockFacts
<1>3. n * b \in Nat
  BY ONLY <1>2, b \in Nat \ {0}
<1>4. Len(x) = n * b
  BY ONLY <1>2, <1>3, n = Len(x) \div b /\ m = Len(x), Len(x) % BlockSize = 0, b = BlockSize
<1> QED
  BY ONLY <1>2, <1>4, x \in Seq(Int), y \in Seq(Int), Cut(t, x), Cut(u, y), b \in Nat \ {0},
          b = BlockSize, CutConcat

\* The whole blocks of a message are those of the part before its end.
LEMMA CutBefore ==
  ASSUME NEW s \in Seq(Int), NEW t, Cut(t, s), NEW y, EndOf(y, s), Len(y) = Len(s) % BlockSize
  PROVE  \E w \in Seq(Int) : s = w \o y /\ Cut(t, w) /\ Len(w) % BlockSize = 0
<1> PICK b \in Nat \ {0} : b = BlockSize
  BY Md5Assumption DEF Md5Assumption
<1> PICK l, q, m : l = Len(s) % b /\ q = Len(s) \div b /\ m = Len(s)
  OBVIOUS
<1>1. m \in Nat
  BY ONLY s \in Seq(Int), l = Len(s) % b /\ q = Len(s) \div b /\ m = Len(s)
<1>2. q \in Nat /\ l \in 0 .. b - 1 /\ m = q * b + l
  BY ONLY <1>1, b \in Nat \ {0}, l = Len(s) % b /\ q = Len(s) \div b /\ m = Len(s), BlockFacts
<1> PICK h : h = q * b
  OBVIOUS
<1>3. h \in Nat /\ m = h + l
  BY ONLY <1>2, b \in Nat \ {0}, h = q * b
<1> PICK w : w = SubSeq(s, 1, h)
  OBVIOUS
<1>4. w \in Seq(Int) /\ Len(w) = h /\ \A i \in 1 .. h : w[i] = s[i]
  <2>1. 0 \in Nat /\ 0 + h <= Len(s) /\ w = SubSeq(s, 0 + 1, 0 + h)
    BY ONLY <1>1, <1>2, <1>3, l = Len(s) % b /\ q = Len(s) \div b /\ m = Len(s), w = SubSeq(s, 1, h)
  <2>2. w \in Seq(Int) /\ Len(w) = h /\ \A i \in 1 .. h : w[i] = s[0 + i]
    BY ONLY <1>3, <2>1, s \in Seq(Int), PartOf
  <2> QED
    BY ONLY <2>2, <1>3
<1>5. y \in Seq(Int) /\ Len(y) = l /\ \A i \in 1 .. l : y[i] = s[h + i]
  <2>1. y \in Seq(Int) /\ Len(y) = l /\ \A i \in 1 .. l : y[i] = s[Len(s) - l + i]
    BY ONLY EndOf(y, s), Len(y) = Len(s) % BlockSize, b = BlockSize,
            l = Len(s) % b /\ q = Len(s) \div b /\ m = Len(s) DEF EndOf
  <2>2. Len(s) - l = h
    BY ONLY <1>2, <1>3, l = Len(s) % b /\ q = Len(s) \div b /\ m = Len(s), b \in Nat \ {0}
  <2> QED
    BY ONLY <2>1, <2>2
<1>6. s = w \o y
  <2> PICK v : v = w \o y
    OBVIOUS
  <2>1. Follows(v, w, y)
    BY ONLY <1>4, <1>5, v = w \o y, JoinedBytes
  <2>2. v \in Seq(Int) /\ Len(v) = m
    BY ONLY <1>3, <1>4, <1>5, <2>1 DEF Follows
  <2>3. ASSUME NEW i \in 1 .. m PROVE v[i] = s[i]
    <3>1. CASE i <= h
      <4>1. i \in 1 .. h
        BY ONLY <1>3, <3>1, i \in 1 .. m
      <4> QED
        BY ONLY <1>4, <2>1, <4>1 DEF Follows
    <3>2. CASE i > h
      <4> PICK j : j = i - h
        OBVIOUS
      <4>1. j \in 1 .. l /\ i = h + j
        BY ONLY <1>2, <1>3, <3>2, i \in 1 .. m, j = i - h, b \in Nat \ {0}
      <4>2. v[h + j] = y[j]
        BY ONLY <1>4, <1>5, <2>1, <4>1 DEF Follows
      <4> QED
        BY ONLY <1>5, <4>1, <4>2
    <3> QED
      BY ONLY <1>3, <3>1, <3>2, i \in 1 .. m
  <2>4. Len(s) = m
    BY ONLY l = Len(s) % b /\ q = Len(s) \div b /\ m = Len(s)
  <2> QED
    BY ONLY <2>2, <2>3, <2>4, s \in Seq(Int), v = w \o y, SeqEqual
<1>7. Len(w) \div b = q /\ Len(w) % b = 0
  <2>1. h = q * b + 0 /\ 0 \in 0 .. b - 1
    BY ONLY <1>3, h = q * b, b \in Nat \ {0}
  <2>2. h \div b = q /\ h % b = 0
    BY ONLY <1>2, <1>3, <2>1, b \in Nat \ {0}, DivisionIs
  <2> QED
    BY ONLY <1>4, <2>2
<1>8. Cut(t, w)
  <2>1. t \in Seq(Block) /\ Len(t) = q /\ \A j \in 1 .. q : \A i \in 1 .. b : t[j][i] = s[(j - 1) * b + i]
    BY ONLY Cut(t, s), b = BlockSize, l = Len(s) % b /\ q = Len(s) \div b /\ m = Len(s) DEF Cut
  <2>2. ASSUME NEW j \in 1 .. q, NEW i \in 1 .. b PROVE t[j][i] = w[(j - 1) * b + i]
    <3>1. (j - 1) * b + i \in 1 .. h
      BY ONLY <1>2, b \in Nat \ {0}, j \in 1 .. q, i \in 1 .. b, BlockBounds, h = q * b
    <3>2. w[(j - 1) * b + i] = s[(j - 1) * b + i]
      BY ONLY <1>4, <3>1
    <3>3. t[j][i] = s[(j - 1) * b + i]
      BY ONLY <2>1, j \in 1 .. q, i \in 1 .. b
    <3> QED
      BY ONLY <3>2, <3>3
  <2> QED
    BY ONLY <1>7, <2>1, <2>2, b = BlockSize DEF Cut
<1> QED
  BY ONLY <1>4, <1>6, <1>7, <1>8, b = BlockSize

\* The bytes that fill no block, from the buffer or from the last piece.
HeldBytes(a) == SubSeq(a.context.buffer, 1, a.held) \o a.remaining

LEMMA HeldFacts ==
  ASSUME NEW a, NEW s \in Seq(Int), NEW n, Absorbs(a, s, n)
  PROVE  /\ EndOf(HeldBytes(a), s) /\ Len(HeldBytes(a)) = Len(s) % BlockSize
         /\ a.held = 0 => Len(a.remaining) = Len(s) % BlockSize
         /\ a.held # 0 => Len(a.remaining) = 0 /\ n < Len(s) % BlockSize
<1> PICK b \in Nat \ {0} : b = BlockSize
  BY Md5Assumption DEF Md5Assumption
<1> PICK l, f, x, h : l = Len(s) % b /\ f = a.context.buffer /\ x = a.remaining /\ h = a.held
  OBVIOUS
<1> PICK p, y : p = SubSeq(f, 1, h) /\ y = p \o x
  OBVIOUS
<1>1. l \in 0 .. b - 1
  <2>1. Len(s) \in Nat
    BY ONLY s \in Seq(Int)
  <2> QED
    BY ONLY <2>1, b \in Nat \ {0}, BlockFacts,
            l = Len(s) % b /\ f = a.context.buffer /\ x = a.remaining /\ h = a.held
<1>2. /\ h \in Nat /\ EndOf(x, s) /\ h + Len(x) = l
      /\ h = 0 \/ (x = <<>> /\ n < h)
      /\ \A i \in 1 .. h : f[i] = s[Len(s) - l + i]
  BY ONLY Absorbs(a, s, n), b = BlockSize,
          l = Len(s) % b /\ f = a.context.buffer /\ x = a.remaining /\ h = a.held DEF Absorbs
<1>3. x \in Seq(Int) /\ Len(x) \in Nat /\ h <= l
  BY ONLY <1>2 DEF EndOf
<1>4. f \in Seq(Int) /\ Len(f) = b
  <2>1. f \in Block
    BY ONLY Absorbs(a, s, n),
            l = Len(s) % b /\ f = a.context.buffer /\ x = a.remaining /\ h = a.held DEF Absorbs
  <2> QED
    BY ONLY <2>1, b \in Nat \ {0}, b = BlockSize DEF Block
<1>5. p \in Seq(Int) /\ Len(p) = h /\ \A i \in 1 .. h : p[i] = f[i]
  <2>1. 0 \in Nat /\ 0 + h <= Len(f) /\ p = SubSeq(f, 0 + 1, 0 + h)
    BY ONLY <1>1, <1>2, <1>3, <1>4, p = SubSeq(f, 1, h) /\ y = p \o x, b \in Nat \ {0}
  <2>2. p \in Seq(Int) /\ Len(p) = h /\ \A i \in 1 .. h : p[i] = f[0 + i]
    BY ONLY <1>2, <1>4, <2>1, PartOf
  <2> QED
    BY ONLY <1>2, <2>2
<1>6. y = HeldBytes(a)
  BY ONLY p = SubSeq(f, 1, h) /\ y = p \o x,
          l = Len(s) % b /\ f = a.context.buffer /\ x = a.remaining /\ h = a.held DEF HeldBytes
<1>7. CASE h = 0
  <2>1. y = x
    <3>1. p = <<>>
      BY ONLY <1>5, <1>7
    <3> QED
      BY ONLY <1>3, <3>1, NothingBefore, p = SubSeq(f, 1, h) /\ y = p \o x
  <2>2. Len(x) = l
    BY ONLY <1>1, <1>2, <1>3, <1>7
  <2> QED
    BY ONLY <1>2, <1>6, <1>7, <2>1, <2>2, b = BlockSize,
            l = Len(s) % b /\ f = a.context.buffer /\ x = a.remaining /\ h = a.held
<1>8. CASE h # 0
  <2>1. x = <<>> /\ n < h
    BY ONLY <1>2, <1>8
  <2>2. Len(x) = 0 /\ h = l
    <3>1. Len(x) = 0
      BY ONLY <2>1
    <3> QED
      BY ONLY <1>1, <1>2, <3>1
  <2>3. y = p
    <3>1. p \in Seq(Int)
      BY ONLY <1>5
    <3>2. y = p \o <<>>
      BY ONLY <2>1, p = SubSeq(f, 1, h) /\ y = p \o x
    <3> QED
      BY ONLY <3>1, <3>2, NothingBehind
  <2>4. EndOf(y, s) /\ Len(y) = l
    <3>1. y \in Seq(Int) /\ Len(y) = l
      BY ONLY <1>5, <2>2, <2>3
    <3>2. \A i \in 1 .. l : y[i] = s[Len(s) - l + i]
      <4>1. \A i \in 1 .. l : p[i] = f[i]
        BY ONLY <1>5, <2>2
      <4>2. \A i \in 1 .. l : f[i] = s[Len(s) - l + i]
        BY ONLY <1>2, <2>2
      <4> QED
        BY ONLY <2>3, <4>1, <4>2
    <3> QED
      BY ONLY <3>1, <3>2 DEF EndOf
  <2> QED
    BY ONLY <1>6, <1>8, <2>1, <2>2, <2>4, b = BlockSize,
            l = Len(s) % b /\ f = a.context.buffer /\ x = a.remaining /\ h = a.held
<1> QED
  BY <1>7, <1>8

\* The blocks at the end are those of the bytes that fill no block, a mark, zeros and the length,
\* unless they are in the buffer and leave no room.
LEMMA LastCut ==
  ASSUME NEW a, NEW s \in Seq(Int), NEW n \in Nat, Absorbs(a, s, n), NEW l, l = Len(s) % BlockSize,
         ~(l >= BlockSize - LengthSize /\ n < l),
         NEW z, z = IF l < BlockSize - LengthSize THEN BlockSize - LengthSize - 1 - l
                    ELSE BlockSize + BlockSize - LengthSize - 1 - l
  PROVE  Cut(LastBlocks(a), HeldBytes(a) \o <<Mark>> \o Zeros(z) \o LengthBytes(Len(s)))
<1> PICK b \in Nat \ {0} : b = BlockSize
  BY Md5Assumption DEF Md5Assumption
<1> PICK t, y, m : t = b - LengthSize /\ y = HeldBytes(a) /\ m = Len(s)
  OBVIOUS
<1>1. t \in 1 .. b - 1 /\ m \in Nat /\ l \in 0 .. b - 1
  <2>1. m \in Nat
    BY ONLY s \in Seq(Int), t = b - LengthSize /\ y = HeldBytes(a) /\ m = Len(s)
  <2>2. l \in 0 .. b - 1
    BY ONLY <2>1, b \in Nat \ {0}, b = BlockSize, l = Len(s) % BlockSize, BlockFacts,
            t = b - LengthSize /\ y = HeldBytes(a) /\ m = Len(s)
  <2>3. t \in 1 .. b - 1
    BY ONLY b \in Nat \ {0}, b = BlockSize, Md5Assumption, t = b - LengthSize /\ y = HeldBytes(a) /\ m = Len(s)
    DEF Md5Assumption
  <2> QED
    BY ONLY <2>1, <2>2, <2>3
<1>2. y \in Seq(Int) /\ Len(y) = l
  <2>1. EndOf(y, s) /\ Len(y) = l
    BY ONLY Absorbs(a, s, n), s \in Seq(Int), HeldFacts, l = Len(s) % BlockSize,
            t = b - LengthSize /\ y = HeldBytes(a) /\ m = Len(s)
  <2> QED
    BY ONLY <2>1 DEF EndOf
<1>3. (Len(a.remaining) >= BlockSize - LengthSize) <=> ~(l < t)
  <2> PICK r : r = Len(a.remaining)
    OBVIOUS
  <2>1. (a.held = 0 => r = l) /\ (a.held # 0 => r = 0 /\ n < l)
    BY ONLY Absorbs(a, s, n), s \in Seq(Int), HeldFacts, l = Len(s) % BlockSize, r = Len(a.remaining)
  <2>2. ~(l >= t /\ n < l) /\ t = BlockSize - LengthSize
    BY ONLY ~(l >= BlockSize - LengthSize /\ n < l), b = BlockSize,
            t = b - LengthSize /\ y = HeldBytes(a) /\ m = Len(s)
  <2>3. CASE a.held = 0
    <3>1. r = l
      BY ONLY <2>1, <2>3
    <3> QED
      BY ONLY <1>1, <2>2, <3>1, r = Len(a.remaining)
  <2>4. CASE a.held # 0
    <3>1. r = 0 /\ n < l
      BY ONLY <2>1, <2>4
    <3> QED
      BY ONLY <1>1, <2>2, <3>1, r = Len(a.remaining), n \in Nat
  <2> QED
    BY ONLY <2>3, <2>4
<1> PICK p : p = y \o <<Mark>> \o Zeros(b - l - 1)
  OBVIOUS
<1>4. LastBlocks(a) = IF ~(l < t) THEN <<p, WithLength(Zeros(b), m)>> ELSE <<WithLength(p, m)>>
  <2>1. a.context.bytes = m
    BY ONLY Absorbs(a, s, n), t = b - LengthSize /\ y = HeldBytes(a) /\ m = Len(s) DEF Absorbs
  <2>2. Zeros(BlockSize - Len(y) - 1) = Zeros(b - l - 1)
    BY ONLY <1>2, b = BlockSize
  <2>3. LastBlocks(a) = IF Len(a.remaining) >= BlockSize - LengthSize
                        THEN <<p, WithLength(Zeros(b), m)>> ELSE <<WithLength(p, m)>>
    BY ONLY <2>1, <2>2, b = BlockSize, p = y \o <<Mark>> \o Zeros(b - l - 1),
            t = b - LengthSize /\ y = HeldBytes(a) /\ m = Len(s) DEF LastBlocks, HeldBytes
  <2> QED
    BY ONLY <1>3, <2>3
<1>5. p \in Seq(Int) /\ Len(p) = b
  <2>1. b - l - 1 \in Nat /\ l + 1 + (b - l - 1) = b
    BY ONLY <1>1, b \in Nat \ {0}
  <2>2. Marked(p, y, b - l - 1)
    BY ONLY <1>2, <2>1, MarkFacts, p = y \o <<Mark>> \o Zeros(b - l - 1)
  <2> QED
    BY ONLY <1>2, <2>1, <2>2 DEF Marked
<1>6. CASE l < t
  <2> PICK w : w = WithLength(p, m)
    OBVIOUS
  <2>1. z = t - 1 - l
    BY ONLY <1>1, <1>6, b = BlockSize, t = b - LengthSize /\ y = HeldBytes(a) /\ m = Len(s),
            z = IF l < BlockSize - LengthSize THEN BlockSize - LengthSize - 1 - l
                ELSE BlockSize + BlockSize - LengthSize - 1 - l
  <2>2. w = y \o <<Mark>> \o Zeros(t - 1 - l) \o LengthBytes(m)
    <3>1. y \in Seq(Int) /\ m \in Nat /\ l = Len(y) /\ t = b - LengthSize /\ l < t
      BY ONLY <1>1, <1>2, <1>6, t = b - LengthSize /\ y = HeldBytes(a) /\ m = Len(s)
    <3>2. FitsBehind(y, m, b, t, l)
      <4>1. t = BlockSize - LengthSize
        BY ONLY <3>1, b = BlockSize
      <4> QED
        BY ONLY <3>1, b \in Nat \ {0}, b = BlockSize, OneBlock
    <3> QED
      BY ONLY <3>2, p = y \o <<Mark>> \o Zeros(b - l - 1), w = WithLength(p, m) DEF FitsBehind
  <2>3. w \in Seq(Int) /\ Len(w) = b
    <3>1. LengthPut(w, p, m)
      BY ONLY <1>1, <1>5, b = BlockSize, WithLengthFacts, w = WithLength(p, m)
    <3> QED
      BY ONLY <3>1, b = BlockSize DEF LengthPut
  <2>4. Cut(<<w>>, w)
    BY ONLY <2>3, b \in Nat \ {0}, b = BlockSize, CutOne
  <2>5. LastBlocks(a) = <<w>>
    BY ONLY <1>4, <1>6, w = WithLength(p, m)
  <2> QED
    BY ONLY <2>1, <2>2, <2>4, <2>5, t = b - LengthSize /\ y = HeldBytes(a) /\ m = Len(s)
<1>7. CASE ~(l < t)
  <2> PICK o, w : o = Zeros(b) /\ w = WithLength(o, m)
    OBVIOUS
  <2>1. Zeros(z) = Zeros(b + t - 1 - l)
    BY ONLY <1>1, <1>7, b = BlockSize, b \in Nat \ {0}, t = b - LengthSize /\ y = HeldBytes(a) /\ m = Len(s),
            Md5Assumption,
            z = IF l < BlockSize - LengthSize THEN BlockSize - LengthSize - 1 - l
                ELSE BlockSize + BlockSize - LengthSize - 1 - l DEF Md5Assumption
  <2>2. p \o w = y \o <<Mark>> \o Zeros(b + t - 1 - l) \o LengthBytes(m)
    <3>1. y \in Seq(Int) /\ m \in Nat /\ l = Len(y) /\ t = b - LengthSize /\ l < b
      BY ONLY <1>1, <1>2, t = b - LengthSize /\ y = HeldBytes(a) /\ m = Len(s), b \in Nat \ {0}
    <3>2. TakesItsOwn(y, m, b, t, l)
      BY ONLY <1>7, <3>1, b \in Nat \ {0}, b = BlockSize, TwoBlocks
    <3> QED
      BY ONLY <3>2, p = y \o <<Mark>> \o Zeros(b - l - 1), o = Zeros(b) /\ w = WithLength(o, m)
      DEF TakesItsOwn
  <2>3. w \in Seq(Int) /\ Len(w) = b
    <3>1. o \in Seq(Int) /\ Len(o) = b
      BY ONLY b \in Nat \ {0}, ZerosFacts, o = Zeros(b) /\ w = WithLength(o, m)
    <3>2. LengthPut(w, o, m)
      BY ONLY <1>1, <3>1, b = BlockSize, WithLengthFacts, o = Zeros(b) /\ w = WithLength(o, m)
    <3> QED
      BY ONLY <3>2, b = BlockSize DEF LengthPut
  <2>4. Cut(<<w>>, w) /\ Cut(<<p>>, p)
    BY ONLY <1>5, <2>3, b \in Nat \ {0}, b = BlockSize, CutOne
  <2>5. Len(p) % BlockSize = 0
    <3>1. Len(p) = 1 * b + 0 /\ 0 \in 0 .. b - 1 /\ Len(p) \in Nat
      BY ONLY <1>5, b \in Nat \ {0}
    <3>2. Len(p) % b = 0
      BY ONLY <3>1, b \in Nat \ {0}, 1 \in Nat, DivisionIs
    <3> QED
      BY ONLY <3>2, b = BlockSize
  <2>6. Cut(<<p>> \o <<w>>, p \o w)
    BY ONLY <1>5, <2>3, <2>4, <2>5, CutJoined
  <2>7. LastBlocks(a) = <<p>> \o <<w>>
    <3>1. LastBlocks(a) = <<p, w>>
      BY ONLY <1>4, <1>7, o = Zeros(b) /\ w = WithLength(o, m)
    <3>2. <<p>> \o <<w>> = <<p, w>>
      <4>1. p \in Block /\ w \in Block
        BY ONLY <1>5, <2>3, b \in Nat \ {0}, b = BlockSize, CutOne
      <4> QED
        BY ONLY <4>1, TwoTogether
    <3> QED
      BY ONLY <3>1, <3>2
  <2> QED
    BY ONLY <2>1, <2>2, <2>6, <2>7, t = b - LengthSize /\ y = HeldBytes(a) /\ m = Len(s)
<1> QED
  BY ONLY <1>6, <1>7

\* The blocks worked in are those of all data.
LEMMA DigestIs ==
  ASSUME NEW a, NEW s \in Seq(Int), NEW n \in Nat, Absorbs(a, s, n),
         ~(Len(s) % BlockSize >= BlockSize - LengthSize /\ n < Len(s) % BlockSize)
  PROVE  Worked(a.context.state, LastBlocks(a)) = Md5Blocks(s)
<1> PICK b \in Nat \ {0} : b = BlockSize
  BY Md5Assumption DEF Md5Assumption
<1> PICK k, m, l : k = LengthSize /\ m = Len(s) /\ l = Len(s) % BlockSize
  OBVIOUS
<1> PICK z : z = IF l < b - k THEN b - k - 1 - l ELSE b + b - k - 1 - l
  OBVIOUS
<1> PICK y, e, o : y = HeldBytes(a) /\ e = LengthBytes(m) /\ o = Zeros(z)
  OBVIOUS
<1> PICK t, u : t = a.context.state /\ u = LastBlocks(a)
  OBVIOUS
<1>1. m \in Nat
  BY ONLY s \in Seq(Int), k = LengthSize /\ m = Len(s) /\ l = Len(s) % BlockSize
<1>2. z \in 0 .. b - 1 /\ NeedsZeros(m, z)
  <2>1. k = LengthSize /\ l = m % b
    BY ONLY b = BlockSize, k = LengthSize /\ m = Len(s) /\ l = Len(s) % BlockSize
  <2> QED
    BY ONLY <1>1, <2>1, b \in Nat \ {0}, b = BlockSize, ZerosChosen,
            z = IF l < b - k THEN b - k - 1 - l ELSE b + b - k - 1 - l
<1>3. EndOf(y, s) /\ Len(y) = Len(s) % BlockSize
  BY ONLY Absorbs(a, s, n), s \in Seq(Int), HeldFacts, y = HeldBytes(a) /\ e = LengthBytes(m) /\ o = Zeros(z)
<1>4. y \in Seq(Int)
  BY ONLY <1>3 DEF EndOf
<1>5. Cut(t, s)
  BY ONLY Absorbs(a, s, n), t = a.context.state /\ u = LastBlocks(a) DEF Absorbs
<1> PICK w \in Seq(Int) : s = w \o y /\ Cut(t, w) /\ Len(w) % BlockSize = 0
  BY ONLY s \in Seq(Int), <1>3, <1>5, CutBefore
<1> PICK p : p = <<Mark>>
  OBVIOUS
<1>6. p \in Seq(Int) /\ o \in Seq(Int) /\ e \in Seq(Int)
  <2>1. p \in Seq(Int)
    BY ONLY p = <<Mark>> DEF Mark
  <2>2. o \in Seq(Int)
    <3>1. z \in Nat
      BY ONLY <1>2, b \in Nat \ {0}
    <3> QED
      BY ONLY <3>1, ZerosFacts, y = HeldBytes(a) /\ e = LengthBytes(m) /\ o = Zeros(z)
  <2>3. e \in Seq(Int)
    BY ONLY <1>1, LengthFacts, y = HeldBytes(a) /\ e = LengthBytes(m) /\ o = Zeros(z)
  <2> QED
    BY ONLY <2>1, <2>2, <2>3
<1> PICK v : v = y \o p \o o \o e
  OBVIOUS
<1>7. v \in Seq(Int)
  <2>1. y \o p \in Seq(Int)
    BY ONLY <1>4, <1>6, JoinedType
  <2>2. (y \o p) \o o \in Seq(Int)
    BY ONLY <1>6, <2>1, JoinedType
  <2> QED
    BY ONLY <1>6, <2>2, JoinedType, v = y \o p \o o \o e
<1>8. s \o p \o o \o e = w \o v
  <2>1. Regroups(w, y, p)
    BY ONLY <1>4, <1>6, w \in Seq(Int), Regrouped
  <2>2. y \o p \in Seq(Int)
    BY ONLY <1>4, <1>6, JoinedType
  <2>3. Regroups(w, y \o p, o)
    BY ONLY <1>6, <2>2, w \in Seq(Int), Regrouped
  <2>4. (y \o p) \o o \in Seq(Int)
    BY ONLY <1>6, <2>2, JoinedType
  <2>5. Regroups(w, (y \o p) \o o, e)
    BY ONLY <1>6, <2>4, w \in Seq(Int), Regrouped
  <2> QED
    BY ONLY <2>1, <2>3, <2>5, s = w \o y /\ Cut(t, w) /\ Len(w) % BlockSize = 0, v = y \o p \o o \o e
    DEF Regroups
<1>9. Cut(u, v)
  <2>1. Cut(LastBlocks(a), HeldBytes(a) \o <<Mark>> \o Zeros(z) \o LengthBytes(Len(s)))
    <3>1. z = IF l < BlockSize - LengthSize THEN BlockSize - LengthSize - 1 - l
              ELSE BlockSize + BlockSize - LengthSize - 1 - l
      BY ONLY b = BlockSize, k = LengthSize /\ m = Len(s) /\ l = Len(s) % BlockSize,
              z = IF l < b - k THEN b - k - 1 - l ELSE b + b - k - 1 - l
    <3>2. l = Len(s) % BlockSize /\ ~(l >= BlockSize - LengthSize /\ n < l)
      BY ONLY k = LengthSize /\ m = Len(s) /\ l = Len(s) % BlockSize,
              ~(Len(s) % BlockSize >= BlockSize - LengthSize /\ n < Len(s) % BlockSize)
    <3> QED
      BY ONLY <3>1, <3>2, Absorbs(a, s, n), s \in Seq(Int), n \in Nat, LastCut
  <2> QED
    BY ONLY <2>1, y = HeldBytes(a) /\ e = LengthBytes(m) /\ o = Zeros(z), p = <<Mark>>,
            v = y \o p \o o \o e, t = a.context.state /\ u = LastBlocks(a),
            k = LengthSize /\ m = Len(s) /\ l = Len(s) % BlockSize
<1>10. Cut(t \o u, w \o v)
  BY ONLY <1>7, <1>9, w \in Seq(Int), CutJoined, s = w \o y /\ Cut(t, w) /\ Len(w) % BlockSize = 0
<1>11. Md5Blocks(s) = Chunks(w \o v)
  <2>1. Md5Blocks(s) = Chunks(s \o <<Mark>> \o Zeros(z) \o LengthBytes(m))
    BY ONLY <1>2, k = LengthSize /\ m = Len(s) /\ l = Len(s) % BlockSize
    DEF Md5Blocks, NeedsZeros
  <2> QED
    BY ONLY <1>8, <2>1, p = <<Mark>>, y = HeldBytes(a) /\ e = LengthBytes(m) /\ o = Zeros(z)
<1>12. Cut(Chunks(w \o v), w \o v)
  <2>1. w \o v \in Seq(Int)
    BY ONLY <1>7, w \in Seq(Int), JoinedType
  <2> QED
    BY ONLY <2>1, ChunksCut
<1>13. t \o u = Chunks(w \o v)
  BY ONLY <1>10, <1>12, CutOnce
<1> QED
  BY ONLY <1>11, <1>13, t = a.context.state /\ u = LastBlocks(a) DEF Worked

\* The new context is ready to begin with, the one that is kept holds all data so far.
Md5Inv ==
  /\ ctx = NewContext
  /\ ctxBackup \in [state : Seq(Block), bytes : Nat, buffer : Block] /\ Holds(ctxBackup, message)
  /\ message \in Seq(Int)
  /\ PiecesAddUp

LEMMA NewHolds ==
  NewContext \in [state : Seq(Block), bytes : Nat, buffer : Block] /\ Holds(NewContext, <<>>)
<1> PICK b \in Nat \ {0} : b = BlockSize
  BY Md5Assumption DEF Md5Assumption
<1> PICK o, t : o = Zeros(BlockSize) /\ t = <<>>
  OBVIOUS
<1>1. o \in Block
  BY ONLY b \in Nat \ {0}, b = BlockSize, o = Zeros(BlockSize) /\ t = <<>> DEF Zeros, Zero, Block
<1>2. t \in Seq(Block) /\ Len(t) = 0 /\ Cut(t, t)
  BY ONLY CutNothing, o = Zeros(BlockSize) /\ t = <<>>
<1>3. NewContext = [state |-> t, bytes |-> 0, buffer |-> o]
  BY ONLY o = Zeros(BlockSize) /\ t = <<>> DEF NewContext
<1>4. NewContext \in [state : Seq(Block), bytes : Nat, buffer : Block]
  BY ONLY <1>1, <1>2, <1>3
<1>5. Len(t) % BlockSize = 0
  <2>1. 0 \in 0 .. b - 1 /\ 0 = 0 * b + 0
    BY ONLY b \in Nat \ {0}
  <2>2. 0 % b = 0
    BY ONLY <2>1, b \in Nat \ {0}, 0 \in Nat, DivisionIs
  <2> QED
    BY ONLY <1>2, <2>2, b = BlockSize
<1>6. Holds(NewContext, t)
  <2>1. NewContext.bytes = Len(t) /\ NewContext.buffer \in Block /\ Cut(NewContext.state, t)
    BY ONLY <1>1, <1>2, <1>3
  <2>2. \A i \in 1 .. Len(t) % BlockSize : FALSE
    BY ONLY <1>5
  <2> QED
    BY ONLY <2>1, <2>2 DEF Holds
<1> QED
  BY ONLY <1>4, <1>6, o = Zeros(BlockSize) /\ t = <<>>

LEMMA Md5Start == Md5Init => Md5Inv
<1> SUFFICES ASSUME Md5Init PROVE Md5Inv
  OBVIOUS
<1>1. ctx = NewContext /\ ctxBackup = NewContext /\ message = <<>> /\ digest = <<>>
  BY DEF Md5Init
<1>2. PiecesAddUp
  BY ONLY <1>1 DEF PiecesAddUp
<1>3. message \in Seq(Int)
  BY ONLY <1>1
<1> QED
  BY ONLY <1>1, <1>2, <1>3, NewHolds DEF Md5Inv

\* One piece, from a context that holds the data before it.
LEMMA PieceTaken ==
  ASSUME NEW n \in Nat, NEW add \in BOOLEAN, Md5Inv, Process(n, add)
  PROVE  Md5Inv'
<1> PICK m, c : m = (IF add THEN message ELSE <<>>) /\ c = (IF add THEN ctxBackup ELSE ctx)
  OBVIOUS
<1>1. m \in Seq(Int) /\ c \in [state : Seq(Block), bytes : Nat, buffer : Block] /\ Holds(c, m)
  <2>1. <<>> \in Seq(Int)
    OBVIOUS
  <2>2. CASE add
    BY ONLY <2>2, Md5Inv, m = (IF add THEN message ELSE <<>>) /\ c = (IF add THEN ctxBackup ELSE ctx) DEF Md5Inv
  <2>3. CASE ~add
    BY ONLY <2>1, <2>3, Md5Inv, NewHolds,
            m = (IF add THEN message ELSE <<>>) /\ c = (IF add THEN ctxBackup ELSE ctx) DEF Md5Inv
  <2> QED
    BY ONLY <2>2, <2>3
<1> PICK l : l = (IF add THEN Len(message) ELSE 0)
  OBVIOUS
<1>2. l \in Nat
  <2>1. message \in Seq(Int)
    BY ONLY Md5Inv DEF Md5Inv
  <2> QED
    BY ONLY <2>1, l = (IF add THEN Len(message) ELSE 0)
<1> PICK data : data = [i \in 1 .. n |-> l + i]
  OBVIOUS
<1>3. data \in Seq(Int) /\ Len(data) = n
  BY ONLY <1>2, n \in Nat, data = [i \in 1 .. n |-> l + i]
<1> PICK a, s : a = Absorbed(c, data) /\ s = m \o data
  OBVIOUS
<1>4. s \in Seq(Int)
  BY ONLY <1>1, <1>3, Joined, a = Absorbed(c, data) /\ s = m \o data
<1>5. Absorbs(a, s, n)
  BY ONLY <1>1, <1>3, AbsorbedFacts, a = Absorbed(c, data) /\ s = m \o data
<1>6. /\ message' = s /\ piece' = n /\ ctxBackup' = Kept(a) /\ ctx' = NewContext
      /\ digest' = Worked(a.context.state, LastBlocks(a))
  BY ONLY Process(n, add), a = Absorbed(c, data) /\ s = m \o data, data = [i \in 1 .. n |-> l + i],
          l = (IF add THEN Len(message) ELSE 0),
          m = (IF add THEN message ELSE <<>>) /\ c = (IF add THEN ctxBackup ELSE ctx) DEF Process
<1>7. Kept(a) \in [state : Seq(Block), bytes : Nat, buffer : Block] /\ Holds(Kept(a), s)
  BY ONLY <1>4, <1>5, KeptHolds
<1>8. ~(Len(s) % BlockSize >= BlockSize - LengthSize /\ n < Len(s) % BlockSize)
        => Worked(a.context.state, LastBlocks(a)) = Md5Blocks(s)
  BY ONLY <1>4, <1>5, n \in Nat, DigestIs
<1>9. PiecesAddUp'
  BY ONLY <1>6, <1>8 DEF PiecesAddUp, NoRoomInBuffer
<1>10. Holds(ctxBackup, message)'
  BY ONLY <1>6, <1>7 DEF Holds
<1> QED
  BY ONLY <1>4, <1>6, <1>7, <1>9, <1>10 DEF Md5Inv, NewContext

LEMMA Md5Step == Md5Inv /\ [Md5Next]_md5Vars => Md5Inv'
<1> SUFFICES ASSUME Md5Inv, [Md5Next]_md5Vars PROVE Md5Inv'
  OBVIOUS
<1>1. CASE UNCHANGED md5Vars
  BY ONLY <1>1, Md5Inv DEF Md5Inv, Holds, PiecesAddUp, NoRoomInBuffer, md5Vars, NewContext
<1>2. ASSUME NEW n \in 0 .. MaxBytes, Process(n, FALSE) PROVE Md5Inv'
  <2>1. n \in Nat
    BY Md5Assumption DEF Md5Assumption
  <2> QED
    BY ONLY <1>2, <2>1, Md5Inv, PieceTaken
<1>3. ASSUME NEW n \in 0 .. MaxBytes - Len(message), Process(n, TRUE) PROVE Md5Inv'
  <2>1. n \in Nat
    <3>1. message \in Seq(Int)
      BY ONLY Md5Inv DEF Md5Inv
    <3>2. Len(message) \in Nat
      BY ONLY <3>1
    <3>3. MaxBytes \in Nat
      BY Md5Assumption DEF Md5Assumption
    <3> QED
      BY ONLY <3>2, <3>3, n \in 0 .. MaxBytes - Len(message)
  <2> QED
    BY ONLY <1>3, <2>1, Md5Inv, PieceTaken
<1> QED
  BY ONLY <1>1, <1>2, <1>3, [Md5Next]_md5Vars DEF Md5Next

\* The digest is that of all data together however md5::process (libs/common/src/md5.cpp) got it in
\* pieces: for blocks and lengths of any size and data of any size, the bytes kept between two pieces
\* and those worked in are always all of them, in order, and the blocks at the end are those of RFC 1321
\* unless the last piece began in a block and ended in it where the length does not fit.
THEOREM DigestsAddUp == Md5Spec => []PiecesAddUp
<1>1. Md5Inv => PiecesAddUp
  BY DEF Md5Inv
<1> QED
  BY <1>1, Md5Start, Md5Step, PTL DEF Md5Spec
\* The blocks at the end are blocks, also where the length does not fit.
LEMMA LastBlocksType ==
  ASSUME NEW a, NEW s \in Seq(Int), NEW n \in Nat, Absorbs(a, s, n)
  PROVE  LastBlocks(a) \in Seq(Block)
<1> PICK b \in Nat \ {0} : b = BlockSize
  BY Md5Assumption DEF Md5Assumption
<1> PICK y, m, l : y = HeldBytes(a) /\ m = Len(s) /\ l = Len(s) % b
  OBVIOUS
<1>1. m \in Nat /\ l \in 0 .. b - 1
  <2>1. m \in Nat
    BY ONLY s \in Seq(Int), y = HeldBytes(a) /\ m = Len(s) /\ l = Len(s) % b
  <2> QED
    BY ONLY <2>1, b \in Nat \ {0}, BlockFacts, y = HeldBytes(a) /\ m = Len(s) /\ l = Len(s) % b
<1>2. y \in Seq(Int) /\ Len(y) = l
  <2>1. EndOf(y, s) /\ Len(y) = l
    BY ONLY Absorbs(a, s, n), s \in Seq(Int), HeldFacts, b = BlockSize,
            y = HeldBytes(a) /\ m = Len(s) /\ l = Len(s) % b
  <2> QED
    BY ONLY <2>1 DEF EndOf
<1> PICK p, o : p = y \o <<Mark>> \o Zeros(b - l - 1) /\ o = Zeros(b)
  OBVIOUS
<1>3. p \in Seq(Int) /\ Len(p) = b
  <2>1. b - l - 1 \in Nat /\ l + 1 + (b - l - 1) = b
    BY ONLY <1>1, b \in Nat \ {0}
  <2>2. Marked(p, y, b - l - 1)
    BY ONLY <1>2, <2>1, MarkFacts, p = y \o <<Mark>> \o Zeros(b - l - 1) /\ o = Zeros(b)
  <2> QED
    BY ONLY <1>2, <2>1, <2>2 DEF Marked
<1>4. o \in Seq(Int) /\ Len(o) = b
  BY ONLY b \in Nat \ {0}, ZerosFacts, p = y \o <<Mark>> \o Zeros(b - l - 1) /\ o = Zeros(b)
<1> PICK v, w : v = WithLength(p, m) /\ w = WithLength(o, m)
  OBVIOUS
<1>5. v \in Block /\ w \in Block /\ p \in Block
  <2>1. LengthPut(v, p, m) /\ LengthPut(w, o, m)
    BY ONLY <1>1, <1>3, <1>4, b = BlockSize, WithLengthFacts, v = WithLength(p, m) /\ w = WithLength(o, m)
  <2>2. v \in Seq(Int) /\ Len(v) = b /\ w \in Seq(Int) /\ Len(w) = b
    BY ONLY <2>1, b = BlockSize DEF LengthPut
  <2> QED
    BY ONLY <1>3, <2>2, b \in Nat \ {0}, b = BlockSize, CutOne
<1>6. LastBlocks(a) = <<p, w>> \/ LastBlocks(a) = <<v>>
  <2>1. a.context.bytes = m
    BY ONLY Absorbs(a, s, n), y = HeldBytes(a) /\ m = Len(s) /\ l = Len(s) % b DEF Absorbs
  <2>2. Zeros(BlockSize - Len(y) - 1) = Zeros(b - l - 1)
    BY ONLY <1>2, b = BlockSize
  <2> QED
    BY ONLY <2>1, <2>2, b = BlockSize, p = y \o <<Mark>> \o Zeros(b - l - 1) /\ o = Zeros(b),
            v = WithLength(p, m) /\ w = WithLength(o, m), y = HeldBytes(a) /\ m = Len(s) /\ l = Len(s) % b
    DEF LastBlocks, HeldBytes
<1>7. <<p, w>> \in Seq(Block) /\ <<v>> \in Seq(Block)
  <2> PICK S : S = Block
    OBVIOUS
  <2>1. v \in S /\ w \in S /\ p \in S
    BY <1>5
  <2>2. <<p, w>> \in Seq(S) /\ <<v>> \in Seq(S)
    BY ONLY <2>1
  <2> QED
    BY <2>2
<1> QED
  BY ONLY <1>6, <1>7

\* What the digest is made of, and the history of the data.
Md5Typed == digest \in Seq(Block) /\ message \in Seq(Nat) /\ piece \in 0 .. MaxBytes

LEMMA PieceTyped ==
  ASSUME NEW n \in 0 .. MaxBytes, NEW add \in BOOLEAN, Md5Inv, Md5Typed, Process(n, add)
  PROVE  Md5Typed'
<1>0. n \in Nat /\ MaxBytes \in Nat
  BY Md5Assumption DEF Md5Assumption
<1> PICK m, c, l : /\ m = (IF add THEN message ELSE <<>>) /\ c = (IF add THEN ctxBackup ELSE ctx)
                   /\ l = (IF add THEN Len(message) ELSE 0)
  OBVIOUS
<1>1. m \in Seq(Int) /\ c \in [state : Seq(Block), bytes : Nat, buffer : Block] /\ Holds(c, m)
  <2>1. <<>> \in Seq(Int)
    OBVIOUS
  <2>2. CASE add
    BY <2>2 DEF Md5Inv
  <2>3. CASE ~add
    BY ONLY <2>1, <2>3, Md5Inv, NewHolds,
            m = (IF add THEN message ELSE <<>>) /\ c = (IF add THEN ctxBackup ELSE ctx) DEF Md5Inv
  <2> QED
    BY ONLY <2>2, <2>3
<1>2. l \in Nat /\ m \in Seq(Nat)
  BY DEF Md5Typed
<1> PICK data : data = [i \in 1 .. n |-> l + i]
  OBVIOUS
<1>3. data \in Seq(Nat) /\ data \in Seq(Int) /\ Len(data) = n
  BY ONLY <1>0, <1>2, data = [i \in 1 .. n |-> l + i]
<1> PICK a, s : a = Absorbed(c, data) /\ s = m \o data
  OBVIOUS
<1>4. s \in Seq(Int) /\ s \in Seq(Nat)
  BY ONLY <1>1, <1>2, <1>3, Joined, a = Absorbed(c, data) /\ s = m \o data
<1>5. Absorbs(a, s, n)
  BY ONLY <1>0, <1>1, <1>3, AbsorbedFacts, a = Absorbed(c, data) /\ s = m \o data
<1>6. message' = s /\ piece' = n /\ digest' = a.context.state \o LastBlocks(a)
  BY DEF Process, Worked
<1>7. a.context.state \in Seq(Block)
  BY ONLY <1>5 DEF Absorbs
<1>8. LastBlocks(a) \in Seq(Block)
  BY ONLY <1>0, <1>4, <1>5, LastBlocksType
<1>9. digest' \in Seq(Block)
  BY ONLY <1>6, <1>7, <1>8
<1> QED
  BY <1>4, <1>6, <1>9 DEF Md5Typed

LEMMA Md5TypedStep == Md5Inv /\ Md5Typed /\ [Md5Next]_md5Vars => Md5Typed'
<1> SUFFICES ASSUME Md5Inv, Md5Typed, [Md5Next]_md5Vars PROVE Md5Typed'
  OBVIOUS
<1>1. CASE UNCHANGED md5Vars
  BY <1>1 DEF Md5Typed, md5Vars
<1>2. ASSUME NEW n \in 0 .. MaxBytes - Len(message) PROVE n \in 0 .. MaxBytes
  <2>1. Len(message) \in Nat /\ MaxBytes \in Nat
    BY Md5Assumption DEF Md5Typed, Md5Assumption
  <2> QED
    BY <2>1
<1> QED
  BY <1>1, <1>2, PieceTyped DEF Md5Next

LEMMA Md5TypedStart == Md5Init => Md5Typed
<1>1. MaxBytes \in Nat
  BY Md5Assumption DEF Md5Assumption
<1> QED
  BY <1>1 DEF Md5Init, Md5Typed

LEMMA Md5TypesAre == Md5Inv /\ Md5Typed => Md5TypeOK
  BY NewHolds DEF Md5Inv, Md5Typed, Md5TypeOK, Block

-----------------------------------------------------------------------------
(* Ports: every port a router forwards is remembered by somebody, for any    *)
(* number of objects and ports and both implementations.                     *)

USE PortAssumption

\* A call that opens a port comes when none is open: open() has closed it.
OpensWhenClosed ==
  \A u \in Mappers : step[u] # "idle" /\ ~closing[u] => port[u] = 0 /\ wanted[u] \in Ports

\* A destructor that calls ClosePort has a port to close.
DiesWithPort == \A u \in Mappers : life[u] = "dying" => port[u] # 0

PortInv == PortTypeOK /\ OpensWhenClosed /\ DiesWithPort /\ Remembered

-----------------------------------------------------------------------------
\* Every step keeps the types: what is put into the router or among the orphans is a port.
LEMMA PortTypeStep == ASSUME PortTypeOK, OpensWhenClosed, DiesWithPort, [PortNext]_portVars
       PROVE  PortTypeOK'
<1>1. ASSUME NEW u \in Mappers, NEW p \in Ports, OpenMapping(u, p) PROVE PortTypeOK'
  BY <1>1 DEF OpenMapping, PortTypeOK, OpensWhenClosed, DiesWithPort, Resources, ComObjects
<1>2. ASSUME NEW u \in Mappers, NEW state \in {"alive", "dying"}, CloseMapping(u, state) PROVE PortTypeOK'
  BY <1>2 DEF CloseMapping, PortTypeOK, OpensWhenClosed, DiesWithPort, Resources, ComObjects
<1>3. ASSUME NEW u \in Mappers, DestroyMapper(u) PROVE PortTypeOK'
  BY <1>3 DEF DestroyMapper, PortTypeOK, OpensWhenClosed, DiesWithPort, Resources, ComObjects
<1>4. ASSUME NEW u \in Mappers, DiscoverDevices(u) PROVE PortTypeOK'
  BY <1>4 DEF DiscoverDevices, Done, PortTypeOK, OpensWhenClosed, DiesWithPort, Resources, ComObjects
<1>5. ASSUME NEW u \in Mappers, GetValidIGD(u) PROVE PortTypeOK'
  BY <1>5 DEF GetValidIGD, Done, PortTypeOK, OpensWhenClosed, DiesWithPort, Resources, ComObjects
<1>6. ASSUME NEW u \in Mappers, CreateNat(u) PROVE PortTypeOK'
  BY <1>6 DEF CreateNat, Done, PortTypeOK, OpensWhenClosed, DiesWithPort, Resources, ComObjects
<1>7. ASSUME NEW u \in Mappers, GetMappings(u) PROVE PortTypeOK'
  BY <1>7 DEF GetMappings, Done, PortTypeOK, OpensWhenClosed, DiesWithPort, Resources, ComObjects
<1>8. ASSUME NEW u \in Mappers, FindLocalAddress(u) PROVE PortTypeOK'
  BY <1>8 DEF FindLocalAddress, Done, PortTypeOK, OpensWhenClosed, DiesWithPort, Resources, ComObjects
<1>9. ASSUME NEW u \in Mappers, ConvertStrings(u) PROVE PortTypeOK'
  BY <1>9 DEF ConvertStrings, Done, PortTypeOK, OpensWhenClosed, DiesWithPort, Resources, ComObjects
<1>10. ASSUME NEW u \in Mappers, StepFails(u) PROVE PortTypeOK'
  <2>1. life[u] = "dying" => port[u] \in Ports
    BY <1>10 DEF PortTypeOK, DiesWithPort
  <2>2. router' \subseteq Ports /\ orphans' \subseteq Ports
    BY <1>10, <2>1 DEF StepFails, PortTypeOK
  <2>3. /\ port' \in [Mappers -> Ports \cup {0}]
        /\ life' \in [Mappers -> {"none", "constructing", "alive", "dying"}]
        /\ step' \in [Mappers -> {"idle", "discover", "gateway", "address", "strings", "request"}]
        /\ closing' \in [Mappers -> BOOLEAN] /\ wanted' \in [Mappers -> Ports \cup {0}]
        /\ windows' \in BOOLEAN
    BY <1>10 DEF StepFails, Throw, PortAfterFailure, PortTypeOK
  <2>4. /\ held' \in [Mappers -> SUBSET Resources]
        /\ \A v \in Mappers : step'[v] = "idle" => held'[v] \subseteq ComObjects
    BY <1>10 DEF StepFails, Throw, Released, PortTypeOK
  <2> QED BY <2>2, <2>3, <2>4 DEF PortTypeOK
<1>11. ASSUME NEW u \in Mappers, AnswerLost(u) PROVE PortTypeOK'
  <2>1. ~closing[u] => wanted[u] \in Ports
    BY <1>11 DEF AnswerLost, OpensWhenClosed
  <2>2. router' \subseteq Ports /\ orphans' \subseteq Ports
    BY <1>11, <2>1 DEF AnswerLost, PortTypeOK
  <2>3. /\ port' \in [Mappers -> Ports \cup {0}]
        /\ life' \in [Mappers -> {"none", "constructing", "alive", "dying"}]
        /\ step' \in [Mappers -> {"idle", "discover", "gateway", "address", "strings", "request"}]
        /\ closing' \in [Mappers -> BOOLEAN] /\ wanted' \in [Mappers -> Ports \cup {0}]
        /\ windows' \in BOOLEAN
    BY <1>11 DEF AnswerLost, Throw, PortAfterFailure, PortTypeOK
  <2>4. /\ held' \in [Mappers -> SUBSET Resources]
        /\ \A v \in Mappers : step'[v] = "idle" => held'[v] \subseteq ComObjects
    BY <1>11 DEF AnswerLost, Throw, Released, PortTypeOK
  <2> QED BY <2>2, <2>3, <2>4 DEF PortTypeOK
<1>12. ASSUME NEW u \in Mappers, Removed(u) PROVE PortTypeOK'
  BY <1>12 DEF Removed, Released, PortTypeOK, OpensWhenClosed, DiesWithPort, Resources, ComObjects
<1>13. ASSUME NEW u \in Mappers, Added(u) PROVE PortTypeOK'
  <2>1. wanted[u] \in Ports
    BY <1>13 DEF Added, OpensWhenClosed
  <2>2. /\ router' \subseteq Ports /\ orphans' \subseteq Ports
        /\ port' \in [Mappers -> Ports \cup {0}]
        /\ life' \in [Mappers -> {"none", "constructing", "alive", "dying"}]
        /\ step' \in [Mappers -> {"idle", "discover", "gateway", "address", "strings", "request"}]
        /\ closing' \in [Mappers -> BOOLEAN] /\ wanted' \in [Mappers -> Ports \cup {0}]
        /\ windows' \in BOOLEAN
    BY <1>13, <2>1 DEF Added, PortTypeOK
  <2>3. /\ held' \in [Mappers -> SUBSET Resources]
        /\ \A v \in Mappers : step'[v] = "idle" => held'[v] \subseteq ComObjects
    BY <1>13 DEF Added, Released, PortTypeOK
  <2> QED BY <2>2, <2>3 DEF PortTypeOK
<1>14. CASE RouterRestarts
  BY <1>14 DEF RouterRestarts, PortTypeOK, OpensWhenClosed, DiesWithPort, Resources, ComObjects
<1>15. CASE ProcessEnds
  BY <1>15 DEF ProcessEnds, PortTypeOK, OpensWhenClosed, DiesWithPort, Resources, ComObjects
<1>16. CASE UNCHANGED portVars
  BY <1>16 DEF portVars, PortTypeOK, OpensWhenClosed, DiesWithPort, Resources, ComObjects
<1> QED BY <1>1, <1>2, <1>3, <1>4, <1>5, <1>6, <1>7, <1>8, <1>9, <1>10, <1>11, <1>12, <1>13, <1>14, <1>15, <1>16 DEF PortNext

\* Every step keeps what is known of the calls that run.
LEMMA CallStep == ASSUME PortTypeOK, OpensWhenClosed, DiesWithPort, [PortNext]_portVars
       PROVE  (OpensWhenClosed /\ DiesWithPort)'
<1>1. ASSUME NEW u \in Mappers, NEW p \in Ports, OpenMapping(u, p) PROVE (OpensWhenClosed /\ DiesWithPort)'
  BY <1>1 DEF OpenMapping, PortTypeOK, OpensWhenClosed, DiesWithPort
<1>2. ASSUME NEW u \in Mappers, NEW state \in {"alive", "dying"}, CloseMapping(u, state) PROVE (OpensWhenClosed /\ DiesWithPort)'
  BY <1>2 DEF CloseMapping, PortTypeOK, OpensWhenClosed, DiesWithPort
<1>3. ASSUME NEW u \in Mappers, DestroyMapper(u) PROVE (OpensWhenClosed /\ DiesWithPort)'
  BY <1>3 DEF DestroyMapper, PortTypeOK, OpensWhenClosed, DiesWithPort
<1>4. ASSUME NEW u \in Mappers, DiscoverDevices(u) PROVE (OpensWhenClosed /\ DiesWithPort)'
  BY <1>4 DEF DiscoverDevices, Done, PortTypeOK, OpensWhenClosed, DiesWithPort
<1>5. ASSUME NEW u \in Mappers, GetValidIGD(u) PROVE (OpensWhenClosed /\ DiesWithPort)'
  BY <1>5 DEF GetValidIGD, Done, PortTypeOK, OpensWhenClosed, DiesWithPort
<1>6. ASSUME NEW u \in Mappers, CreateNat(u) PROVE (OpensWhenClosed /\ DiesWithPort)'
  BY <1>6 DEF CreateNat, Done, PortTypeOK, OpensWhenClosed, DiesWithPort
<1>7. ASSUME NEW u \in Mappers, GetMappings(u) PROVE (OpensWhenClosed /\ DiesWithPort)'
  BY <1>7 DEF GetMappings, Done, PortTypeOK, OpensWhenClosed, DiesWithPort
<1>8. ASSUME NEW u \in Mappers, FindLocalAddress(u) PROVE (OpensWhenClosed /\ DiesWithPort)'
  BY <1>8 DEF FindLocalAddress, Done, PortTypeOK, OpensWhenClosed, DiesWithPort
<1>9. ASSUME NEW u \in Mappers, ConvertStrings(u) PROVE (OpensWhenClosed /\ DiesWithPort)'
  BY <1>9 DEF ConvertStrings, Done, PortTypeOK, OpensWhenClosed, DiesWithPort
<1>10. ASSUME NEW u \in Mappers, StepFails(u) PROVE (OpensWhenClosed /\ DiesWithPort)'
  BY <1>10 DEF StepFails, Throw, PortAfterFailure, Released, PortTypeOK, OpensWhenClosed, DiesWithPort
<1>11. ASSUME NEW u \in Mappers, AnswerLost(u) PROVE (OpensWhenClosed /\ DiesWithPort)'
  BY <1>11 DEF AnswerLost, Throw, PortAfterFailure, Released, PortTypeOK, OpensWhenClosed, DiesWithPort
<1>12. ASSUME NEW u \in Mappers, Removed(u) PROVE (OpensWhenClosed /\ DiesWithPort)'
  BY <1>12 DEF Removed, Released, PortTypeOK, OpensWhenClosed, DiesWithPort
<1>13. ASSUME NEW u \in Mappers, Added(u) PROVE (OpensWhenClosed /\ DiesWithPort)'
  BY <1>13 DEF Added, Released, PortTypeOK, OpensWhenClosed, DiesWithPort
<1>14. CASE RouterRestarts
  BY <1>14 DEF RouterRestarts, PortTypeOK, OpensWhenClosed, DiesWithPort
<1>15. CASE ProcessEnds
  BY <1>15 DEF ProcessEnds, PortTypeOK, OpensWhenClosed, DiesWithPort
<1>16. CASE UNCHANGED portVars
  BY <1>16 DEF portVars, PortTypeOK, OpensWhenClosed, DiesWithPort
<1> QED BY <1>1, <1>2, <1>3, <1>4, <1>5, <1>6, <1>7, <1>8, <1>9, <1>10, <1>11, <1>12, <1>13, <1>14, <1>15, <1>16 DEF PortNext

\* No step loses track of a port that stays forwarded.
LEMMA RememberedStep == ASSUME PortTypeOK, OpensWhenClosed, Remembered, [PortNext]_portVars
       PROVE  Remembered'
<1>1. ASSUME NEW u \in Mappers, NEW p \in Ports, OpenMapping(u, p) PROVE Remembered'
  BY <1>1 DEF OpenMapping, PortTypeOK, OpensWhenClosed, Remembered
<1>2. ASSUME NEW u \in Mappers, NEW state \in {"alive", "dying"}, CloseMapping(u, state) PROVE Remembered'
  BY <1>2 DEF CloseMapping, PortTypeOK, OpensWhenClosed, Remembered
<1>3. ASSUME NEW u \in Mappers, DestroyMapper(u) PROVE Remembered'
  BY <1>3 DEF DestroyMapper, PortTypeOK, OpensWhenClosed, Remembered
<1>4. ASSUME NEW u \in Mappers, DiscoverDevices(u) PROVE Remembered'
  BY <1>4 DEF DiscoverDevices, Done, PortTypeOK, OpensWhenClosed, Remembered
<1>5. ASSUME NEW u \in Mappers, GetValidIGD(u) PROVE Remembered'
  BY <1>5 DEF GetValidIGD, Done, PortTypeOK, OpensWhenClosed, Remembered
<1>6. ASSUME NEW u \in Mappers, CreateNat(u) PROVE Remembered'
  BY <1>6 DEF CreateNat, Done, PortTypeOK, OpensWhenClosed, Remembered
<1>7. ASSUME NEW u \in Mappers, GetMappings(u) PROVE Remembered'
  BY <1>7 DEF GetMappings, Done, PortTypeOK, OpensWhenClosed, Remembered
<1>8. ASSUME NEW u \in Mappers, FindLocalAddress(u) PROVE Remembered'
  BY <1>8 DEF FindLocalAddress, Done, PortTypeOK, OpensWhenClosed, Remembered
<1>9. ASSUME NEW u \in Mappers, ConvertStrings(u) PROVE Remembered'
  BY <1>9 DEF ConvertStrings, Done, PortTypeOK, OpensWhenClosed, Remembered
<1>10. ASSUME NEW u \in Mappers, StepFails(u) PROVE Remembered'
  BY <1>10 DEF StepFails, Throw, PortAfterFailure, Released, PortTypeOK, OpensWhenClosed, Remembered
<1>11. ASSUME NEW u \in Mappers, AnswerLost(u) PROVE Remembered'
  <2> SUFFICES ASSUME NEW p \in router' PROVE p \in orphans' \/ \E v \in Mappers : port'[v] = p
    BY DEF Remembered
  <2>1. \A v \in Mappers \ {u} : port'[v] = port[v]
    BY <1>11 DEF AnswerLost, Throw, PortTypeOK
  <2>2. CASE closing[u]
    <3>1. router' = router \ {port[u]} /\ orphans' = orphans \ {port[u]}
      BY <1>11, <2>2 DEF AnswerLost
    <3> QED BY <2>1, <3>1 DEF Remembered
  <2>3. CASE ~closing[u]
    <3>1. router' = router \cup {wanted[u]} /\ orphans' = orphans \cup {wanted[u]} /\ port[u] = 0
      BY <1>11, <2>3 DEF AnswerLost, OpensWhenClosed
    <3> QED BY <2>1, <3>1 DEF Remembered, PortTypeOK
  <2> QED BY <2>2, <2>3
<1>12. ASSUME NEW u \in Mappers, Removed(u) PROVE Remembered'
  <2> SUFFICES ASSUME NEW p \in router' PROVE p \in orphans' \/ \E v \in Mappers : port'[v] = p
    BY DEF Remembered
  <2>1. /\ router' = router \ {port[u]} /\ orphans' = orphans \ {port[u]}
        /\ \A v \in Mappers \ {u} : port'[v] = port[v]
    BY <1>12 DEF Removed, PortTypeOK
  <2> QED BY <2>1 DEF Remembered
<1>13. ASSUME NEW u \in Mappers, Added(u) PROVE Remembered'
  <2> SUFFICES ASSUME NEW p \in router' PROVE p \in orphans' \/ \E v \in Mappers : port'[v] = p
    BY DEF Remembered
  <2>1. /\ router' = router \cup {wanted[u]} /\ orphans' = orphans \ {wanted[u]}
        /\ port'[u] = wanted[u] /\ port[u] = 0
        /\ \A v \in Mappers \ {u} : port'[v] = port[v]
    BY <1>13 DEF Added, PortTypeOK, OpensWhenClosed
  <2>2. CASE p = wanted[u]
    BY <2>1, <2>2
  <2>3. CASE p # wanted[u]
    <3>1. p \in router /\ p # 0
      BY <2>1, <2>3 DEF PortTypeOK
    <3> QED BY <2>1, <2>3, <3>1 DEF Remembered
  <2> QED BY <2>2, <2>3
<1>14. CASE RouterRestarts
  BY <1>14 DEF RouterRestarts, PortTypeOK, OpensWhenClosed, Remembered
<1>15. CASE ProcessEnds
  BY <1>15 DEF ProcessEnds, PortTypeOK, OpensWhenClosed, Remembered
<1>16. CASE UNCHANGED portVars
  BY <1>16 DEF portVars, PortTypeOK, OpensWhenClosed, Remembered
<1> QED BY <1>1, <1>2, <1>3, <1>4, <1>5, <1>6, <1>7, <1>8, <1>9, <1>10, <1>11, <1>12, <1>13, <1>14, <1>15, <1>16 DEF PortNext

-----------------------------------------------------------------------------
\* The invariant, from which both theorems below follow.
THEOREM PortInductive == PortSpec => []PortInv
<1>1. PortInit => PortInv
  BY DEF PortInit, PortInv, PortTypeOK, OpensWhenClosed, DiesWithPort, Remembered, Resources, ComObjects
<1>2. PortInv /\ [PortNext]_portVars => PortInv'
  BY PortTypeStep, CallStep, RememberedStep DEF PortInv
<1> QED BY <1>1, <1>2, PTL DEF PortSpec

\* All state keeps its type, and nothing but COM objects outlasts a call, however it ends.
THEOREM PortTypes == PortSpec => []PortTypeOK
<1>1. PortInv => PortTypeOK
  BY DEF PortInv
<1> QED BY <1>1, PortInductive, PTL

\* Every forwarded port is one that an object will close, or an exception or a crash has left.
THEOREM PortsRemembered == PortSpec => []Remembered
<1>1. PortInv => Remembered
  BY DEF PortInv
<1> QED BY <1>1, PortInductive, PTL
-----------------------------------------------------------------------------
(* Portable names.                                                           *)

\* The characters that may be left, and all that may occur.
PortableChars == Letters \cup {".", "-", "_"}
NameChars == Characters \cup {"_"}

\* What the assumption on the constants says of characters.
LEMMA NameConstants ==
  /\ "." \notin Letters /\ "-" \notin Letters /\ "_" \notin Letters /\ Space \notin PortableChars /\ Slash \notin PortableChars
  /\ PortableChars \subseteq NameChars /\ ReservedNames \subseteq Seq(Letters) /\ <<>> \notin ReservedNames
  /\ NameChars = PortableChars \cup {Space, Slash} /\ NameLimit \in Nat
<1>1. /\ Letters \cap {".", "-", "_", Space, Slash} = {} /\ {Space, Slash} \cap {".", "-", "_"} = {}
      /\ ReservedNames \subseteq Seq(Letters) \ {<<>>} /\ NameLimit \in Nat
  BY NamesAssumption DEF NamesAssumption
<1> QED
  BY ONLY <1>1 DEF PortableChars, NameChars, Characters

\* WithoutDots is a function.
LEMMA WithoutDotsExists ==
  \E w \in [Seq(NameChars) -> Seq(NameChars)] :
    w = [n \in Seq(NameChars) |->
          IF n = <<>> THEN <<>> ELSE (IF Head(n) = "." THEN <<>> ELSE <<Head(n)>>) \o w[Tail(n)]]
<1> PICK C : C = NameChars
  OBVIOUS
<1> PICK S : S = Seq(C)
  OBVIOUS
<1> PICK first : first = [n \in S |-> IF Head(n) = "." THEN <<>> ELSE <<Head(n)>>]
  OBVIOUS
<1> PICK h : h = [n \in S |-> [f \in [S -> S] |-> IF n = <<>> THEN <<>> ELSE first[n] \o f[Tail(n)]]]
  OBVIOUS
<1> PICK size : size = [n \in S |-> Len(n)]
  OBVIOUS
<1>0. \A n \in S : first[n] = IF Head(n) = "." THEN <<>> ELSE <<Head(n)>>
  OBVIOUS
<1>1. size \in [S -> Nat] /\ \A n \in S : size[n] = Len(n)
  OBVIOUS
<1>2. \A n \in S, f \in [S -> S] : h[n][f] = IF n = <<>> THEN <<>> ELSE first[n] \o f[Tail(n)]
  OBVIOUS
<1>3. ASSUME NEW n \in S, n # <<>> PROVE Tail(n) \in S /\ first[n] \in S /\ Len(Tail(n)) < Len(n)
  <2>1. n \in Seq(C) /\ Len(n) > 0
    BY <1>3, EmptySeq
  <2>2. Head(n) \in C /\ Tail(n) \in Seq(C) /\ Len(Tail(n)) < Len(n)
    BY ONLY <2>1
  <2>3. <<>> \in Seq(C) /\ <<Head(n)>> \in Seq(C)
    BY ONLY <2>2
  <2> QED
    BY ONLY <1>0, <2>2, <2>3, n \in S, S = Seq(C)
<1>4. ASSUME NEW n \in S, NEW f \in [S -> S] PROVE h[n][f] \in S
  <2>1. CASE n = <<>>
    BY <1>2, <2>1
  <2>2. CASE n # <<>>
    <3>1. f[Tail(n)] \in S /\ first[n] \in S
      BY <1>3, <2>2
    <3>2. first[n] \o f[Tail(n)] \in Seq(C)
      BY ONLY <3>1, S = Seq(C), ConcatProperties
    <3> QED
      BY ONLY <1>2, <2>2, <3>2, n \in S, f \in [S -> S], S = Seq(C)
  <2> QED
    BY <2>1, <2>2
<1>5. ASSUME NEW n \in S, NEW f \in [S -> S], NEW g \in [S -> S],
             \A y \in S : size[y] < size[n] => f[y] = g[y]
      PROVE  h[n][f] = h[n][g]
  <2>1. n # <<>> => f[Tail(n)] = g[Tail(n)]
    BY <1>1, <1>3, <1>5
  <2> QED
    BY ONLY <1>2, <2>1, n \in S, f \in [S -> S], g \in [S -> S]
<1>6. Recursive(h, S, S, size)
  BY ONLY <1>4, <1>5 DEF Recursive
<1>7. Solved(h, S, S)
  <2>1. S # {}
    BY EmptySeq
  <2> QED
    BY <1>1, <1>6, <2>1, Recursion
<1>8. PICK w \in [S -> S] : \A n \in S : w[n] = h[n][w]
  BY <1>7 DEF Solved
<1>9. \A n \in S : w[n] = IF n = <<>> THEN <<>> ELSE (IF Head(n) = "." THEN <<>> ELSE <<Head(n)>>) \o w[Tail(n)]
  BY ONLY <1>0, <1>2, <1>8
<1> QED
  BY <1>9

\* What is left has no dots, a name without dots is left as it is, and so is a first character; of dots
\* nothing is left.
LEMMA WithoutDotsIs ==
  ASSUME NEW n \in Seq(NameChars), NEW w, w = WithoutDots[n]
  PROVE  /\ w \in Seq(NameChars \ {"."})
         /\ n \in Seq(PortableChars) => w \in Seq(PortableChars \ {"."})
         /\ n \in Seq(NameChars \ {"."}) => w = n
         /\ n # <<>> /\ n[1] # "." => w # <<>> /\ w[1] = n[1]
         /\ n \in Seq({"."}) => w = <<>>
<1> PICK C, D, P, Q : C = NameChars /\ D = NameChars \ {"."} /\ P = PortableChars /\ Q = PortableChars \ {"."}
  OBVIOUS
<1> PICK v : v = WithoutDots
  OBVIOUS
<1>0. v = [m \in Seq(C) |-> IF m = <<>> THEN <<>> ELSE (IF Head(m) = "." THEN <<>> ELSE <<Head(m)>>) \o v[Tail(m)]]
  <2>1. WithoutDots = [m \in Seq(NameChars) |->
          IF m = <<>> THEN <<>> ELSE (IF Head(m) = "." THEN <<>> ELSE <<Head(m)>>) \o WithoutDots[Tail(m)]]
    BY WithoutDotsExists DEF WithoutDots, NameChars
  <2> QED
    BY ONLY <2>1, v = WithoutDots, C = NameChars /\ D = NameChars \ {"."} /\ P = PortableChars /\ Q = PortableChars \ {"."}
<1>1. \A m \in Seq(C) : v[m] = IF m = <<>> THEN <<>> ELSE (IF Head(m) = "." THEN <<>> ELSE <<Head(m)>>) \o v[Tail(m)]
  BY ONLY <1>0
<1> DEFINE Is(m) == /\ v[m] \in Seq(D)
                    /\ m \in Seq(P) => v[m] \in Seq(Q)
                    /\ m \in Seq(D) => v[m] = m
                    /\ m # <<>> /\ m[1] # "." => v[m] # <<>> /\ v[m][1] = m[1]
                    /\ m \in Seq({"."}) => v[m] = <<>>
<1> PICK T : T = {k \in Nat : \A m \in Seq(C) : Len(m) = k => Is(m)}
  OBVIOUS
<1>2. 0 \in T
  <2>1. ASSUME NEW m \in Seq(C), Len(m) = 0 PROVE Is(m)
    <3>1. m = <<>>
      BY <2>1, EmptySeq
    <3>2. v[m] = <<>>
      BY ONLY <1>1, <3>1, m \in Seq(C)
    <3> QED
      BY <3>1, <3>2
  <2> QED
    BY <2>1
<1>3. ASSUME NEW k \in Nat, k \in T PROVE k + 1 \in T
  <2>1. ASSUME NEW m \in Seq(C), Len(m) = k + 1 PROVE Is(m)
    <3>1. m # <<>> /\ Tail(m) \in Seq(C) /\ Len(Tail(m)) = k /\ Head(m) \in C /\ Head(m) = m[1]
      BY <2>1, EmptySeq
    <3> PICK d, t, r : d = Head(m) /\ t = Tail(m) /\ r = v[t]
      OBVIOUS
    <3>2. Is(t)
      BY <1>3, <3>1
    <3>3. v[m] = (IF d = "." THEN <<>> ELSE <<d>>) \o r
      BY <1>1, <3>1
    <3>4. r \in Seq(D) /\ (t \in Seq(P) => r \in Seq(Q)) /\ (t \in Seq(D) => r = t) /\ (t \in Seq({"."}) => r = <<>>)
      BY <3>2
    <3>5. CASE d = "."
      <4>1. v[m] = r
        <5>1. v[m] = <<>> \o r
          BY ONLY <3>3, <3>5
        <5> QED
          BY ONLY <3>4, <5>1, ConcatEmptySeq
      <4>2. m \in Seq(P) => t \in Seq(P)
        BY <2>1
      <4>3. m \notin Seq(D)
        <5>1. ASSUME m \in Seq(D) PROVE FALSE
          <6>1. m[1] \in D
            BY ONLY <2>1, <5>1, k \in Nat
          <6> QED
            BY <3>1, <3>5, <6>1
        <5> QED
          BY <5>1
      <4>4. m \in Seq({"."}) => t \in Seq({"."})
        BY <2>1
      <4> QED
        BY <3>1, <3>4, <3>5, <4>1, <4>2, <4>3, <4>4
    <3>6. CASE d # "."
      <4>1. v[m] = <<d>> \o r /\ d \in D
        BY <3>1, <3>3, <3>6
      <4>2. v[m] \in Seq(D) /\ v[m] # <<>> /\ v[m][1] = d
        BY ONLY <3>4, <4>1
      <4>3. ASSUME m \in Seq(P) PROVE v[m] \in Seq(Q)
        <5>1. t \in Seq(P) /\ m[1] \in P
          BY ONLY <2>1, <4>3, k \in Nat, d = Head(m) /\ t = Tail(m) /\ r = v[t]
        <5>2. d \in Q /\ r \in Seq(Q)
          BY <3>1, <3>4, <3>6, <5>1
        <5> QED
          BY ONLY <4>1, <5>2
      <4>4. ASSUME m \in Seq(D) PROVE v[m] = m
        <5>1. t \in Seq(D)
          BY ONLY <2>1, <4>4, k \in Nat, d = Head(m) /\ t = Tail(m) /\ r = v[t]
        <5>2. r = t
          BY <3>4, <5>1
        <5>3. m = <<d>> \o t
          BY ONLY <2>1, <4>4, k \in Nat, d = Head(m) /\ t = Tail(m) /\ r = v[t]
        <5> QED
          BY ONLY <4>1, <5>2, <5>3
      <4>5. m \notin Seq({"."})
        <5>1. ASSUME m \in Seq({"."}) PROVE FALSE
          <6>1. m[1] \in {"."}
            BY ONLY <2>1, <5>1, k \in Nat
          <6> QED
            BY <3>1, <3>6, <6>1
        <5> QED
          BY <5>1
      <4> QED
        BY <3>1, <4>2, <4>3, <4>4, <4>5
    <3> QED
      BY <3>5, <3>6
  <2> QED
    BY <2>1
<1>4. Nat \subseteq T
  BY ONLY <1>2, <1>3, Induction
<1>5. Is(n)
  <2>1. Len(n) \in T
    BY <1>4
  <2> QED
    BY <2>1
<1> QED
  BY <1>5

-----------------------------------------------------------------------------
\* What the functions leave of a name, if it is neither empty nor one of the special names.
NoDotAtEnds(m) == m \in Seq(PortableChars) /\ Len(m) > 0 /\ m[1] # "." /\ m[Len(m)] # "."
Nice(m) == NoDotAtEnds(m) /\ m \notin ReservedNames

\* A name of one character, once or twice.
LEMMA OneOrTwo ==
  ASSUME NEW P, NEW d \in P, NEW m, m = <<d>> \/ m = <<d, d>>
  PROVE  m \in Seq(P) /\ Len(m) > 0 /\ m[1] = d /\ m # <<>>
<1>1. CASE m = <<d>>
  BY ONLY <1>1, d \in P
<1>2. CASE m = <<d, d>>
  BY ONLY <1>2, d \in P
<1> QED
  BY <1>1, <1>2

\* The special names are portable and left alone.
LEMMA DotNamesAre ==
  ASSUME NEW m \in DotNames
  PROVE  /\ m \in Seq(PortableChars) /\ m # <<>> /\ m \notin ReservedNames /\ m[1] = "." /\ portable_name(m)
         /\ Unreserved(m) = m
<1>1. m = <<".">> \/ m = <<".", ".">>
  BY DEF DotNames
<1>2. Len(m) > 0 /\ m[1] = "." /\ m # <<>>
  <2>1. "." \in {"."}
    OBVIOUS
  <2> QED
    BY ONLY <1>1, <2>1, OneOrTwo
<1>3. m \in Seq(PortableChars)
  <2>1. "." \in PortableChars
    BY DEF PortableChars
  <2> QED
    BY ONLY <1>1, <2>1, OneOrTwo
<1>4. m \notin ReservedNames
  <2>1. ASSUME m \in ReservedNames PROVE FALSE
    <3>1. m \in Seq(Letters) /\ "." \notin Letters
      BY <2>1, NameConstants
    <3>2. m[1] \in Letters
      BY ONLY <1>2, <3>1
    <3> QED
      BY ONLY <1>2, <3>1, <3>2
  <2> QED
    BY <2>1
<1> QED
  BY <1>2, <1>3, <1>4 DEF portable_name, Unreserved, isReservedName

\* A special name begins with a dot.
LEMMA NotDotName == ASSUME NEW m, m[1] # "." PROVE m \notin DotNames
BY DEF DotNames

\* The characters of a name are in a set if and only if it is a sequence over it.
LEMMA Elements ==
  ASSUME NEW C, NEW S, NEW m \in Seq(C)
  PROVE  (ToSet(m) \subseteq S) <=> m \in Seq(S)
<1>1. ToSet(m) = {m[i] : i \in 1 .. Len(m)} /\ Len(m) \in Nat
  BY ONLY m \in Seq(C) DEF ToSet
<1>2. ASSUME ToSet(m) \subseteq S PROVE m \in Seq(S)
  <2>1. \A i \in 1 .. Len(m) : m[i] \in S
    BY ONLY <1>1, <1>2
  <2> QED
    BY ONLY <2>1, m \in Seq(C)
<1>3. ASSUME m \in Seq(S) PROVE ToSet(m) \subseteq S
  <2>1. \A i \in 1 .. Len(m) : m[i] \in S
    BY ONLY <1>3
  <2> QED
    BY ONLY <1>1, <2>1
<1> QED
  BY <1>2, <1>3

\* portable_name by the characters of the name.
LEMMA PortableIs ==
  ASSUME NEW m \in Seq(NameChars), m \notin DotNames
  PROVE  portable_name(m) <=> NoDotAtEnds(m) /\ m[1] # "-"
<1>1. (ToSet(m) \subseteq PortableChars) <=> m \in Seq(PortableChars)
  BY Elements
<1>2. m # <<>> <=> Len(m) > 0
  BY EmptySeq
<1>3. Len(m) > 0 => Head(m) = m[1]
  BY ONLY m \in Seq(NameChars)
<1>4. Last(m) = m[Len(m)]
  BY DEF Last
<1> QED
  BY <1>1, <1>2, <1>3, <1>4 DEF portable_name, NoDotAtEnds, PortableChars

\* A name is left alone, or is none of a device behind the underscore.
LEMMA UnreservedIs ==
  ASSUME NEW m, NoDotAtEnds(m)
  PROVE  Nice(Unreserved(m)) /\ (m \notin ReservedNames => Unreserved(m) = m)
<1>1. CASE m \notin ReservedNames
  BY <1>1 DEF Nice, Unreserved, isReservedName
<1>2. CASE m \in ReservedNames
  <2> PICK u : u = "_"
    OBVIOUS
  <2> PICK v, P : v = Append(m, u) /\ P = PortableChars
    OBVIOUS
  <2>1. m \in Seq(P) /\ Len(m) > 0 /\ m[1] # "." /\ u \in P /\ u # "."
    BY DEF NoDotAtEnds, PortableChars
  <2>2. v \in Seq(P) /\ Len(v) = Len(m) + 1 /\ v[1] = m[1] /\ v[Len(m) + 1] = u /\ Len(m) + 1 > 0
    BY ONLY <2>1, v = Append(m, u) /\ P = PortableChars
  <2>3. ASSUME v \in ReservedNames PROVE FALSE
    <3>1. v \in Seq(Letters) /\ u \notin Letters
      BY <2>3, NameConstants
    <3>2. v[Len(m) + 1] \in Letters
      BY ONLY <2>1, <2>2, <3>1
    <3> QED
      BY ONLY <2>2, <3>1, <3>2
  <2>4. Unreserved(m) = v
    BY <1>2 DEF Unreserved, isReservedName
  <2> QED
    BY <1>2, <2>1, <2>2, <2>3, <2>4 DEF Nice, NoDotAtEnds
<1> QED
  BY <1>1, <1>2

\* Replaced leaves only portable characters, and those as they are.
LEMMA ReplacedIs ==
  ASSUME NEW n \in Seq(NameChars)
  PROVE  Replaced(n) \in Seq(PortableChars) /\ (n \in Seq(PortableChars) => Replaced(n) = n)
<1> PICK r, l, C, P : r = Replaced(n) /\ l = Len(n) /\ C = NameChars /\ P = PortableChars
  OBVIOUS
<1>1. l \in Nat /\ \A i \in 1 .. l : n[i] \in C
  OBVIOUS
<1>2. r = [i \in 1 .. l |-> IF n[i] \in {Space, Slash} THEN "_" ELSE n[i]]
  <2>1. DOMAIN n = 1 .. l
    OBVIOUS
  <2> QED
    BY ONLY <2>1, r = Replaced(n) /\ l = Len(n) /\ C = NameChars /\ P = PortableChars DEF Replaced
<1>3. C = P \cup {Space, Slash} /\ "_" \in P /\ Space \notin P /\ Slash \notin P
  BY NameConstants DEF PortableChars
<1>4. r \in [1 .. l -> P]
  BY ONLY <1>1, <1>2, <1>3
<1>5. r \in Seq(P)
  BY ONLY <1>1, <1>4
<1>6. ASSUME n \in Seq(P) PROVE r = n
  <2>1. n = [i \in 1 .. l |-> n[i]] /\ \A i \in 1 .. l : n[i] \in P
    BY ONLY <1>6, r = Replaced(n) /\ l = Len(n) /\ C = NameChars /\ P = PortableChars
  <2> QED
    BY ONLY <1>2, <1>3, <2>1
<1> QED
  BY <1>5, <1>6

\* The least and the greatest of some of the numbers up to l.
LEMMA Extremes ==
  ASSUME NEW T, NEW l \in Nat, T \subseteq 1 .. l, T # {}
  PROVE  Min(T) \in T /\ Max(T) \in T /\ \A x \in T : Min(T) <= x /\ x <= Max(T)
<1>1. T \subseteq Nat
  OBVIOUS
<1>2. \E x \in T : \A y \in T : x <= y
  BY <1>1, Least
<1>3. Min(T) \in T /\ \A y \in T : Min(T) <= y
  BY <1>2 DEF Min
<1>4. \E x \in T : \A y \in T : x >= y
  <2> PICK U : U = {l - x : x \in T}
    OBVIOUS
  <2>0. \A x \in T : x \in 1 .. l
    OBVIOUS
  <2>1. U \subseteq Nat /\ U # {}
    <3>1. \A x \in T : l - x \in Nat
      BY ONLY <2>0, l \in Nat
    <3>2. U \subseteq Nat
      BY ONLY <3>1, U = {l - x : x \in T}
    <3>3. U # {}
      BY ONLY T # {}, U = {l - x : x \in T}
    <3> QED
      BY <3>2, <3>3
  <2>2. PICK u \in U : \A y \in U : u <= y
    BY <2>1, Least
  <2>3. PICK x \in T : u = l - x
    OBVIOUS
  <2>4. ASSUME NEW y \in T PROVE x >= y
    <3>1. u <= l - y
      BY <2>2
    <3>2. x \in Nat /\ y \in Nat
      BY <1>1
    <3> QED
      BY ONLY <2>3, <3>1, <3>2, l \in Nat
  <2> QED
    BY <2>4
<1>5. Max(T) \in T /\ \A y \in T : Max(T) >= y
  BY <1>4 DEF Max
<1>6. \A y \in T : y \in Nat /\ Max(T) \in Nat
  BY <1>1, <1>5
<1> QED
  BY <1>3, <1>5, <1>6

\* Where the dots are.
LEMMA DotsAre == ASSUME NEW C, NEW m \in Seq(C) PROVE Dots(m) = {i \in 1 .. Len(m) : m[i] = "."} /\ Dots(m) \subseteq 1 .. Len(m)
BY DEF Dots

\* Trimmed leaves nothing, or a name with no dot at its ends ...
LEMMA TrimmedIs ==
  ASSUME NEW r \in Seq(PortableChars)
  PROVE  Trimmed(r) = <<>> \/ NoDotAtEnds(Trimmed(r))
<1> PICK T, l, P : T = DOMAIN r \ Dots(r) /\ l = Len(r) /\ P = PortableChars
  OBVIOUS
<1>1. l \in Nat /\ T = {i \in 1 .. l : r[i] # "."}
  BY DotsAre
<1>2. CASE T = {}
  BY <1>2 DEF Trimmed
<1>3. CASE T # {}
  <2> PICK a, b, t : a = Min(T) /\ b = Max(T) /\ t = SubSeq(r, a, b)
    OBVIOUS
  <2>1. a \in T /\ b \in T /\ a <= b
    BY ONLY <1>1, <1>3, Extremes, a = Min(T) /\ b = Max(T) /\ t = SubSeq(r, a, b)
  <2>2. a \in 1 .. l /\ b \in 1 .. l /\ r[a] # "." /\ r[b] # "."
    BY <1>1, <2>1
  <2>3. a \in Int /\ b \in Int /\ \A i \in a .. b : r[i] \in P
    <3>1. \A i \in 1 .. l : r[i] \in P
      OBVIOUS
    <3>2. \A i \in a .. b : i \in 1 .. l
      BY ONLY <1>1, <2>2
    <3> QED
      BY ONLY <2>2, <3>1, <3>2
  <2>4. /\ t \in Seq(P) /\ Len(t) = IF a <= b THEN b - a + 1 ELSE 0
        /\ \A i \in 1 .. b - a + 1 : t[i] = r[a + i - 1]
    BY ONLY <2>3, SubSeqProperties, a = Min(T) /\ b = Max(T) /\ t = SubSeq(r, a, b)
  <2>5. Len(t) = b - a + 1 /\ Len(t) > 0 /\ t[1] = r[a] /\ t[Len(t)] = r[b]
    <3>1. Len(t) = b - a + 1 /\ 1 \in 1 .. b - a + 1 /\ b - a + 1 \in 1 .. b - a + 1
      BY ONLY <2>1, <2>2, <2>4
    <3>2. a + 1 - 1 = a /\ a + (b - a + 1) - 1 = b
      BY ONLY <2>2
    <3> QED
      BY ONLY <2>4, <3>1, <3>2, <2>2
  <2>6. Trimmed(r) = t
    BY <1>3 DEF Trimmed
  <2> QED
    BY <2>2, <2>4, <2>5, <2>6 DEF NoDotAtEnds
<1> QED
  BY <1>2, <1>3

\* ... and leaves such a name as it is.
LEMMA TrimmedKept ==
  ASSUME NEW r, NoDotAtEnds(r)
  PROVE  Trimmed(r) = r
<1> PICK T, l, P : T = DOMAIN r \ Dots(r) /\ l = Len(r) /\ P = PortableChars
  OBVIOUS
<1>0. r \in Seq(P) /\ l \in Nat /\ l > 0 /\ r[1] # "." /\ r[l] # "."
  BY DEF NoDotAtEnds
<1>1. T = {i \in 1 .. l : r[i] # "."} /\ T \subseteq 1 .. l
  BY <1>0, DotsAre
<1>2. 1 \in T /\ l \in T /\ T # {}
  BY ONLY <1>0, <1>1
<1> PICK a, b : a = Min(T) /\ b = Max(T)
  OBVIOUS
<1>3. a \in T /\ b \in T /\ \A x \in T : a <= x /\ x <= b
  BY ONLY <1>0, <1>1, <1>2, Extremes, a = Min(T) /\ b = Max(T)
<1>4. a = 1 /\ b = l
  BY ONLY <1>0, <1>1, <1>2, <1>3
<1>5. SubSeq(r, 1, l) = r
  BY ONLY <1>0, T = DOMAIN r \ Dots(r) /\ l = Len(r) /\ P = PortableChars
<1> QED
  BY <1>2, <1>4, <1>5 DEF Trimmed

\* What makePortableName leaves of a name is kept by it.
LEMMA NameMade ==
  ASSUME NEW n \in Seq(NameChars), NEW m, m = makePortableName(n)
  PROVE  m = <<>> \/ m \in DotNames \/ Nice(m)
<1>1. CASE n = <<>>
  BY <1>1, NameConstants DEF makePortableName, Unreserved, isReservedName
<1>2. CASE n \in DotNames
  <2>1. m = Unreserved(n)
    BY <1>2, DotNamesAre DEF makePortableName
  <2> QED
    BY <1>2, <2>1, DotNamesAre
<1>3. CASE n \notin DotNames /\ portable_name(n)
  <2>1. m = Unreserved(n)
    BY <1>3 DEF makePortableName
  <2>2. NoDotAtEnds(n)
    BY <1>3, PortableIs
  <2> QED
    BY <2>1, <2>2, UnreservedIs
<1>4. CASE n # <<>> /\ ~portable_name(n)
  <2> PICK r : r = Replaced(n)
    OBVIOUS
  <2>1. r \in Seq(PortableChars)
    BY ReplacedIs
  <2>2. m = Unreserved(IF r \in DotNames THEN r ELSE Trimmed(r))
    BY <1>4 DEF makePortableName
  <2>3. CASE r \in DotNames
    BY <2>2, <2>3, DotNamesAre
  <2>4. CASE r \notin DotNames
    <3>1. m = Unreserved(Trimmed(r))
      BY <2>2, <2>4
    <3>2. CASE Trimmed(r) = <<>>
      BY <3>1, <3>2, NameConstants DEF Unreserved, isReservedName
    <3>3. CASE Trimmed(r) # <<>>
      BY <2>1, <3>1, <3>3, TrimmedIs, UnreservedIs
    <3> QED
      BY <3>2, <3>3
  <2> QED
    BY <2>3, <2>4
<1> QED
  BY <1>1, <1>2, <1>3, <1>4

\* What the functions below ask of a nice name.
LEMMA NiceIs ==
  ASSUME NEW m, Nice(m)
  PROVE  /\ m \in Seq(PortableChars) /\ m \in Seq(NameChars) /\ Len(m) \in Nat /\ Len(m) > 0 /\ m # <<>>
         /\ m[1] # "." /\ m[Len(m)] # "." /\ m \notin DotNames /\ Head(m) = m[1] /\ ~isReservedName(m)
         /\ Unreserved(m) = m /\ (portable_name(m) <=> m[1] # "-") /\ NoDotAtEnds(m)
<1>1. m \in Seq(PortableChars) /\ Len(m) > 0 /\ m[1] # "." /\ m[Len(m)] # "." /\ m \notin ReservedNames /\ NoDotAtEnds(m)
  BY DEF Nice, NoDotAtEnds
<1>2. m \in Seq(NameChars)
  BY <1>1, NameConstants, SeqMonotonic
<1>3. m \notin DotNames
  BY <1>1, NotDotName
<1>4. Len(m) \in Nat /\ Head(m) = m[1] /\ m # <<>>
  BY <1>1, EmptySeq
<1> QED
  BY <1>1, <1>2, <1>3, <1>4, PortableIs DEF Unreserved, isReservedName

\* makePortableName keeps the special and the nice names.
LEMMA NameKept ==
  ASSUME NEW m, m \in DotNames \/ Nice(m)
  PROVE  makePortableName(m) = m
<1>1. CASE m \in DotNames
  BY <1>1, DotNamesAre DEF makePortableName
<1>2. CASE Nice(m)
  <2>1. Replaced(m) = m /\ Trimmed(m) = m
    BY <1>2, NiceIs, ReplacedIs, TrimmedKept
  <2> QED
    BY <1>2, <2>1, NiceIs DEF makePortableName
<1> QED
  BY <1>1, <1>2

\* A name of portable characters is valid, is too long, or has the name of a device in front of a dot
\* or is one.
ValidUnless(m) ==
  isValidFileName(m) \/ Len(m) > NameLimit \/ (\E n \in ReservedNames : IsPrefix(Append(n, "."), m)) \/ m \in ReservedNames

\* isValidFileName looks at the name in front of the first dot.
LEMMA ValidNames == ASSUME NEW m, NoDotAtEnds(m) PROVE ValidUnless(m)
<1> PICK l, P : l = Len(m) /\ P = PortableChars
  OBVIOUS
<1>1. m \in Seq(P) /\ l \in Nat /\ l > 0 /\ m[1] # "." /\ m[l] # "." /\ NameLimit \in Nat
  <2>1. m \in Seq(P) /\ l > 0 /\ m[1] # "." /\ m[l] # "."
    BY DEF NoDotAtEnds
  <2>2. l \in Nat
    BY ONLY <2>1, l = Len(m) /\ P = PortableChars
  <2> QED
    BY <2>1, <2>2, NameConstants
<1>2. Head(m) = m[1] /\ Last(m) = m[l]
  BY ONLY <1>1, l = Len(m) /\ P = PortableChars DEF Last
<1>3. Last(m) # Space /\ Slash \notin ToSet(m) /\ {Head(m), Last(m)} \cap {"."} = {}
  <2>1. Space \notin P /\ Slash \notin P
    BY NameConstants
  <2>2. ToSet(m) \subseteq P
    BY <1>1, Elements
  <2>3. m[l] \in P
    BY ONLY <1>1, l = Len(m) /\ P = PortableChars
  <2> QED
    BY ONLY <1>1, <1>2, <2>1, <2>2, <2>3
<1> PICK T, k : T = {i - 1 : i \in Dots(m)} \cup {l} /\ k = Min(T)
  OBVIOUS
<1>4. Dots(m) = {i \in 1 .. l : m[i] = "."}
  BY <1>1, DotsAre
<1>5. k \in T
  <2>1. T \subseteq Nat /\ T # {}
    BY ONLY <1>1, <1>4, T = {i - 1 : i \in Dots(m)} \cup {l} /\ k = Min(T)
  <2>2. \E x \in T : \A y \in T : x <= y
    BY ONLY <2>1, Least
  <2> QED
    BY ONLY <2>2, T = {i - 1 : i \in Dots(m)} \cup {l} /\ k = Min(T) DEF Min
<1>6. ~isReservedName(SubSeq(m, 1, k)) \/ (\E n \in ReservedNames : IsPrefix(Append(n, "."), m)) \/ m \in ReservedNames
  <2>1. CASE k = l
    <3>1. SubSeq(m, 1, k) = m
      BY ONLY <1>1, <2>1, l = Len(m) /\ P = PortableChars
    <3> QED
      BY <3>1 DEF isReservedName
  <2>2. CASE k # l
    <3>1. k + 1 \in 1 .. l /\ m[k + 1] = "." /\ k \in Nat /\ k < l
      BY ONLY <1>1, <1>4, <1>5, <2>2, T = {i - 1 : i \in Dots(m)} \cup {l} /\ k = Min(T)
    <3> PICK s, d : s = SubSeq(m, 1, k) /\ d = "."
      OBVIOUS
    <3>2. s \in Seq(P) /\ Len(s) = k /\ \A i \in 1 .. k : s[i] = m[i]
      <4>1. s = SubSeq(m, 1, k) /\ 1 \in Int /\ k \in Int /\ \A i \in 1 .. k : m[i] \in P
        BY ONLY <1>1, <3>1, l = Len(m) /\ P = PortableChars, s = SubSeq(m, 1, k) /\ d = "."
      <4>2. /\ s \in Seq(P) /\ Len(s) = (IF 1 <= k THEN k - 1 + 1 ELSE 0)
            /\ \A i \in 1 .. k - 1 + 1 : s[i] = m[1 + i - 1]
        BY ONLY <4>1, SubSeqProperties
      <4>3. (IF 1 <= k THEN k - 1 + 1 ELSE 0) = k /\ k - 1 + 1 = k
        BY ONLY <3>1
      <4>4. \A i \in 1 .. k : 1 + i - 1 = i
        BY ONLY <3>1
      <4> QED
        BY ONLY <4>2, <4>3, <4>4
    <3> PICK e : e = Append(s, d)
      OBVIOUS
    <3>3. d \in P
      BY DEF PortableChars
    <3>4. e \in Seq(P) /\ Len(e) = k + 1 /\ \A i \in 1 .. k + 1 : e[i] = m[i]
      <4>1. e \in Seq(P) /\ Len(e) = k + 1 /\ e[k + 1] = d /\ \A i \in 1 .. k : e[i] = s[i]
        BY ONLY <3>1, <3>2, <3>3, e = Append(s, d)
      <4>2. \A i \in 1 .. k + 1 : i = k + 1 \/ i \in 1 .. k
        BY ONLY <3>1
      <4> QED
        BY ONLY <3>1, <3>2, <4>1, <4>2, s = SubSeq(m, 1, k) /\ d = "."
    <3>5. IsPrefix(e, m)
      <4>1. \A i \in 1 .. k + 1 : i \in 1 .. l
        BY ONLY <1>1, <3>1
      <4>2. SubSeq(e, 1, k + 1) = [i \in 1 .. k + 1 |-> e[i]] /\ SubSeq(m, 1, k + 1) = [i \in 1 .. k + 1 |-> m[i]]
        BY ONLY <1>1, <3>1, <3>4, l = Len(m) /\ P = PortableChars
      <4>3. SubSeq(e, 1, k + 1) = SubSeq(m, 1, k + 1)
        BY ONLY <3>4, <4>2
      <4> QED
        BY ONLY <1>1, <3>1, <3>4, <4>3, l = Len(m) /\ P = PortableChars DEF IsPrefix
    <3> QED
      BY <3>5 DEF isReservedName
  <2> QED
    BY <2>1, <2>2
<1>7. Len(m) \in 1 .. NameLimit \/ Len(m) > NameLimit
  BY ONLY <1>1, l = Len(m) /\ P = PortableChars
<1> QED
  BY <1>3, <1>6, <1>7 DEF ValidUnless, isValidFileName

\* A nice name with one dot, and at most three characters behind it.
Short(s) == Nice(s) /\ \E k \in Nat : k > 0 /\ Dots(s) = {k + 1} /\ Len(s) - (k + 1) \in 1 .. 3

\* A part of a name.
LEMMA PartIs ==
  ASSUME NEW P, NEW r \in Seq(P), NEW i \in Nat, NEW j \in Nat, i >= 1, i <= j + 1, j <= Len(r), NEW s, s = SubSeq(r, i, j)
  PROVE  s \in Seq(P) /\ Len(s) = j - i + 1 /\ \A k \in 1 .. j - i + 1 : s[k] = r[i + k - 1]
<1>1. i \in Int /\ j \in Int /\ \A k \in i .. j : r[k] \in P
  <2>1. \A k \in 1 .. Len(r) : r[k] \in P
    BY ONLY r \in Seq(P)
  <2>2. Len(r) \in Nat
    BY ONLY r \in Seq(P)
  <2>3. \A k \in i .. j : k \in 1 .. Len(r)
    BY ONLY <2>2, i \in Nat, j \in Nat, i >= 1, j <= Len(r)
  <2> QED
    BY ONLY <2>1, <2>3, i \in Nat, j \in Nat
<1>2. /\ s \in Seq(P) /\ Len(s) = (IF i <= j THEN j - i + 1 ELSE 0)
      /\ \A k \in 1 .. j - i + 1 : s[k] = r[i + k - 1]
  BY ONLY <1>1, SubSeqProperties, s = SubSeq(r, i, j)
<1>3. (IF i <= j THEN j - i + 1 ELSE 0) = j - i + 1
  BY ONLY i \in Nat, j \in Nat, i <= j + 1
<1> QED
  BY ONLY <1>2, <1>3

\* Shortened leaves one dot of a nice name, and at most three characters behind it ...
LEMMA ShortenedIs ==
  ASSUME NEW r, Nice(r), Dots(r) # {}
  PROVE  Short(Shortened(r))
<1> PICK l, pos, P, Q : l = Len(r) /\ pos = Max(Dots(r)) /\ P = PortableChars /\ Q = PortableChars \ {"."}
  OBVIOUS
<1>0. r \in Seq(P) /\ l \in Nat /\ l > 0 /\ r[1] # "." /\ r[l] # "."
  BY NiceIs
<1>1. Dots(r) = {i \in 1 .. l : r[i] = "."} /\ Dots(r) \subseteq 1 .. l
  BY <1>0, DotsAre
<1>2. pos \in Dots(r) /\ \A i \in Dots(r) : i <= pos
  BY ONLY <1>0, <1>1, Dots(r) # {}, Extremes, l = Len(r) /\ pos = Max(Dots(r)) /\ P = PortableChars /\ Q = PortableChars \ {"."}
<1>3. pos \in Nat /\ pos > 1 /\ pos < l /\ r[pos] = "."
  BY ONLY <1>0, <1>1, <1>2
<1> PICK x, a : x = SubSeq(r, 1, pos - 1) /\ a = WithoutDots[x]
  OBVIOUS
<1>4. x \in Seq(P) /\ Len(x) = pos - 1 /\ x[1] = r[1]
  <2>1. 1 \in Nat /\ pos - 1 \in Nat /\ 1 <= (pos - 1) + 1 /\ pos - 1 <= Len(r) /\ (pos - 1) - 1 + 1 = pos - 1 /\ 1 \in 1 .. pos - 1
    BY ONLY <1>3, l = Len(r) /\ pos = Max(Dots(r)) /\ P = PortableChars /\ Q = PortableChars \ {"."}, <1>0
  <2>2. x \in Seq(P) /\ Len(x) = (pos - 1) - 1 + 1 /\ \A k \in 1 .. (pos - 1) - 1 + 1 : x[k] = r[1 + k - 1]
    <3>1. x = SubSeq(r, 1, pos - 1)
      OBVIOUS
    <3> QED
      BY ONLY <1>0, <2>1, <3>1, PartIs
  <2>3. 1 + 1 - 1 = 1
    OBVIOUS
  <2> QED
    BY ONLY <2>1, <2>2, <2>3
<1>5. a \in Seq(Q) /\ Len(a) \in Nat /\ Len(a) > 0 /\ a[1] = r[1]
  <2>1. x \in Seq(NameChars)
    BY <1>4, NameConstants, SeqMonotonic
  <2>2. x # <<>>
    BY <1>3, <1>4
  <2>3. a \in Seq(Q) /\ a # <<>> /\ a[1] = r[1]
    BY <1>0, <1>4, <2>1, <2>2, WithoutDotsIs
  <2> QED
    BY <2>3, EmptySeq
<1> PICK e, b : e = Min({l, pos + 3}) /\ b = SubSeq(r, pos, e)
  OBVIOUS
<1>6. e \in Nat /\ e > pos /\ e <= l /\ e <= pos + 3
  <2>1. e = IF l <= pos + 3 THEN l ELSE pos + 3
    BY <1>0, <1>3, MinOfTwo
  <2> QED
    BY ONLY <1>0, <1>3, <2>1
<1>7. b \in Seq(P) /\ Len(b) = e - pos + 1 /\ \A k \in 1 .. e - pos + 1 : b[k] = r[pos + k - 1]
  <2>1. pos >= 1 /\ pos <= e + 1 /\ e <= Len(r) /\ b = SubSeq(r, pos, e)
    BY <1>3, <1>6
  <2> QED
    BY ONLY <1>0, <1>3, <1>6, <2>1, PartIs
<1>8. b[1] = "." /\ \A k \in 2 .. e - pos + 1 : b[k] # "."
  <2>1. 1 \in 1 .. e - pos + 1 /\ pos + 1 - 1 = pos
    BY ONLY <1>3, <1>6
  <2>2. b[1] = "."
    BY ONLY <1>3, <1>7, <2>1
  <2>3. ASSUME NEW k \in 2 .. e - pos + 1 PROVE b[k] # "."
    <3>1. k \in 1 .. e - pos + 1 /\ pos + k - 1 \in 1 .. l /\ pos + k - 1 > pos
      BY ONLY <1>0, <1>3, <1>6, k \in 2 .. e - pos + 1
    <3>2. r[pos + k - 1] # "."
      BY ONLY <1>1, <1>2, <1>3, <3>1
    <3> QED
      BY ONLY <1>7, <3>1, <3>2
  <2> QED
    BY ONLY <2>2, <2>3
<1> PICK s, k, h : s = a \o b /\ k = Len(a) /\ h = Len(b)
  OBVIOUS
<1>9. k \in Nat /\ k > 0 /\ h \in 2 .. 4 /\ h = e - pos + 1
  BY ONLY <1>3, <1>5, <1>6, <1>7, s = a \o b /\ k = Len(a) /\ h = Len(b)
<1>10. /\ s \in Seq(P) /\ Len(s) = k + h /\ \A i \in 1 .. k : s[i] = a[i]
       /\ \A i \in 1 .. h : s[k + i] = b[i]
  <2>1. a \in Seq(P)
    BY ONLY <1>5, SeqMonotonic, l = Len(r) /\ pos = Max(Dots(r)) /\ P = PortableChars /\ Q = PortableChars \ {"."}
  <2>2. /\ a \o b \in Seq(P) /\ Len(a \o b) = Len(a) + Len(b)
        /\ \A i \in 1 .. Len(a) + Len(b) : (a \o b)[i] = IF i <= Len(a) THEN a[i] ELSE b[i - Len(a)]
    BY ONLY <1>7, <2>1, ConcatProperties
  <2>3. /\ s \in Seq(P) /\ Len(s) = k + h
        /\ \A i \in 1 .. k + h : s[i] = IF i <= k THEN a[i] ELSE b[i - k]
    BY ONLY <2>2, s = a \o b /\ k = Len(a) /\ h = Len(b)
  <2>4. ASSUME NEW i \in 1 .. k PROVE s[i] = a[i]
    <3>1. i \in 1 .. k + h /\ i <= k
      BY ONLY <1>9, i \in 1 .. k
    <3> QED
      BY ONLY <2>3, <3>1
  <2>5. ASSUME NEW i \in 1 .. h PROVE s[k + i] = b[i]
    <3>1. k + i \in 1 .. k + h /\ ~(k + i <= k) /\ (k + i) - k = i
      BY ONLY <1>9, i \in 1 .. h
    <3> QED
      BY ONLY <2>3, <3>1
  <2> QED
    BY ONLY <2>3, <2>4, <2>5
<1>11. ASSUME NEW i \in 1 .. k PROVE s[i] # "."
  <2>1. a[i] \in Q /\ s[i] = a[i]
    BY ONLY <1>5, <1>9, <1>10, i \in 1 .. k, s = a \o b /\ k = Len(a) /\ h = Len(b)
  <2> QED
    BY <2>1
<1>12. s[k + 1] = "." /\ \A i \in 2 .. h : s[k + i] # "."
  <2>1. 1 \in 1 .. h /\ \A i \in 2 .. h : i \in 1 .. h
    BY ONLY <1>9
  <2> QED
    BY ONLY <1>8, <1>9, <1>10, <2>1
<1>13. Dots(s) = {k + 1}
  <2>1. Dots(s) = {i \in 1 .. k + h : s[i] = "."}
    <3>1. s \in Seq(P) /\ Len(s) = k + h
      BY <1>10
    <3>2. Dots(s) = {i \in 1 .. Len(s) : s[i] = "."}
      BY ONLY <3>1, DotsAre
    <3> QED
      BY ONLY <3>1, <3>2
  <2>2. ASSUME NEW i \in 1 .. k + h, s[i] = "." PROVE i = k + 1
    <3>1. ~(i \in 1 .. k)
      BY <1>11, <2>2
    <3>2. ~(i > k + 1)
      <4>1. ASSUME i > k + 1 PROVE FALSE
        <5>1. i - k \in 2 .. h /\ k + (i - k) = i
          BY ONLY <1>9, <4>1, i \in 1 .. k + h
        <5>2. s[k + (i - k)] # "."
          BY ONLY <1>12, <5>1
        <5> QED
          BY ONLY <2>2, <5>1, <5>2
      <4> QED
        BY <4>1
    <3> QED
      BY ONLY <1>9, <3>1, <3>2, i \in 1 .. k + h
  <2>3. k + 1 \in 1 .. k + h
    BY ONLY <1>9
  <2> QED
    BY ONLY <1>12, <2>1, <2>2, <2>3
<1>14. s[1] # "." /\ s[Len(s)] # "." /\ Len(s) > 0 /\ Len(s) - (k + 1) \in 1 .. 3
  <2>1. 1 \in 1 .. k /\ h \in 2 .. h /\ Len(s) = k + h /\ k + h > 0 /\ k + h - (k + 1) \in 1 .. 3
    BY ONLY <1>9, <1>10
  <2>2. s[k + h] # "."
    BY ONLY <1>12, <2>1
  <2>3. s[1] # "."
    BY <1>11, <2>1
  <2>4. Len(s) = k + h
    BY <2>1
  <2>5. s[Len(s)] # "."
    BY <2>2, <2>4
  <2>6. Len(s) > 0 /\ Len(s) - (k + 1) \in 1 .. 3
    BY ONLY <1>9, <2>4
  <2> QED
    BY <2>3, <2>5, <2>6
<1>15. s \notin ReservedNames
  <2>1. ASSUME s \in ReservedNames PROVE FALSE
    <3>1. s \in Seq(Letters) /\ "." \notin Letters
      BY <2>1, NameConstants
    <3>2. k + 1 \in 1 .. Len(s)
      BY ONLY <1>9, <1>10
    <3>3. s[k + 1] \in Letters
      BY ONLY <3>1, <3>2
    <3> QED
      BY ONLY <1>12, <3>1, <3>3
  <2> QED
    BY <2>1
<1>16. Shortened(r) = s
  BY DEF Shortened
<1> QED
  BY <1>9, <1>10, <1>13, <1>14, <1>15, <1>16 DEF Short, Nice, NoDotAtEnds

\* ... and keeps such a name.
LEMMA ShortKept == ASSUME NEW s, Short(s) PROVE Shortened(s) = s
<1>0. PICK k \in Nat : k > 0 /\ Dots(s) = {k + 1} /\ Len(s) - (k + 1) \in 1 .. 3
  BY DEF Short
<1> PICK l, P : l = Len(s) /\ P = PortableChars
  OBVIOUS
<1>1. s \in Seq(P) /\ l \in Nat /\ l - (k + 1) \in 1 .. 3
  BY <1>0, NiceIs DEF Short
<1>2. Max(Dots(s)) = k + 1
  BY ONLY <1>0 DEF Max
<1>3. Min({l, k + 1 + 3}) = l
  <2>1. l <= k + 1 + 3 /\ k + 1 + 3 \in Nat
    BY ONLY <1>1, k \in Nat
  <2> QED
    BY ONLY <1>1, <2>1, MinOfTwo
<1> PICK x, b : x = SubSeq(s, 1, k) /\ b = SubSeq(s, k + 1, l)
  OBVIOUS
<1>4. x \in Seq(P) /\ Len(x) = k /\ \A i \in 1 .. k : x[i] = s[i]
  <2>1. 1 \in Nat /\ 1 >= 1 /\ 1 <= k + 1 /\ k <= Len(s) /\ k - 1 + 1 = k /\ \A i \in 1 .. k : 1 + i - 1 = i
    BY ONLY <1>1, k \in Nat, l = Len(s) /\ P = PortableChars
  <2>2. x \in Seq(P) /\ Len(x) = k - 1 + 1 /\ \A i \in 1 .. k - 1 + 1 : x[i] = s[1 + i - 1]
    <3>1. x = SubSeq(s, 1, k)
      OBVIOUS
    <3>2. s \in Seq(P)
      BY <1>1
    <3>3. 1 >= 1 /\ 1 <= k + 1 /\ k <= Len(s) /\ 1 \in Nat
      BY <2>1
    <3> QED
      BY ONLY <3>1, <3>2, <3>3, k \in Nat, PartIs
  <2> QED
    BY ONLY <2>1, <2>2
<1>5. b \in Seq(P) /\ Len(b) = l - (k + 1) + 1 /\ \A i \in 1 .. l - (k + 1) + 1 : b[i] = s[(k + 1) + i - 1]
  <2>1. k + 1 \in Nat /\ k + 1 >= 1 /\ k + 1 <= l + 1 /\ l <= Len(s) /\ b = SubSeq(s, k + 1, l)
    BY ONLY <1>1, k \in Nat, l = Len(s) /\ P = PortableChars, x = SubSeq(s, 1, k) /\ b = SubSeq(s, k + 1, l)
  <2> QED
    BY ONLY <1>1, <2>1, PartIs
<1>6. WithoutDots[x] = x
  <2>1. ASSUME NEW i \in 1 .. k PROVE x[i] \in P \ {"."}
    <3>1. i \notin Dots(s) /\ i \in 1 .. l
      BY ONLY <1>0, <1>1, i \in 1 .. k, k \in Nat
    <3>2. s[i] # "."
      <4>1. Dots(s) = {j \in 1 .. l : s[j] = "."}
        BY <1>1, DotsAre
      <4> QED
        BY ONLY <3>1, <4>1
    <3>3. x[i] \in P
      BY ONLY <1>4, i \in 1 .. k
    <3> QED
      BY ONLY <1>4, <3>2, <3>3, i \in 1 .. k
  <2>2. x \in Seq(P \ {"."})
    BY ONLY <1>4, <2>1
  <2>3. x \in Seq(NameChars \ {"."})
    <3>1. P \ {"."} \subseteq NameChars \ {"."}
      BY NameConstants
    <3> QED
      BY ONLY <2>2, <3>1, SeqMonotonic
  <2>4. x \in Seq(NameChars)
    BY ONLY <2>3, SeqMonotonic
  <2> QED
    BY <2>3, <2>4, WithoutDotsIs
<1>7. x \o b = s
  <2>1. /\ x \o b \in Seq(P) /\ Len(x \o b) = Len(x) + Len(b)
        /\ \A i \in 1 .. Len(x) + Len(b) : (x \o b)[i] = IF i <= Len(x) THEN x[i] ELSE b[i - Len(x)]
    BY ONLY <1>4, <1>5, ConcatProperties
  <2>2. k + (l - (k + 1) + 1) = l /\ Len(x) + Len(b) = l
    BY ONLY <1>1, <1>4, <1>5, k \in Nat
  <2>3. ASSUME NEW i \in 1 .. l PROVE (x \o b)[i] = s[i]
    <3>1. CASE i <= k
      <4>1. i \in 1 .. k
        BY ONLY <3>1, k \in Nat, i \in 1 .. l
      <4> QED
        BY ONLY <1>4, <2>1, <2>2, <3>1, <4>1, i \in 1 .. l
    <3>2. CASE ~(i <= k)
      <4>1. i - k \in 1 .. l - (k + 1) + 1 /\ (k + 1) + (i - k) - 1 = i
        BY ONLY <1>1, <3>2, k \in Nat, i \in 1 .. l
      <4>2. b[i - k] = s[i]
        BY ONLY <1>5, <4>1
      <4> QED
        BY ONLY <1>4, <2>1, <2>2, <3>2, <4>2, i \in 1 .. l
    <3> QED
      BY <3>1, <3>2
  <2> PICK y : y = x \o b
    OBVIOUS
  <2>4. y \in Seq(P) /\ Len(y) = l /\ \A i \in 1 .. l : y[i] = s[i]
    BY ONLY <2>1, <2>2, <2>3, y = x \o b
  <2>5. y = s
    BY ONLY <1>1, <2>4, l = Len(s) /\ P = PortableChars
  <2> QED
    BY <2>5
<1>8. (k + 1) - 1 = k /\ Dots(s) # {} /\ l = Len(s)
  BY ONLY <1>0, k \in Nat, l = Len(s) /\ P = PortableChars
<1>9. Shortened(s) = WithoutDots[SubSeq(s, 1, (k + 1) - 1)] \o SubSeq(s, k + 1, Min({Len(s), k + 1 + 3}))
  BY ONLY <1>2, <1>8 DEF Shortened
<1>10. SubSeq(s, 1, (k + 1) - 1) = x
  BY <1>8
<1>11. SubSeq(s, k + 1, Min({Len(s), k + 1 + 3})) = b
  BY <1>3, <1>8
<1> QED
  BY ONLY <1>6, <1>7, <1>9, <1>10, <1>11

\* A special name is shortened to a special name.
LEMMA ShortenedDots == ASSUME NEW m \in DotNames PROVE Shortened(m) \in DotNames
<1> PICK d : d = "."
  OBVIOUS
<1>0. d \in NameChars /\ DotNames = {<<d>>, <<d, d>>}
  BY NameConstants DEF DotNames, PortableChars
<1>1. m \in Seq({d}) /\ Len(m) \in 1 .. 2 /\ \A i \in 1 .. Len(m) : m[i] = d
  <2>1. CASE m = <<d>>
    BY ONLY <2>1
  <2>2. CASE m = <<d, d>>
    BY ONLY <2>2
  <2>3. m = <<d>> \/ m = <<d, d>>
    BY <1>0
  <2> QED
    BY ONLY <2>1, <2>2, <2>3
<1> PICK l : l = Len(m)
  OBVIOUS
<1>2. Dots(m) = 1 .. l
  <2>1. Dots(m) = {i \in 1 .. Len(m) : m[i] = "."}
    BY <1>1, DotsAre
  <2> QED
    BY <1>1, <2>1
<1>3. Max(Dots(m)) = l /\ Dots(m) # {} /\ l \in 1 .. 2
  <2>1. l \in 1 .. l /\ l \in Nat /\ 1 .. l # {} /\ 1 .. l \subseteq 1 .. l /\ l \in 1 .. 2
    BY ONLY <1>1, l = Len(m)
  <2>2. Max(1 .. l) \in 1 .. l /\ \A x \in 1 .. l : x <= Max(1 .. l)
    BY ONLY <2>1, Extremes
  <2>3. Max(1 .. l) = l
    BY ONLY <2>1, <2>2
  <2> QED
    BY ONLY <1>2, <2>1, <2>3
<1>4. Min({l, l + 3}) = l
  <2>1. l \in Nat /\ l + 3 \in Nat /\ l <= l + 3
    BY ONLY <1>3
  <2> QED
    BY ONLY <2>1, MinOfTwo
<1> PICK x : x = SubSeq(m, 1, l - 1)
  OBVIOUS
<1>5. WithoutDots[x] = <<>>
  <2>1. x \in Seq({d})
    <3>1. \A i \in 1 .. l - 1 : m[i] \in {d}
      BY ONLY <1>1, l = Len(m), <1>3
    <3> QED
      BY ONLY <1>3, <3>1, SubSeqProperties, x = SubSeq(m, 1, l - 1)
  <2>2. x \in Seq(NameChars)
    BY ONLY <1>0, <2>1, SeqMonotonic
  <2> QED
    BY <2>1, <2>2, WithoutDotsIs
<1>6. SubSeq(m, l, l) = <<d>>
  <2> PICK y : y = SubSeq(m, l, l)
    OBVIOUS
  <2>1. y \in Seq({d}) /\ Len(y) = 1
    <3>1. l \in Int /\ \A i \in l .. l : m[i] \in {d}
      BY ONLY <1>1, <1>3, l = Len(m)
    <3>2. y \in Seq({d}) /\ Len(y) = (IF l <= l THEN l - l + 1 ELSE 0)
      BY ONLY <3>1, SubSeqProperties, y = SubSeq(m, l, l)
    <3> QED
      BY ONLY <3>1, <3>2
  <2>2. y = <<d>>
    BY ONLY <2>1
  <2> QED
    BY <2>2
<1>7. Shortened(m) = WithoutDots[SubSeq(m, 1, l - 1)] \o SubSeq(m, l, Min({l, l + 3}))
  BY <1>3 DEF Shortened
<1>8. Shortened(m) = <<>> \o <<d>>
  BY ONLY <1>4, <1>5, <1>6, <1>7, x = SubSeq(m, 1, l - 1)
<1>9. <<>> \o <<d>> = <<d>>
  OBVIOUS
<1> QED
  BY ONLY <1>0, <1>8, <1>9

\* portable_file_name of a nice name, by its dots.
LEMMA FileIs ==
  ASSUME NEW m, Nice(m)
  PROVE  portable_file_name(m) <=> m[1] # "-" /\ (\A i \in Dots(m) : Dots(m) = {i} /\ Len(m) - i <= 3)
BY NiceIs DEF portable_file_name

\* A short name is portable unless it begins with a hyphen.
LEMMA ShortIsFile == ASSUME NEW m, Short(m) PROVE portable_file_name(m) <=> m[1] # "-"
<1>1. PICK k \in Nat : k > 0 /\ Dots(m) = {k + 1} /\ Len(m) - (k + 1) \in 1 .. 3
  BY DEF Short
<1>2. Len(m) - (k + 1) <= 3
  BY ONLY <1>1
<1>3. \A i \in Dots(m) : Dots(m) = {i} /\ Len(m) - i <= 3
  BY ONLY <1>1, <1>2
<1>4. Nice(m)
  BY DEF Short
<1> QED
  BY <1>3, <1>4, FileIs

\* What makePortableFileName leaves of a name, and that it keeps it.
File(m) == Nice(m) /\ (Dots(m) = {} \/ Short(m))

\* makePortableFileName leaves nothing or a file name ...
LEMMA FileMade ==
  ASSUME NEW n \in Seq(NameChars), NEW m, m = makePortableFileName(n)
  PROVE  m = <<>> \/ File(m) \/ (Nice(m) /\ portable_file_name(m))
<1> PICK r : r = makePortableName(n)
  OBVIOUS
<1>1. r = <<>> \/ r \in DotNames \/ Nice(r)
  BY NameMade
<1>2. m = IF r = <<>> \/ portable_file_name(r) THEN r ELSE IF Shortened(r) \in DotNames THEN <<>> ELSE Shortened(r)
  BY DEF makePortableFileName
<1>3. CASE r \in DotNames
  <2>1. r # <<>> /\ ~portable_file_name(r)
    BY <1>3, DotNamesAre DEF portable_file_name
  <2>2. Shortened(r) \in DotNames
    BY <1>3, ShortenedDots
  <2> QED
    BY <1>2, <2>1, <2>2
<1>4. CASE Nice(r)
  <2>1. r # <<>>
    BY <1>4, NiceIs
  <2>2. CASE portable_file_name(r)
    BY <1>2, <1>4, <2>2
  <2>3. CASE ~portable_file_name(r) /\ Dots(r) = {}
    <3>1. Shortened(r) = r
      BY <2>3 DEF Shortened
    <3>2. m = r
      BY <1>2, <1>4, <2>1, <2>3, <3>1, NiceIs
    <3> QED
      BY <1>4, <2>3, <3>2 DEF File
  <2>4. CASE ~portable_file_name(r) /\ Dots(r) # {}
    <3>1. Short(Shortened(r)) /\ Nice(Shortened(r))
      BY <1>4, <2>4, ShortenedIs DEF Short
    <3>2. m = Shortened(r)
      BY <1>2, <2>1, <2>4, <3>1, NiceIs
    <3> QED
      BY <3>1, <3>2 DEF File
  <2> QED
    BY <2>2, <2>3, <2>4
<1> QED
  BY <1>1, <1>2, <1>3, <1>4

\* ... and keeps one.
LEMMA FileKept ==
  ASSUME NEW m, File(m) \/ (Nice(m) /\ portable_file_name(m))
  PROVE  makePortableFileName(m) = m /\ (portable_file_name(m) \/ m[1] = "-")
<1>1. Nice(m) /\ makePortableName(m) = m /\ m \notin DotNames
  BY NameKept, NiceIs DEF File
<1>2. CASE portable_file_name(m)
  BY <1>1, <1>2 DEF makePortableFileName
<1>3. CASE ~portable_file_name(m)
  <2>1. Shortened(m) = m
    <3>1. CASE Dots(m) = {}
      BY <3>1 DEF Shortened
    <3>2. CASE Short(m)
      BY <3>2, ShortKept
    <3> QED
      BY <1>3, <3>1, <3>2 DEF File
  <2>2. m[1] = "-"
    <3>1. CASE Dots(m) = {}
      BY <1>1, <1>3, <3>1, FileIs
    <3>2. CASE Short(m)
      BY <1>3, <3>2, ShortIsFile
    <3> QED
      BY <1>3, <3>1, <3>2 DEF File
  <2> QED
    BY <1>1, <2>1, <2>2 DEF makePortableFileName
<1> QED
  BY <1>2, <1>3

\* What makePortableDirName leaves of a name, and that it keeps it unless it is the name of a device.
Dir(m) == NoDotAtEnds(m) /\ Dots(m) = {}

\* A name without dots, by its characters.
LEMMA NoDots ==
  ASSUME NEW m \in Seq(PortableChars)
  PROVE  Dots(m) = {} <=> m \in Seq(PortableChars \ {"."})
<1> PICK l, P, Q, d : l = Len(m) /\ P = PortableChars /\ Q = PortableChars \ {"."} /\ d = "."
  OBVIOUS
<1>1. Dots(m) = {i \in 1 .. l : m[i] = d} /\ l \in Nat /\ Q = P \ {d}
  BY DotsAre
<1>2. \A i \in 1 .. l : m[i] \in P
  OBVIOUS
<1>3. ASSUME Dots(m) = {} PROVE m \in Seq(Q)
  <2>1. \A i \in 1 .. l : m[i] \in Q
    BY ONLY <1>1, <1>2, <1>3
  <2> QED
    BY <2>1
<1>4. ASSUME m \in Seq(Q) PROVE Dots(m) = {}
  <2>1. \A i \in 1 .. l : m[i] \in Q
    BY <1>4
  <2> QED
    BY ONLY <1>1, <2>1
<1> QED
  BY <1>3, <1>4

\* What makePortableDirName asks of a name without dots.
LEMMA DirIs ==
  ASSUME NEW m, Dir(m)
  PROVE  /\ m \in Seq(NameChars) /\ m # <<>> /\ Head(m) = m[1] /\ m \notin DotNames
         /\ portable_directory_name(m) \/ m[1] = "-"
         /\ WithoutDots[m] = m
<1>1. m \in Seq(PortableChars) /\ Len(m) > 0 /\ m[1] # "." /\ m[Len(m)] # "." /\ NoDotAtEnds(m) /\ Dots(m) = {}
  BY DEF Dir, NoDotAtEnds
<1>2. m \in Seq(NameChars)
  BY <1>1, NameConstants, SeqMonotonic
<1>3. m \notin DotNames
  BY <1>1, NotDotName
<1>4. Head(m) = m[1] /\ m # <<>>
  BY <1>1, EmptySeq
<1>5. portable_directory_name(m) \/ m[1] = "-"
  BY <1>1, <1>2, <1>3, PortableIs DEF portable_directory_name
<1>6. m \in Seq(NameChars \ {"."})
  <2>1. m \in Seq(PortableChars \ {"."})
    BY <1>1, NoDots
  <2>2. PortableChars \ {"."} \subseteq NameChars \ {"."}
    BY NameConstants
  <2> QED
    BY ONLY <2>1, <2>2, SeqMonotonic
<1>7. WithoutDots[m] = m
  BY <1>2, <1>6, WithoutDotsIs
<1> QED
  BY <1>2, <1>3, <1>4, <1>5, <1>7

\* makePortableDirName leaves nothing, a special name or one without dots ...
LEMMA DirMade ==
  ASSUME NEW n \in Seq(NameChars), NEW m, m = makePortableDirName(n)
  PROVE  m = <<>> \/ m \in DotNames \/ Dir(m)
<1> PICK r : r = makePortableName(n)
  OBVIOUS
<1>1. r = <<>> \/ r \in DotNames \/ Nice(r)
  BY NameMade
<1>2. m = IF portable_directory_name(r) THEN r ELSE WithoutDots[r]
  BY DEF makePortableDirName
<1>3. CASE r = <<>>
  <2>1. r \in Seq(NameChars) /\ r \in Seq({"."})
    BY ONLY <1>3, EmptySeq
  <2>2. WithoutDots[r] = <<>>
    BY <2>1, WithoutDotsIs
  <2> QED
    BY <1>2, <1>3, <2>2
<1>4. CASE r \in DotNames
  BY <1>2, <1>4 DEF portable_directory_name
<1>5. CASE Nice(r)
  <2>1. r \in Seq(PortableChars) /\ r \in Seq(NameChars) /\ r # <<>> /\ r[1] # "." /\ NoDotAtEnds(r) /\ r \notin DotNames
    BY <1>5, NiceIs
  <2>2. CASE portable_directory_name(r)
    BY <1>2, <2>1, <2>2 DEF portable_directory_name, Dir
  <2>3. CASE ~portable_directory_name(r)
    <3>1. m \in Seq(PortableChars \ {"."}) /\ m # <<>>
      BY <1>2, <2>1, <2>3, WithoutDotsIs
    <3>2. m \in Seq(PortableChars)
      BY ONLY <3>1, SeqMonotonic
    <3>3. Dots(m) = {}
      BY <3>1, <3>2, NoDots
    <3>4. Len(m) \in Nat /\ Len(m) > 0
      BY ONLY <3>1, EmptySeq
    <3>5. m[1] \in PortableChars \ {"."} /\ m[Len(m)] \in PortableChars \ {"."}
      BY ONLY <3>1, <3>4
    <3> QED
      BY <3>2, <3>3, <3>4, <3>5 DEF Dir, NoDotAtEnds
  <2> QED
    BY <2>2, <2>3
<1> QED
  BY <1>1, <1>3, <1>4, <1>5

\* ... and keeps one.
LEMMA DirKept ==
  ASSUME NEW m, m \in DotNames \/ (Dir(m) /\ m \notin ReservedNames)
  PROVE  makePortableDirName(m) = m
<1>1. makePortableName(m) = m
  BY NameKept DEF Dir, Nice
<1>2. CASE m \in DotNames
  BY <1>1, <1>2 DEF makePortableDirName, portable_directory_name
<1>3. CASE Dir(m)
  BY <1>1, <1>3, DirIs DEF makePortableDirName
<1> QED
  BY <1>2, <1>3

\* What Sanitized says of one kind of name.
SanitizedIn(kind, made) ==
  made # <<>> =>
    /\ Portable(kind, made) \/ Head(made) = "-"
    /\ Made(kind, made) = made \/ (kind = "dir" /\ isReservedName(made))
    /\ isReservedName(made) => kind = "dir"
    /\ \/ isValidFileName(made)
       \/ made \in DotNames \/ Len(made) > NameLimit
       \/ \E n \in ReservedNames : IsPrefix(Append(n, "."), made) \/ (kind = "dir" /\ made = n)

\* The three functions, each in its way.
LEMMA NameSanitized == ASSUME NEW n \in Seq(NameChars) PROVE SanitizedIn("name", Made("name", n))
<1> PICK m : m = makePortableName(n)
  OBVIOUS
<1>1. Made("name", n) = m /\ Made("name", m) = makePortableName(m) /\ (Portable("name", m) <=> portable_name(m))
  BY DEF Made, Portable
<1>2. m = <<>> \/ m \in DotNames \/ Nice(m)
  BY NameMade
<1>3. CASE m = <<>>
  BY <1>1, <1>3 DEF SanitizedIn
<1>4. CASE m \in DotNames
  BY <1>1, <1>4, NameKept, DotNamesAre DEF SanitizedIn, isReservedName
<1>5. CASE Nice(m)
  <2>1. makePortableName(m) = m /\ (portable_name(m) \/ Head(m) = "-") /\ m \notin ReservedNames
    BY <1>5, NameKept, NiceIs DEF Nice
  <2>2. ValidUnless(m)
    BY <1>5, NiceIs, ValidNames
  <2> QED
    BY <1>1, <2>1, <2>2 DEF SanitizedIn, ValidUnless, isReservedName
<1> QED
  BY <1>2, <1>3, <1>4, <1>5

LEMMA FileSanitized == ASSUME NEW n \in Seq(NameChars) PROVE SanitizedIn("file", Made("file", n))
<1> PICK m : m = makePortableFileName(n)
  OBVIOUS
<1>1. Made("file", n) = m /\ Made("file", m) = makePortableFileName(m) /\ (Portable("file", m) <=> portable_file_name(m))
  BY DEF Made, Portable
<1>2. m = <<>> \/ File(m) \/ (Nice(m) /\ portable_file_name(m))
  BY FileMade
<1>3. CASE m = <<>>
  BY <1>1, <1>3 DEF SanitizedIn
<1>4. CASE File(m) \/ (Nice(m) /\ portable_file_name(m))
  <2>1. makePortableFileName(m) = m /\ (portable_file_name(m) \/ m[1] = "-") /\ Nice(m)
    BY <1>4, FileKept DEF File
  <2>2. Head(m) = m[1] /\ m \notin ReservedNames
    BY <2>1, NiceIs DEF Nice
  <2>3. ValidUnless(m)
    BY <2>1, NiceIs, ValidNames
  <2> QED
    BY <1>1, <2>1, <2>2, <2>3 DEF SanitizedIn, ValidUnless, isReservedName
<1> QED
  BY <1>2, <1>3, <1>4

LEMMA DirSanitized == ASSUME NEW n \in Seq(NameChars) PROVE SanitizedIn("dir", Made("dir", n))
<1> PICK m : m = makePortableDirName(n)
  OBVIOUS
<1>1. Made("dir", n) = m /\ Made("dir", m) = makePortableDirName(m) /\ (Portable("dir", m) <=> portable_directory_name(m))
  BY DEF Made, Portable
<1>2. m = <<>> \/ m \in DotNames \/ Dir(m)
  BY DirMade
<1>3. CASE m = <<>>
  BY <1>1, <1>3 DEF SanitizedIn
<1>4. CASE m \in DotNames
  BY <1>1, <1>4, DirKept, DotNamesAre DEF SanitizedIn, portable_directory_name, isReservedName
<1>5. CASE Dir(m)
  <2>1. portable_directory_name(m) \/ Head(m) = "-"
    BY <1>5, DirIs
  <2>2. makePortableDirName(m) = m \/ m \in ReservedNames
    BY <1>5, DirKept
  <2>3. ValidUnless(m)
    BY <1>5, ValidNames DEF Dir
  <2> QED
    BY <1>1, <2>1, <2>2, <2>3 DEF SanitizedIn, ValidUnless, isReservedName
<1> QED
  BY <1>2, <1>3, <1>4, <1>5

-----------------------------------------------------------------------------
\* The name typed so far stays a name of the characters there are.
LEMMA NameStart == NameInit => NameTypeOK
<1>1. MaxTyped \in Nat
  BY NamesAssumption DEF NamesAssumption
<1> QED
  BY ONLY <1>1 DEF NameInit, NameTypeOK

LEMMA NameStep == ASSUME NameTypeOK, [NameNext]_nameVars PROVE NameTypeOK'
<1>1. ASSUME NEW c \in Characters, TypeCharacter(c) PROVE NameTypeOK'
  <2>1. MaxTyped \in Nat
    BY NamesAssumption DEF NamesAssumption
  <2> QED
    BY ONLY <1>1, <2>1, c \in Characters, NameTypeOK DEF TypeCharacter, NameTypeOK
<1>2. CASE UNCHANGED nameVars
  BY <1>2 DEF nameVars, NameTypeOK
<1> QED
  BY <1>1, <1>2 DEF NameNext

\* Whatever the user has typed (typed of PortableNames), what each of the three functions makes of it is as the
\* assertion at its end says unless it begins with a hyphen, is kept when it is made portable again, and is a
\* valid file name; but for the names of devices and the lengths that Sanitized excepts.
THEOREM NamesAreSanitized == NameSpec => []Sanitized
<1>1. NameTypeOK => Sanitized
  <2> SUFFICES ASSUME NameTypeOK PROVE Sanitized
    OBVIOUS
  <2>1. typed \in Seq(NameChars)
    <3>1. Characters \subseteq NameChars /\ typed \in Seq(Characters)
      BY DEF NameChars, NameTypeOK
    <3> QED
      BY ONLY <3>1, SeqMonotonic
  <2>2. \A kind \in {"name", "file", "dir"} : SanitizedIn(kind, Made(kind, typed))
    BY <2>1, NameSanitized, FileSanitized, DirSanitized
  <2> QED
    BY ONLY <2>2 DEF Sanitized, SanitizedIn
<1>2. NameTypeOK /\ [NameNext]_nameVars => NameTypeOK'
  BY NameStep
<1> QED
  BY <1>1, NameStart, <1>2, PTL DEF NameSpec
-----------------------------------------------------------------------------
(* The library: its parts do not interact.                                   *)

\* The invariants of the parts, those of the others being untouched by a step of one.
LibraryInv ==
  SerInv /\ TextsHold /\ FileInv /\ Md5Inv /\ Md5Typed /\ LogInv /\ TmpInv /\ PortInv /\ NameTypeOK

LEMMA LibraryStart == LibraryInit => LibraryInv
<1>1. ASSUME PortInit PROVE PortInv
  BY <1>1 DEF PortInit, PortInv, PortTypeOK, OpensWhenClosed, DiesWithPort, Remembered, Resources, ComObjects
<1> QED
  BY <1>1, NameStart, InitInv, InitHolds, FileStart, Md5Start, Md5TypedStart, LogStart, TmpStart DEF LibraryInit, LibraryInv

\* Each part makes steps of its own.
LEMMA PartsStep ==
  ASSUME [LibraryNext]_allVars
  PROVE  /\ [SerNext]_serVars /\ [FileNext]_fileVars /\ [Md5Next]_md5Vars /\ [LogNext]_logVars
         /\ [TmpNext]_tmpVars /\ [PortNext]_portVars /\ [NameNext]_nameVars
  BY DEF LibraryNext, allVars

LEMMA LibraryStep == LibraryInv /\ [LibraryNext]_allVars => LibraryInv'
<1> SUFFICES ASSUME LibraryInv, [LibraryNext]_allVars PROVE LibraryInv'
  OBVIOUS
<1>1. /\ [SerNext]_serVars /\ [FileNext]_fileVars /\ [Md5Next]_md5Vars /\ [LogNext]_logVars
      /\ [TmpNext]_tmpVars /\ [PortNext]_portVars /\ [NameNext]_nameVars
  BY PartsStep
<1>2. SerInv' /\ TextsHold'
  <2>1. SerInv /\ TextsHold
    BY DEF LibraryInv
  <2> QED
    BY ONLY <1>1, <2>1, StepInv, StutterInv, StepHolds, StutterHolds
<1>3. FileInv' /\ Md5Inv' /\ Md5Typed' /\ LogInv' /\ TmpInv'
  <2>1. FileInv /\ Md5Inv /\ Md5Typed /\ LogInv /\ TmpInv
    BY DEF LibraryInv
  <2> QED
    BY ONLY <1>1, <2>1, FileStep, Md5Step, Md5TypedStep, LogStep, TmpStep
<1>4. PortInv'
  <2>1. PortInv
    BY DEF LibraryInv
  <2> QED
    BY <1>1, <2>1, PortTypeStep, CallStep, RememberedStep DEF PortInv
<1>5. NameTypeOK'
  <2>1. NameTypeOK
    BY DEF LibraryInv
  <2> QED
    BY <1>1, <2>1, NameStep
<1> QED
  BY <1>2, <1>3, <1>4, <1>5 DEF LibraryInv

\* The state of every part of the library keeps its types, whatever the part does.
THEOREM LibraryTypes == LibrarySpec => []LibraryTypeOK
<1>1. LibraryInv => LibraryTypeOK
  BY Md5TypesAre DEF LibraryInv, LibraryTypeOK, SerInv, FileInv, LogInv, TmpInv, PortInv
<1> QED
  BY <1>1, LibraryStart, LibraryStep, PTL DEF LibrarySpec
=============================================================================
