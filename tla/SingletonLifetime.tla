-------------------------- MODULE SingletonLifetime --------------------------
(* Singletons (Singleton.h) and the policies that destroy them when the      *)
(* process ends: creation on first use, the handlers of atexit, the          *)
(* LifetimeTracker that destroys in the order of longevities, constructors   *)
(* that fail, and constructors and destructors that use other singletons.    *)
(*                                                                           *)
(* The code that runs is a stack of constructors and destructors over the    *)
(* main program.  Each may call inst() of any singleton, catch an exception  *)
(* or let it pass.  A constructor does not use a singleton that is being     *)
(* constructed: that recursion never ends.  Singletons are not thread safe.  *)
EXTENDS Naturals, Sequences, FiniteSets, SequencesExt

CONSTANTS
  Singletons,
  Tracker,       \* LifetimeTracker, itself a singleton with the default policy
  Policy,        \* Policy[s]: "default", "phoenix" or "longevity"
  Longevity,     \* Longevity[s], of those with that policy
  MainUses,      \* bounds the calls of inst() by the main program
  FrameUses      \* bounds those by each constructor and each destructor

ASSUME LifetimeAssumption ==
  /\ Tracker \notin Singletons
  /\ Policy \in [Singletons -> {"default", "phoenix", "longevity"}]
  /\ Longevity \in [Singletons -> Nat]
  /\ MainUses \in Nat /\ FrameUses \in Nat

VARIABLES
  phase,       \* running, exiting, ended or terminated
  stack,       \* the constructors and destructors that run, innermost last
  raised,      \* an exception has reached the code that runs
  budget,      \* calls of inst() left to the main program
  me,          \* me[s]: there is an instance
  isDestroyed, \* isDestroyed[s]
  destroyedOnce, \* destroyedOnce[s]: Phoenix::isDestroyedOnce
  handlers,    \* what atexit has registered, run last to first
  items,       \* the tracker's items, in the order of longevity
  cursor,      \* the item its destructor has reached
  late,        \* history: late[s]: the instance was made after the exit began
  failed,      \* history: failed[s]: a constructor of s has thrown
  missed       \* history: <<d, s>>: s was reported dead to the destructor of d

lifeVars == <<phase, stack, raised, budget, me, isDestroyed, destroyedOnce, handlers, items, cursor,
              late, failed, missed>>

All == Singletons \cup {Tracker}
Frame == [kind : {"ctor", "dtor"}, of : All, uses : 0 .. FrameUses]

TypeOK ==
  /\ phase \in {"running", "exiting", "ended", "terminated"}
  /\ stack \in Seq(Frame)
  /\ raised \in BOOLEAN /\ budget \in 0 .. MainUses
  /\ me \in [All -> BOOLEAN] /\ isDestroyed \in [All -> BOOLEAN]
  /\ destroyedOnce \in [Singletons -> BOOLEAN]
  /\ handlers \in Seq(All) /\ items \in Seq(Singletons) /\ cursor \in Nat
  /\ late \in [Singletons -> BOOLEAN] /\ failed \in [Singletons -> BOOLEAN]
  /\ missed \subseteq Singletons \X Singletons

Init ==
  /\ phase = "running" /\ stack = <<>> /\ raised = FALSE /\ budget = MainUses
  /\ me = [s \in All |-> FALSE] /\ isDestroyed = [s \in All |-> FALSE]
  /\ destroyedOnce = [s \in Singletons |-> FALSE]
  /\ handlers = <<>> /\ items = <<>> /\ cursor = 0
  /\ late = [s \in Singletons |-> FALSE] /\ failed = [s \in Singletons |-> FALSE]
  /\ missed = {}

Top == stack[Len(stack)]
InFrame(kind) == stack # <<>> /\ Top.kind = kind
Push(kind, s) == Append(stack, [kind |-> kind, of |-> s, uses |-> FrameUses])
Constructing(s) == \E i \in 1 .. Len(stack) : stack[i].kind = "ctor" /\ stack[i].of = s

-----------------------------------------------------------------------------
(* Singleton<T>::inst().                                                     *)

\* The code that may call inst() now.
CanUse ==
  /\ phase \in {"running", "exiting"} /\ ~raised
  /\ IF stack = <<>> THEN phase = "running" /\ budget > 0 ELSE Top.of # Tracker /\ Top.uses > 0

Used == IF stack = <<>> THEN stack ELSE [stack EXCEPT ![Len(stack)].uses = @ - 1]
Spend == budget' = IF stack = <<>> THEN budget - 1 ELSE budget

\* There is an instance, which may be one whose destructor is running.
UseInstance(s) ==
  /\ CanUse /\ me[s]
  /\ Spend /\ stack' = Used
  /\ UNCHANGED <<phase, raised, me, isDestroyed, destroyedOnce, handlers, items, cursor,
                 late, failed, missed>>

\* OnDeadReference of the default policy and of WithLongevity.
UseDead(s) ==
  /\ CanUse /\ ~me[s] /\ isDestroyed[s] /\ Policy[s] # "phoenix"
  /\ Spend /\ stack' = Used
  /\ raised' = TRUE
  /\ missed' = IF InFrame("dtor") THEN missed \cup {<<Top.of, s>>} ELSE missed
  /\ UNCHANGED <<phase, me, isDestroyed, destroyedOnce, handlers, items, cursor, late, failed>>

\* new T, for the first time or after a Phoenix has died; the base class resets the flag before
\* the constructor of T begins.
UseFirst(s) ==
  /\ CanUse /\ ~me[s] /\ ~Constructing(s)
  /\ isDestroyed[s] => Policy[s] = "phoenix"
  /\ destroyedOnce' = [destroyedOnce EXCEPT ![s] = @ \/ isDestroyed[s]]
  /\ isDestroyed' = [isDestroyed EXCEPT ![s] = FALSE]
  /\ Spend
  /\ stack' = Append(Used, [kind |-> "ctor", of |-> s, uses |-> FrameUses])
  /\ UNCHANGED <<phase, raised, me, handlers, items, cursor, late, failed, missed>>

-----------------------------------------------------------------------------
(* ScheduleDestruction, when a constructor has returned.                     *)

\* Mutant of Place: entries are kept in the order they were added.
PlaceAtEnd(q, n) == Len(q) + 1

\* The place of longevity n in the tracker's multiset q: behind its equals.
Place(q, n) ==
  CHOOSE p \in 1 .. Len(q) + 1 : \A i \in DOMAIN q : i < p <=> Longevity[q[i]] <= n

\* Mutant of AddItem: a set, in which longevities are unique.
AddItemToSet(s) ==
  /\ items' = IF \E i \in 1 .. Len(items) : Longevity[items[i]] = Longevity[s]
                THEN items ELSE InsertAt(items, Place(items, Longevity[s]), s)
  /\ cursor' = IF items' # items /\ Place(items, Longevity[s]) <= cursor THEN cursor + 1 ELSE cursor

\* LifetimeTracker::add: an entry with the same function is replaced.
AddItem(s) ==
  LET others == RemoveFirst(items, s)
      p == Place(others, Longevity[s])
  IN
  /\ items' = InsertAt(others, p, s)
  /\ cursor' = IF p <= cursor THEN cursor + 1 ELSE cursor

\* The default policy, and a Phoenix in its first life.
ScheduleAtExit(s) ==
  /\ Policy[s] = "default" \/ (Policy[s] = "phoenix" /\ ~destroyedOnce[s])
  /\ handlers' = Append(handlers, s)
  /\ me' = [me EXCEPT ![s] = TRUE]
  /\ UNCHANGED <<items, cursor, raised>>

ScheduleNothing(s) ==
  /\ Policy[s] = "phoenix" /\ destroyedOnce[s]
  /\ me' = [me EXCEPT ![s] = TRUE]
  /\ UNCHANGED <<handlers, items, cursor, raised>>

\* Mutant of ScheduleByLongevity: the tracker is one of its own items.
ScheduleTrackerByLongevity(s) ==
  /\ Policy[s] = "longevity" /\ ~(isDestroyed[Tracker] /\ ~me[Tracker])
  /\ items' = IF me[Tracker] THEN Append(items, s) ELSE <<Tracker, s>>
  /\ me' = [me EXCEPT ![s] = TRUE, ![Tracker] = TRUE]
  /\ UNCHANGED <<handlers, cursor, raised>>

\* SetLongevity, which creates the tracker if this is its first use.
ScheduleByLongevity(s) ==
  /\ Policy[s] = "longevity" /\ ~(isDestroyed[Tracker] /\ ~me[Tracker])
  /\ AddItem(s)
  /\ handlers' = IF me[Tracker] THEN handlers ELSE Append(handlers, Tracker)
  /\ me' = [me EXCEPT ![s] = TRUE, ![Tracker] = TRUE]
  /\ UNCHANGED raised

\* SetLongevity throws after the tracker has died; the instance stays, scheduled nowhere.
ScheduleTooLate(s) ==
  /\ Policy[s] = "longevity" /\ isDestroyed[Tracker] /\ ~me[Tracker]
  /\ me' = [me EXCEPT ![s] = TRUE]
  /\ raised' = TRUE
  /\ UNCHANGED <<handlers, items, cursor>>

CtorReturns ==
  /\ InFrame("ctor") /\ ~raised
  /\ \/ ScheduleAtExit(Top.of) \/ ScheduleNothing(Top.of)
     \/ ScheduleByLongevity(Top.of) \/ ScheduleTooLate(Top.of)
  /\ late' = [late EXCEPT ![Top.of] = phase = "exiting"]
  /\ stack' = Front(stack)
  /\ UNCHANGED <<phase, budget, isDestroyed, destroyedOnce, failed, missed>>

\* A constructor throws, or lets pass what it was thrown: the destructor of the base class marks
\* the singleton destroyed, although it never lived.
CtorThrows ==
  /\ InFrame("ctor")
  /\ raised' = TRUE
  /\ isDestroyed' = [isDestroyed EXCEPT ![Top.of] = TRUE]
  /\ failed' = [failed EXCEPT ![Top.of] = TRUE]
  /\ stack' = Front(stack)
  /\ UNCHANGED <<phase, budget, me, destroyedOnce, handlers, items, cursor, late, missed>>

Catch ==
  /\ raised /\ phase # "terminated"
  /\ raised' = FALSE
  /\ UNCHANGED <<phase, stack, budget, me, isDestroyed, destroyedOnce, handlers, items, cursor,
                 late, failed, missed>>

\* An exception leaves a destructor, or the main program.
Terminate ==
  /\ raised /\ phase # "terminated" /\ ~InFrame("ctor")
  /\ phase' = "terminated"
  /\ UNCHANGED <<stack, raised, budget, me, isDestroyed, destroyedOnce, handlers, items, cursor,
                 late, failed, missed>>

-----------------------------------------------------------------------------
(* The end of the process.                                                   *)

Exit ==
  /\ phase = "running" /\ stack = <<>> /\ ~raised
  /\ phase' = "exiting"
  /\ UNCHANGED <<stack, raised, budget, me, isDestroyed, destroyedOnce, handlers, items, cursor,
                 late, failed, missed>>

\* The last function registered with atexit, which may have been during the exit: DestroySingleton.
RunHandler ==
  /\ phase = "exiting" /\ stack = <<>> /\ handlers # <<>>
  /\ stack' = Push("dtor", Last(handlers))
  /\ handlers' = Front(handlers)
  /\ UNCHANGED <<phase, raised, budget, me, isDestroyed, destroyedOnce, items, cursor, late,
                 failed, missed>>

\* The loop of ~LifetimeTracker, over items to which destructors may add.
NextItem ==
  /\ InFrame("dtor") /\ Top.of = Tracker /\ cursor < Len(items)
  /\ cursor' = cursor + 1
  /\ stack' = Push("dtor", items[cursor + 1])
  /\ UNCHANGED <<phase, raised, budget, me, isDestroyed, destroyedOnce, handlers, items, late,
                 failed, missed>>

\* Mutant of DtorReturns: the pointer is kept.
DtorKeepsPointer ==
  /\ InFrame("dtor") /\ ~raised
  /\ Top.of = Tracker => cursor = Len(items)
  /\ isDestroyed' = [isDestroyed EXCEPT ![Top.of] = TRUE]
  /\ stack' = Front(stack)
  /\ UNCHANGED <<phase, raised, budget, me, destroyedOnce, handlers, items, cursor, late, failed, missed>>

\* delete me; me = nullptr.  During the destructor the pointer was still there.
DtorReturns ==
  /\ InFrame("dtor") /\ ~raised
  /\ Top.of = Tracker => cursor = Len(items)
  /\ me' = [me EXCEPT ![Top.of] = FALSE]
  /\ isDestroyed' = [isDestroyed EXCEPT ![Top.of] = TRUE]
  /\ stack' = Front(stack)
  /\ UNCHANGED <<phase, raised, budget, destroyedOnce, handlers, items, cursor, late, failed, missed>>

End ==
  /\ phase = "exiting" /\ stack = <<>> /\ handlers = <<>>
  /\ phase' = "ended"
  /\ UNCHANGED <<stack, raised, budget, me, isDestroyed, destroyedOnce, handlers, items, cursor,
                 late, failed, missed>>

Next ==
  \/ \E s \in Singletons : UseInstance(s) \/ UseDead(s) \/ UseFirst(s)
  \/ CtorReturns \/ CtorThrows \/ Catch \/ Terminate
  \/ Exit \/ RunHandler \/ NextItem \/ DtorReturns \/ End

LifeSpec == Init /\ [][Next]_lifeVars
-----------------------------------------------------------------------------
\* How many destructions of s are still to come.
Pending(s) ==
  Cardinality({i \in DOMAIN handlers : handlers[i] = s})
    + Cardinality({i \in cursor + 1 .. Len(items) : items[i] = s})

\* The assertion in DestroySingleton, and what keeps it true: a destruction that is still to come
\* has an instance to destroy, one that runs has not marked it destroyed, and no instance is to be
\* destroyed twice, whatever was used, failed and came back in between.  Nor does inst() return an
\* instance whose destructor has finished.
DestroyedOnce ==
  \A s \in All :
    /\ me[s] => ~isDestroyed[s]
    /\ Pending(s) <= 1
    /\ Pending(s) = 1 => me[s] /\ ~isDestroyed[s]
    /\ \A i \in 1 .. Len(stack) :
         stack[i].kind = "dtor" /\ stack[i].of = s => me[s] /\ ~isDestroyed[s] /\ Pending(s) = 0

\* When a process ends without an exception, every instance made before the exit is gone.  What
\* remains was made while it ended, or is a Phoenix whose first constructor failed: the failure
\* counts as its death.
NoneLeft ==
  phase = "ended" =>
    \A s \in Singletons : me[s] => late[s] \/ (Policy[s] = "phoenix" /\ failed[s])

\* What longevity is for: the destructor of a singleton can still use every one that is to live
\* longer, unless the constructor of that one has failed.
LongerLivedUsable ==
  \A p \in missed :
    Policy[p[1]] = "longevity" /\ Policy[p[2]] = "longevity" /\ Longevity[p[1]] < Longevity[p[2]]
      => failed[p[2]]

\* SingletonPolicies.h: destructors are called with increasing longevity.  None is finished while a
\* shorter-lived singleton that was there before the exit still waits for its own, whatever
\* destructors have added to the tracker in between.
ShorterLivedFirst ==
  [][\A s, t \in Singletons :
       /\ Policy[s] = "longevity" /\ Policy[t] = "longevity" /\ Longevity[s] < Longevity[t]
       /\ me[s] /\ ~late[s] /\ me[t] /\ me'[s]
       => me'[t]]_lifeVars
=============================================================================
