------------------------------ MODULE PortMapping ------------------------------
(* UPnP: objects that have a router forward a port while they exist.  Every  *)
(* opening and closing looks for the devices and the gateway anew and then   *)
(* asks for one change; each of these may fail with an exception, the last   *)
(* also after the router has made the change.  open() closes first, and the  *)
(* destructor closes and swallows the exception.                             *)
(*                                                                           *)
(* The two implementations differ in what they hold on the way: the list of  *)
(* devices and the URLs in UniqueHandles, which are freed however the call   *)
(* ends, or two COM objects, which are never released.  The router is not in *)
(* src/: it forgets when it restarts, and refuses to remove what it does not *)
(* have.  The objects belong to one host.                                    *)
EXTENDS Naturals

CONSTANTS Mappers, Ports

ASSUME PortAssumption == Ports \subseteq Nat \ {0}

VARIABLES
  router,      \* the ports forwarded
  port,        \* port[u]: port_ of object u
  life,        \* life[u]: "none", "constructing", "alive", or "dying" in its destructor
  step,        \* step[u]: "idle", or what OpenPort or ClosePort does next
  closing,     \* closing[u]: it is ClosePort
  wanted,      \* wanted[u]: the port for open(), 0 in close()
  held,        \* held[u]: what the calls of u hold, or have left behind
  windows,     \* the implementation is that of UPnP_MSVC.cpp
  orphans      \* history: ports left forwarded by an exception or the end of the process

portVars == <<router, port, life, step, closing, wanted, held, windows, orphans>>

\* All but the COM objects are in UniqueHandles.
Resources == {"devices", "urls", "nat", "collection", "strings"}
ComObjects == {"nat", "collection"}

\* Nothing but COM objects is held between calls.
PortTypeOK ==
  /\ router \subseteq Ports /\ port \in [Mappers -> Ports \cup {0}]
  /\ life \in [Mappers -> {"none", "constructing", "alive", "dying"}]
  /\ step \in [Mappers -> {"idle", "discover", "gateway", "address", "strings", "request"}]
  /\ closing \in [Mappers -> BOOLEAN] /\ wanted \in [Mappers -> Ports \cup {0}]
  /\ held \in [Mappers -> SUBSET Resources] /\ windows \in BOOLEAN /\ orphans \subseteq Ports
  /\ \A u \in Mappers : step[u] = "idle" => held[u] \subseteq ComObjects

PortInit ==
  /\ router = {} /\ port = [u \in Mappers |-> 0] /\ life = [u \in Mappers |-> "none"]
  /\ step = [u \in Mappers |-> "idle"] /\ closing = [u \in Mappers |-> FALSE]
  /\ wanted = [u \in Mappers |-> 0] /\ held = [u \in Mappers |-> {}]
  /\ windows \in BOOLEAN /\ orphans = {}

-----------------------------------------------------------------------------
\* open(p), in the constructor too: it closes first if a port is open.
OpenMapping(u, p) ==
  /\ life[u] \in {"none", "alive"} /\ step[u] = "idle"
  /\ life' = [life EXCEPT ![u] = IF @ = "none" THEN "constructing" ELSE @]
  /\ step' = [step EXCEPT ![u] = "discover"]
  /\ closing' = [closing EXCEPT ![u] = port[u] # 0]
  /\ wanted' = [wanted EXCEPT ![u] = p]
  /\ UNCHANGED <<router, port, held, windows, orphans>>

\* close(), and the destructor, when a port is open.
CloseMapping(u, state) ==
  /\ life[u] = "alive" /\ step[u] = "idle" /\ port[u] # 0
  /\ life' = [life EXCEPT ![u] = state]
  /\ step' = [step EXCEPT ![u] = "discover"]
  /\ closing' = [closing EXCEPT ![u] = TRUE]
  /\ wanted' = [wanted EXCEPT ![u] = 0]
  /\ UNCHANGED <<router, port, held, windows, orphans>>

\* The destructor when none is.
DestroyMapper(u) ==
  /\ life[u] = "alive" /\ step[u] = "idle" /\ port[u] = 0
  /\ life' = [life EXCEPT ![u] = "none"]
  /\ UNCHANGED <<router, port, step, closing, wanted, held, windows, orphans>>

\* Step a is done and holds r from now on; b is next.
Done(u, a, r, b) ==
  /\ step[u] = a
  /\ step' = [step EXCEPT ![u] = b]
  /\ held' = [held EXCEPT ![u] = @ \cup r]
  /\ UNCHANGED <<router, port, life, closing, wanted, windows, orphans>>

DiscoverDevices(u) == ~windows /\ Done(u, "discover", {"devices"}, "gateway")
GetValidIGD(u) == ~windows /\ Done(u, "gateway", {"urls"}, "request")

\* COM objects for the router and its mappings; opening also needs an address of this host.  A
\* string that cannot be converted is passed on as none.
CreateNat(u) == windows /\ Done(u, "discover", {"nat"}, "gateway")
GetMappings(u) == windows /\ Done(u, "gateway", {"collection"}, IF closing[u] THEN "strings" ELSE "address")
FindLocalAddress(u) == Done(u, "address", {}, "strings")
ConvertStrings(u) == Done(u, "strings", {"strings"}, "request")

\* Mutant of Released: the handles do not free what they hold.
ReleasedNothing(u) == held

\* What is left when OpenPort or ClosePort returns or throws.
Released(u) == [held EXCEPT ![u] = @ \cap ComObjects]

\* Mutant of PortAfterFailure: the port was forgotten before it was closed.
PortForgotten(u) == 0

\* port_ after an exception.
PortAfterFailure(u) == port[u]

\* An exception ends the call, and with it an object in its constructor or destructor.
Throw(u) ==
  /\ port' = [port EXCEPT ![u] = IF life[u] = "dying" THEN 0 ELSE PortAfterFailure(u)]
  /\ life' = [life EXCEPT ![u] = IF @ = "alive" THEN "alive" ELSE "none"]
  /\ step' = [step EXCEPT ![u] = "idle"]
  /\ held' = Released(u)
  /\ UNCHANGED <<closing, wanted, windows>>

\* A step fails and the router has changed nothing: it always does when there is nothing to remove.
StepFails(u) ==
  /\ step[u] \notin {"idle", "strings"}
  /\ Throw(u)
  /\ orphans' = IF life[u] = "dying" THEN orphans \cup {port[u]} ELSE orphans
  /\ UNCHANGED router

\* The router makes the change, but the answer is lost or says otherwise.
AnswerLost(u) ==
  /\ step[u] = "request"
  /\ Throw(u)
  /\ IF closing[u]
       THEN router' = router \ {port[u]} /\ orphans' = orphans \ {port[u]}
       ELSE router' = router \cup {wanted[u]} /\ orphans' = orphans \cup {wanted[u]}

\* ClosePort returns; open() goes on.
Removed(u) ==
  /\ step[u] = "request" /\ closing[u] /\ port[u] \in router
  /\ router' = router \ {port[u]} /\ orphans' = orphans \ {port[u]}
  /\ port' = [port EXCEPT ![u] = 0]
  /\ life' = [life EXCEPT ![u] = IF @ = "dying" THEN "none" ELSE @]
  /\ step' = [step EXCEPT ![u] = IF wanted[u] = 0 THEN "idle" ELSE "discover"]
  /\ closing' = [closing EXCEPT ![u] = FALSE]
  /\ held' = Released(u)
  /\ UNCHANGED <<wanted, windows>>

\* OpenPort returns.
Added(u) ==
  /\ step[u] = "request" /\ ~closing[u]
  /\ router' = router \cup {wanted[u]} /\ orphans' = orphans \ {wanted[u]}
  /\ port' = [port EXCEPT ![u] = wanted[u]]
  /\ life' = [life EXCEPT ![u] = "alive"]
  /\ step' = [step EXCEPT ![u] = "idle"]
  /\ held' = Released(u)
  /\ UNCHANGED <<closing, wanted, windows>>

RouterRestarts ==
  /\ router # {}
  /\ router' = {} /\ orphans' = {}
  /\ UNCHANGED <<port, life, step, closing, wanted, held, windows>>

\* The process ends without destructors.
ProcessEnds ==
  /\ \E u \in Mappers : life[u] # "none"
  /\ port' = [u \in Mappers |-> 0] /\ life' = [u \in Mappers |-> "none"]
  /\ step' = [u \in Mappers |-> "idle"] /\ held' = [u \in Mappers |-> {}]
  /\ orphans' = router
  /\ UNCHANGED <<router, closing, wanted, windows>>

PortNext ==
  \/ \E u \in Mappers :
       \/ \E p \in Ports : OpenMapping(u, p)
       \/ \E state \in {"alive", "dying"} : CloseMapping(u, state)
       \/ DestroyMapper(u)
       \/ DiscoverDevices(u) \/ GetValidIGD(u) \/ CreateNat(u) \/ GetMappings(u) \/ FindLocalAddress(u)
       \/ ConvertStrings(u)
       \/ StepFails(u) \/ AnswerLost(u) \/ Removed(u) \/ Added(u)
  \/ RouterRestarts \/ ProcessEnds

PortSpec == PortInit /\ [][PortNext]_portVars
-----------------------------------------------------------------------------
\* Every port the router forwards is one that some object remembers and will close, whichever calls
\* throw in between and whichever objects share a port, unless the exception of a destructor or of a
\* request that was carried out all the same, or the end of the process, has left it behind.
Remembered == router \subseteq orphans \cup {port[u] : u \in Mappers}
=============================================================================
