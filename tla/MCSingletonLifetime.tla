------------------------- MODULE MCSingletonLifetime -------------------------
(* A small instance of SingletonLifetime for TLC: one singleton with the     *)
(* default policy, a Phoenix, and three with longevities, two of them equal. *)
EXTENDS SingletonLifetime

McSingletons == {"plain", "phoenix", "short", "twin", "log"}
McPolicy ==
  [s \in McSingletons |->
    CASE s = "plain" -> "default" [] s = "phoenix" -> "phoenix" [] OTHER -> "longevity"]
McLongevity == [s \in McSingletons |-> IF s = "log" THEN 100 ELSE 1]
=============================================================================
