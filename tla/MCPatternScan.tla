--------------------------- MODULE MCPatternScan ---------------------------
(***************************************************************************)
(* PatternScan on six addresses: a module with one mapping, with two that  *)
(* touch and another module behind, with an unreadable one between them,   *)
(* and a module that is not there.  The words are a wildcard, two bytes,   *)
(* one of them with more text behind it, a number too large for a byte,    *)
(* and no number.                                                          *)
(***************************************************************************)
EXTENDS PatternScan

Line(from, to, r, n) == [start |-> from, end |-> to, readable |-> r, name |-> n]
TheMaps ==
  {<<Line(1, 4, TRUE, "mod")>>,
   <<Line(0, 2, TRUE, "mod"), Line(2, 5, TRUE, "mod"), Line(5, 6, TRUE, "other")>>,
   <<Line(0, 3, TRUE, "mod"), Line(3, 4, FALSE, "mod"), Line(4, 5, TRUE, "mod"),
     Line(5, 6, TRUE, "none")>>,
   <<Line(0, 2, TRUE, "other")>>}

TheWords == {"?", "0", "1z", "2", "z"}
TheWild == {"?"}
TheStoul == [w \in TheWords \ TheWild |->
               CASE w = "0" -> 0 [] w = "1z" -> 1 [] w = "2" -> 2 [] w = "z" -> NoNumber]
=============================================================================
