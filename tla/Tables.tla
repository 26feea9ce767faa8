------------------------------- MODULE Tables -------------------------------
(* The authorization service's tables and maps, as functions on their keys.   *)

\* An insert of a row under a key that has none; a row that is there stays.
WithRow(table, key, row) ==
  [x \in DOMAIN table \cup {key} |-> IF x \in DOMAIN table THEN table[x] ELSE row]
=============================================================================
