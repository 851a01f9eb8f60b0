--------------------------- MODULE RangedDownload ---------------------------
(***************************************************************************)
(* What the segment buffer promises to whoever reads the file while it is  *)
(* being downloaded, without workers, cursor, vector or counters: a unit   *)
(* of the file is free, then being fetched, then sealed, and never goes    *)
(* back; units are handed out from the front of the file; a unit is sealed *)
(* only with real content, and what is sealed never changes.               *)
(***************************************************************************)
EXTENDS Integers

CONSTANTS TotalSize, Data, Hole

VARIABLES phase, content

vars == <<phase, content>>

Offset == 0 .. TotalSize - 1

Phase == {"free", "fetching", "sealed"}

TypeOK ==
  /\ phase \in [Offset -> Phase]
  /\ content \in [Offset -> Data \cup {Hole}]

Init ==
  /\ phase = [o \in Offset |-> "free"]
  /\ content = [o \in Offset |-> Hole]

(* Everything that is still free up to the unit last is handed out. *)
Take(last) ==
  /\ phase[last] = "free"
  /\ phase' = [o \in Offset |-> IF phase[o] = "free" /\ o <= last
                                THEN "fetching" ELSE phase[o]]
  /\ UNCHANGED content

Fetch(units, d) ==
  /\ \A o \in units : phase[o] = "fetching"
  /\ content' = [o \in Offset |-> IF o \in units THEN d ELSE content[o]]
  /\ UNCHANGED phase

Seal(units) ==
  /\ \A o \in units : phase[o] = "fetching" /\ content[o] # Hole
  /\ phase' = [o \in Offset |-> IF o \in units THEN "sealed" ELSE phase[o]]
  /\ UNCHANGED content

Next ==
  \/ \E last \in Offset : Take(last)
  \/ \E units \in SUBSET Offset, d \in Data : Fetch(units, d)
  \/ \E units \in SUBSET Offset : Seal(units)

Spec == Init /\ [][Next]_vars
=============================================================================
