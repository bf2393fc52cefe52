---------------------------- MODULE SyncwordBlocks -----------------------------
(***************************************************************************)
(* The blocks that count through a syncword from the tag of a detection:   *)
(* SyncwordWipeoff (packet-modem/syncword_wipeoff.hpp) multiplies its      *)
(* symbols by those of the syncword, so that only the carrier is left of   *)
(* them, and SyncwordRemove (packet-modem/syncword_remove.hpp) takes them, *)
(* and the tag, out of the stream.  Each has a count of its own.           *)
(*                                                                         *)
(* Wipeoff and Remove are one call on n symbols, with space for as many,   *)
(* the first of them with a detection's tag if tagged.  Factors tells by   *)
(* which symbol of the syncword each is multiplied, 0 for none.            *)
(***************************************************************************)
EXTENDS Integers

CONSTANTS
  SyncwordSize     (* syncword.size(), syncword_size                       *)

VARIABLES
  in_syncword,     (* _in_syncword                                         *)
  position         (* _position                                            *)

Lesser(a, b) == IF a <= b THEN a ELSE b

(* A tag counts only outside of a syncword. *)
Starts(tagged) == tagged /\ ~in_syncword

Inside(tagged) == in_syncword \/ tagged

(* Mutation: the position is not reset. *)
FromLast(tagged) == position

From(tagged) == IF Starts(tagged) THEN 0 ELSE position

(* Mutation: every chunk is multiplied from the first symbol on. *)
FactorsFromFirst(n, tagged) ==
  [k \in 1 .. n |-> IF Inside(tagged) /\ k <= SyncwordSize THEN k ELSE 0]

Factors(n, tagged) ==
  [k \in 1 .. n |->
     IF Inside(tagged) /\ From(tagged) + k <= SyncwordSize
       THEN From(tagged) + k ELSE 0]

(* The position after a call inside of a syncword. *)
After(n, tagged) ==
  IF From(tagged) + n <= SyncwordSize THEN From(tagged) + n ELSE SyncwordSize

Wipeoff(n, tagged) ==
  IF Inside(tagged)
    THEN /\ position' = After(n, tagged)
         /\ in_syncword' = (After(n, tagged) # SyncwordSize)
    ELSE UNCHANGED <<in_syncword, position>>

(* The symbols of the call that are dropped: the rest of the syncword. *)
Drops(n, tagged) ==
  IF Inside(tagged) THEN Lesser(n, SyncwordSize - From(tagged)) ELSE 0

(* Mutation: the tags are cleared with the syncword's. *)
PassesNever(tagged) == FALSE

(* The tag of the first symbol is published, but not in a syncword. *)
Passes(tagged) == ~Inside(tagged)

Remove(n, tagged) ==
  IF Inside(tagged)
    THEN /\ position' = From(tagged) + Drops(n, tagged)
         /\ in_syncword' = (position' < SyncwordSize)
    ELSE UNCHANGED <<in_syncword, position>>

Init == in_syncword = FALSE /\ position = 0
=============================================================================
