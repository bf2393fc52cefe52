----------------------------- MODULE VectorSource -----------------------------
(***************************************************************************)
(* The VectorSource block (packet-modem/vector_source.hpp): the items of a *)
(* vector, once or again and again.  An item is written as its index in    *)
(* the vector, from 1; the tag of index i is i itself.                     *)
(*                                                                         *)
(* ProcessBulk is one call with space places in the output, which          *)
(* publishes the items out; tagged are the indices in out of the tags.     *)
(***************************************************************************)
EXTENDS Integers, Sequences, FiniteSetsExt

CONSTANTS
  Size,            (* data.size()                                          *)
  Tags,            (* the indices of the tags, from 1                      *)
  Repeat           (* repeat                                               *)

VARIABLES
  position         (* _position: items published of the current loop       *)

Lesser(a, b) == IF a <= b THEN a ELSE b

(* What remains of the current loop. *)
Rest(space) == Lesser(Size - position, space)

RestItems(space) == [i \in 1 .. Rest(space) |-> position + i]

(* The tags of what remains, by their index in the output. *)
RestTags(space) ==
  {t - position : t \in {t \in Tags : t > position /\ t - position <= Rest(space)}}

(* Behind the rest: full loops, and a part of one. *)
FullLoops(space) == (space - Rest(space)) \div Size

Partial(space) == (space - Rest(space)) % Size

LoopItems(space) ==
  [i \in 1 .. space - Rest(space) |-> ((i - 1) % Size) + 1]

(* Mutation: the part of a loop at the end leaves without its tags. *)
LoopTagsFull(space) ==
  {Rest(space) + loop * Size + t : loop \in 0 .. FullLoops(space) - 1, t \in Tags}

LoopTags(space) ==
  {Rest(space) + loop * Size + t : loop \in 0 .. FullLoops(space) - 1, t \in Tags}
    \cup {Rest(space) + FullLoops(space) * Size + t :
            t \in {t \in Tags : t <= Partial(space)}}

Ends(space) == position + Rest(space) = Size

ProcessBulk(space, out, tagged) ==
  IF Repeat /\ Ends(space)
    THEN /\ out = RestItems(space) \o LoopItems(space)
         /\ tagged = RestTags(space) \cup LoopTags(space)
         /\ position' = Partial(space)
    ELSE /\ out = RestItems(space)
         /\ tagged = RestTags(space)
         /\ position' = position + Rest(space)

Done == ~Repeat /\ position = Size

Init == position = 0
=============================================================================
