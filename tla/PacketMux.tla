------------------------------ MODULE PacketMux -------------------------------
(***************************************************************************)
(* The stream form of the PacketMux block of the transmitter               *)
(* (packet-modem/packet_mux.hpp).                                          *)
(*                                                                         *)
(* The block joins one packet of every input to one packet in the output.  *)
(* All its ports are asynchronous: a call gets what every input link holds *)
(* and any space in the output.  ProcessBulk is one call: avail[j] is the  *)
(* number of items that input j holds and bits[j] the length tag of the    *)
(* first of them.  The loop of the handler goes on to the next input when  *)
(* a packet is copied and there is space left, and never past the end of   *)
(* the joined packet; it is one step here.                                 *)
(***************************************************************************)
EXTENDS Integers, FiniteSetsExt

CONSTANTS
  NumInputs        (* num_inputs                                           *)

VARIABLES
  packet_lens,     (* _packet_lens: empty between packets                  *)
  current_input,   (* _current_input, counted from 1                       *)
  remaining,       (* _remaining: items to come from the current input     *)
  failed           (* processBulk() has thrown                             *)

vars == <<packet_lens, current_input, remaining, failed>>

Inputs == 1 .. NumInputs

Lesser(a, b) == IF a <= b THEN a ELSE b

AtStart == packet_lens = <<>>

(* Mutation: a packet does not start on a single item. *)
ReadyLate(avail) == ~AtStart \/ \A j \in Inputs : avail[j] > 1

(* A new packet starts once there is something in all the inputs. *)
Ready(avail) == ~AtStart \/ \A j \in Inputs : avail[j] > 0

Lens(bits) == IF AtStart THEN bits ELSE packet_lens

First == IF AtStart THEN 1 ELSE current_input

(* Mutation: what was copied by earlier calls is forgotten. *)
NeedsWhole(bits, j) == IF j < First THEN 0 ELSE Lens(bits)[j]

(* What the rest of the packet needs from input j. *)
Needs(bits, j) ==
  CASE j < First            -> 0
    [] j = First /\ ~AtStart -> remaining
    [] OTHER                -> Lens(bits)[j]

(* The places of the output before the part of input j. *)
Before(bits, j) == MapThenSumSet(LAMBDA k : Needs(bits, k), 1 .. j - 1)

Reaches(avail, bits, space, j) ==
  /\ \A k \in 1 .. j - 1 : avail[k] >= Needs(bits, k)
  /\ Before(bits, j) <= space

(* The items that a call copies from every input. *)
Takes(avail, bits, space) ==
  [j \in Inputs |->
     IF Reaches(avail, bits, space, j)
       THEN Lesser(Lesser(avail[j], Needs(bits, j)), space - Before(bits, j))
       ELSE 0]

Finishes(bits, taken) == \A j \in Inputs : taken[j] = Needs(bits, j)

(* The length tag of the joined packet. *)
TagOut(bits) == IF AtStart THEN MapThenSumSet(LAMBDA j : bits[j], Inputs) ELSE 0

Wait(avail, taken) ==
  /\ ~Ready(avail)
  /\ taken = [j \in Inputs |-> 0]
  /\ UNCHANGED vars

(* The packet of an input does not begin with its length. *)
Throw(avail, bits, taken) ==
  /\ AtStart /\ Ready(avail)
  /\ \E j \in Inputs : bits[j] = 0
  /\ taken = [j \in Inputs |-> 0]
  /\ failed' = TRUE
  /\ UNCHANGED <<packet_lens, current_input, remaining>>

Copy(avail, bits, space, taken) ==
  /\ Ready(avail)
  /\ AtStart => \A j \in Inputs : bits[j] # 0
  /\ taken = Takes(avail, bits, space)
  /\ IF Finishes(bits, taken)
       THEN /\ packet_lens' = <<>>
            /\ current_input' = NumInputs + 1
            /\ remaining' = 0
       ELSE /\ packet_lens' = Lens(bits)
            /\ current_input' = CHOOSE j \in Inputs :
                                  /\ taken[j] < Needs(bits, j)
                                  /\ \A k \in 1 .. j - 1 : taken[k] = Needs(bits, k)
            /\ remaining' = Needs(bits, current_input') - taken[current_input']
  /\ UNCHANGED failed

ProcessBulk(avail, bits, space, taken) ==
  /\ ~failed
  /\ \/ Wait(avail, taken)
     \/ Throw(avail, bits, taken)
     \/ Copy(avail, bits, space, taken)

(* start() clears _packet_lens; the others are set with it. *)
Init ==
  /\ packet_lens = <<>>
  /\ current_input = NumInputs + 1
  /\ remaining = 0
  /\ failed = FALSE
=============================================================================
