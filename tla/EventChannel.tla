---------------------------- MODULE EventChannel ----------------------------
(***************************************************************************)
(* What a script's queue promises when a single thread writes it: the      *)
(* messages 1, 2, 3, ... come out in order, each once and intact, for as   *)
(* long as the reader is not lapped; and once the queue is closed at most  *)
(* one more message, the one already being taken, comes out.               *)
(***************************************************************************)
EXTENDS Naturals, Sequences

CONSTANT Limit          \* bound: messages ever put

VARIABLES
    put,                \* messages put so far: 1..put
    taken,              \* the numbers taken, 0 for a torn or wrong message
    sound,              \* the reader was never lapped
    phase               \* "open", "closing" (a take is under way), "closed"

chanVars == <<put, taken, sound, phase>>

ChannelInit ==
    /\ put = 0
    /\ taken = <<>>
    /\ sound = TRUE
    /\ phase = "open"

Put ==
    /\ put < Limit
    /\ put' = put + 1
    /\ UNCHANGED <<taken, sound, phase>>

Take ==
    /\ phase # "closed"
    /\ Len(taken) < put
    /\ \/ taken' = Append(taken, Len(taken) + 1)
       \/ ~sound /\ taken' = Append(taken, 0)
    /\ phase' = IF phase = "closing" THEN "closed" ELSE phase
    /\ UNCHANGED <<put, sound>>

Lap ==
    /\ sound
    /\ sound' = FALSE
    /\ UNCHANGED <<put, taken, phase>>

Close ==
    /\ phase = "open"
    /\ phase' \in {"closing", "closed"}
    /\ UNCHANGED <<put, taken, sound>>

ChannelNext == Put \/ Take \/ Lap \/ Close

ChannelSpec == ChannelInit /\ [][ChannelNext]_chanVars
=============================================================================
