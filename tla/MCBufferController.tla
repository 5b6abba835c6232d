------------------------- MODULE MCBufferController -------------------------
(* Instances of BufferController for TLC.                                  *)
EXTENDS BufferController

(* A stream is given by the positions of its packets, of its keys, of its  *)
(* seamless points, of the packets without a duration, of those that are   *)
(* discarded and of those with extra data, whose value is the position     *)
(* plus one.                                                               *)
Stream(positions, keys, seamless, untimed, discarded, extras) ==
    [i \in DOMAIN positions |->
        LET p == positions[i] IN
        [timePosition |-> p,
         key |-> p \in keys,
         seamlessPoint |-> p \in seamless,
         duration |-> IF p \in untimed THEN 0 ELSE 1,
         discard |-> p \in discarded,
         extra |-> IF p \in extras THEN p + 1 ELSE NoExtra]]

(* A video whose last two frames are decoded in the other order, with      *)
(* audio whose second packet is before a position that is sought (2) and   *)
(* behind the key before it, and music whose packets have no duration.     *)
SmallMedia ==
    {[video |-> Stream(<<0, 1, 3, 2>>, {0, 1}, {1}, {}, {3}, {3}),
      audio |-> Stream(<<0, 1, 2>>, 0 .. 2, {}, {}, {}, {})],
     [video |-> <<>>,
      audio |-> Stream(<<0, 1, 2, 3>>, 0 .. 3, {}, {0, 1, 2}, {}, {2})]}
=============================================================================
