---------------------------- MODULE MCChannelSafety ----------------------------
(* Two remote commands, times of one or two units, two mishaps, two reports  *)
(* on their way: enough for one to overtake the other.                       *)
EXTENDS ChannelSafety

CONSTANTS c1, c2

MCCommands == {c1, c2}
=============================================================================
