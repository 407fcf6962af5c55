------------------------------ MODULE MCBoards ------------------------------
(***************************************************************************)
(* The relays of the two boards, which share no state: of the ESP8266      *)
(* (ChannelControl), where one loop does everything, and of the ESP32      *)
(* (Esp32Relays), where tasks run side by side.  Part says which of them   *)
(* moves in a behaviour; the other stays as it began, with no timer        *)
(* running, so that no fairness condition asks it to move.                 *)
(*                                                                         *)
(* Two channels each, the first at boot with inching (on the ESP8266 with  *)
(* a wall switch): enough for the interlock to force a channel OFF while   *)
(* its deadline is pending, and for two tasks to meet on a channel.        *)
(***************************************************************************)
EXTENDS ChannelControl

CONSTANTS c1, c2,
          Parts,    \* the parts that are checked
          Count, MaxCalls, MaxMisses,   \* Esp32Relays
          InchingAtBoot   \* bound: which channels' switches may begin with inching

MCChannels == {c1, c2}
MCHasInput == {c1}

HardwareOf(mode, inching, interlock) ==
    [mode |-> [c \in Channels |-> mode],
     inching |-> [c \in Channels |-> c = c1 /\ inching],
     interlock |-> interlock]

\* Every mode, with and without the interlock; the plain one disables all.
MCPushes ==
    {HardwareOf("DISABLED", FALSE, FALSE), HardwareOf("TOGGLE", TRUE, FALSE),
     HardwareOf("TOGGLE", TRUE, TRUE), HardwareOf("EDGE", TRUE, TRUE)}

\* Enough for the violations: c1 inching, no wall switch in use.
MCInchingOnly == {HardwareOf("DISABLED", TRUE, FALSE)}

VARIABLES
    part,
    \* Esp32Relays
    relay, timers, interlock, listed, inching, call, todo, told, linked, calls, misses,
    timed, forced, alone, sole, known, unsure

taskVars == <<relay, timers, interlock, listed, inching, call, todo, told, linked, calls, misses,
              timed, forced, alone, sole, known, unsure>>

E == INSTANCE Esp32Relays WITH armed <- timers

ASSUME TasksAssumption == E!CountsAssumption

MCInit ==
    /\ part \in Parts
    /\ Init /\ (part # "esp8266" => contact = AllOff)
    /\ E!Init /\ (part # "esp32" => listed = {} /\ ~interlock)
    /\ \E i \in InchingAtBoot : inching = listed \cap i

MCNext ==
    \/ part = "esp8266" /\ Next /\ UNCHANGED <<part, taskVars>>
    \/ part = "esp32" /\ E!Next /\ UNCHANGED <<part, vars>>

MCSpec == MCInit /\ [][MCNext]_<<part, vars, taskVars>>

\* For the liveness of either part on its own.
MCFairSpec == MCSpec /\ E!Fairness /\ \A c \in Channels : WF_vars(InchingExpires(c))

-----------------------------------------------------------------------------
\* The properties of the ESP32's relays; each is stated where it is defined.
\* A command leaves no channel with inching ON and untimed.
InchingTimed == E!InchingTimed

\* ... and so it goes OFF by itself.
InchingEnds == E!InchingEnds

\* A command that turns a channel ON alone makes the interlock hold again.
InterlockAlone == E!InterlockAlone

\* The backend has the state of every channel published or commanded, but those
\* whose last report was lost or crossed another.
ReportedAlone == E!ReportedAlone

\* What the source says and the code does not keep.
MutuallyExclusive == E!MutuallyExclusive
=============================================================================
