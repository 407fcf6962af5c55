-------------------------- MODULE MCAutomationCascade --------------------------
(* Two automations that feed back into one another, over two channels.      *)
EXTENDS AutomationCascade

CONSTANTS a1, a2, u1, s1, s2

MCChannels == {1, 2}
MCAutomations == {a1, a2}
MCCommands == {u1}
MCChanges == {<<1, "ON">>, <<1, "OFF">>}
MCSlots == {s1, s2}

\* "When 1 turns on, turn 2 on and 1 off"; "when 2 turns on, turn 1 on".
BlinkTrigger == a1 :> <<1, "ON">> @@ a2 :> <<2, "ON">>
BlinkActions == a1 :> <<<<2, "ON">>, <<1, "OFF">>>> @@ a2 :> <<<<1, "ON">>>>

\* "When 1 turns off, turn it on", and the same for 2.
KeepOnTrigger == a1 :> <<1, "OFF">> @@ a2 :> <<2, "OFF">>
KeepOnActions == a1 :> <<<<1, "ON">>>> @@ a2 :> <<<<2, "ON">>>>
=============================================================================
