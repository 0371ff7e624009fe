-------------------------- MODULE MCControlIngress --------------------------
(* States like those of states.json: a looping default, a one-shot with    *)
(* motions, a looping one with motions and one that holds.                 *)
EXTENDS ControlIngress

StateDef(motion, expression, sound, end, loop, hold) ==
    [motion |-> motion, expression |-> expression, sound |-> sound,
     end |-> end, loop |-> loop, hold |-> hold]

MCCatalog ==
    [standby |-> StateDef(<<>>, <<0>>, <<0>>, 0, TRUE, FALSE),
     boot    |-> StateDef(<<0, 1>>, <<0>>, <<1>>, 2, FALSE, FALSE),
     custom  |-> StateDef(<<0>>, <<0>>, <<>>, 2, TRUE, FALSE)]

MCActions == [wave |-> [motion |-> <<[at |-> 0, lasts |-> 1], [at |-> 1, lasts |-> 0], [at |-> 2, lasts |-> 0]>>,
                        total |-> 2]]

Ask(state, action, text, sound) == [state |-> state, action |-> action, text |-> text, sound |-> sound]
Post1(kind, candidates, text, sound) == [kind |-> kind, candidates |-> candidates, text |-> text, sound |-> sound]

MCDirect == {Ask("boot", "none", "none", "own")}
MCTouch == Ask("custom", "wave", "none", "silent")
MCMessages == {Post1("status", <<"boot", "wave">>, "none", "own"),
               Post1("text", <<>>, "hello", "default")}
\* the action_file is no state, the status is one
MCStatus == {Post1("status", <<"wave", "custom">>, "none", "silent")}
=============================================================================
