--------------------------------- MODULE MCBoot ---------------------------------
(***************************************************************************)
(* Constants for checking Boot: a gpio(4) of ten pins, the last two of     *)
(* which are inputs only, and configurations in which devices meet.        *)
(***************************************************************************)
EXTENDS Boot

D(type, pins) == [type |-> type, pins |-> pins]

Caps1 == [p \in 0 .. 9 |-> IF p < 8 THEN {"in", "out"} ELSE {"in"}]

Room1 == [type \in {"servo", "estop", "encoder", "mpg", "spotwelder"} |->
            IF type = "servo" THEN 3 ELSE 2]

\* GENERIC, whose spot welder wants a pin of servo2; a servo whose second pin
\* is taken, and one more servo than there are axes; and devices with a wrong
\* mask, without the capabilities they need, and out of range.
Configs1 == {
  <<D("servo", <<0, 1>>), D("servo", <<2, 3>>), D("servo", <<4, 5>>),
    D("spotwelder", <<5, 6, 7, 8>>)>>,
  <<D("estop", <<3>>), D("servo", <<2, 3>>), D("servo", <<2, 4>>), D("servo", <<0, 1>>),
    D("servo", <<5, 6>>)>>,
  <<D("estop", <<0, 1>>), D("servo", <<7, 8>>), D("encoder", <<8, 9>>), D("mpg", <<9, 10>>),
    D("servo", <<6, 7>>), D("mpg", <<1, 2, 3>>)>>}
==============================================================================
