---------------------------- MODULE MCSkillSync ----------------------------
(* Two sources; both can ship foo, and the first also the name foo gets    *)
(* when the second's is prefixed.  The second can ship foo twice.          *)
EXTENDS SkillSync

MCOrder == <<"s1", "s2">>
MCPrefix == [s \in Source |-> <<s>>]

foo == <<"foo">>
s2foo == <<"s2", "foo">>
MCName == {foo, s2foo}

MCShips == [s1 |-> {<<>>, <<foo>>, <<s2foo>>, <<foo, s2foo>>},
            s2 |-> {<<>>, <<foo>>, <<foo, foo>>}]
MCMaxRev == [s1 |-> 2, s2 |-> 3]

MCShipsFoo == [s \in Source |-> {<<>>, <<foo>>}]
MCMaxRevTwo == [s \in Source |-> 2]
=============================================================================
