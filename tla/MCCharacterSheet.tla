------------------------- MODULE MCCharacterSheet ---------------------------
(* Instances of CharacterSheet for TLC.                                    *)
EXTENDS CharacterSheet

\* A blade, an armor, a potion of each sort, and a weapon given the wrong slot.
KindSet == {<<"weapon", "hand">>, <<"armor", "body">>, <<"weapon", "body">>,
            <<"potion", "consumable">>, <<"elixir", "consumable">>}
NeedSeq == <<1, 2, 3, 4, 5>>
ChangeSet == {-2, 0, 1}
=============================================================================
