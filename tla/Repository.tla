----------------------------- MODULE Repository -----------------------------
(***************************************************************************)
(* What oce_store promises: characters and campaigns are kept by id, a     *)
(* write replaces the whole row, a delete takes away that row only, and a  *)
(* campaign's transcript only grows at its end.                            *)
(***************************************************************************)
EXTENDS Sequences

CONSTANTS CharIds, CampIds, Owners, Texts

VARIABLES characters,   \* from the ids there are to their text
          campaigns,    \* from the ids there are to owner and text
          transcripts   \* from CampIds to the texts appended

vars == <<characters, campaigns, transcripts>>

NoRows == [id \in {} |-> <<>>]

Init ==
    /\ characters = NoRows /\ campaigns = NoRows
    /\ transcripts = [c \in CampIds |-> <<>>]

Put(table, id, row) == [i \in DOMAIN table \cup {id} |-> IF i = id THEN row ELSE table[i]]
Without(table, id) == [i \in DOMAIN table \ {id} |-> table[i]]

WriteCharacter(id, text) ==
    /\ characters' = Put(characters, id, text)
    /\ UNCHANGED <<campaigns, transcripts>>

WriteCampaign(id, owner, text) ==
    /\ campaigns' = Put(campaigns, id, [parent |-> owner, json |-> text])
    /\ UNCHANGED <<characters, transcripts>>

DropCharacter(id) ==
    /\ characters' = Without(characters, id)
    /\ UNCHANGED <<campaigns, transcripts>>

DropCampaign(id) ==
    /\ campaigns' = Without(campaigns, id)
    /\ UNCHANGED <<characters, transcripts>>

Say(id, text) ==
    /\ transcripts' = [transcripts EXCEPT ![id] = Append(@, text)]
    /\ UNCHANGED <<characters, campaigns>>

Next == \/ \E id \in CharIds, text \in Texts : WriteCharacter(id, text)
        \/ \E id \in CampIds, owner \in Owners, text \in Texts : WriteCampaign(id, owner, text)
        \/ \E id \in CharIds : DropCharacter(id)
        \/ \E id \in CampIds : DropCampaign(id)
        \/ \E id \in CampIds, text \in Texts : Say(id, text)

Spec == Init /\ [][Next]_vars
=============================================================================
