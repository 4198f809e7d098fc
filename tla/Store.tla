-------------------------------- MODULE Store -------------------------------
(***************************************************************************)
(* The two backends of oce_store, given the same calls: SQLite's tables,   *)
(* whose rows are kept by key, and the in-memory arrays that stand in for  *)
(* them in tests, where a delete moves the last row into the gap.          *)
(*                                                                         *)
(* One handle, one call at a time; a call that runs out of memory or meets *)
(* an I/O error changes nothing and is no action.  Owners are never NULL,  *)
(* as the engine always passes a string.  A row's version is a constant.   *)
(***************************************************************************)
EXTENDS Integers, Sequences, FiniteSets, SequencesExt, FiniteSetsExt

CONSTANTS CharIds, CampIds,   \* ids, numbers for the order of their strings
          Owners,             \* ids a campaign is written with as its character
          Texts,              \* what a row or a message may hold
          MaxMessages         \* bound

ASSUME StoreAssumption ==
    CharIds \subseteq Nat /\ CampIds \subseteq Nat /\ MaxMessages \in Nat

VARIABLES
    memChars, memCamps, memMsgs,   \* mem_impl: arrays of rows
    sqChars, sqCamps, sqMsgs       \* the tables: sets of rows

vars == <<memChars, memCamps, memMsgs, sqChars, sqCamps, sqMsgs>>

Init ==
    /\ memChars = <<>> /\ memCamps = <<>> /\ memMsgs = <<>>
    /\ sqChars = {} /\ sqCamps = {} /\ sqMsgs = {}

-----------------------------------------------------------------------------
(* Listings.                                                               *)

\* The number of the set that has k - 1 below it.
Nth(set, k) == CHOOSE i \in set : Cardinality({j \in set : j < i}) = k - 1

\* What is kept under numbers, in their order: an array's loop, or ORDER BY.
InOrder(f) == [k \in 1..Cardinality(DOMAIN f) |-> f[Nth(DOMAIN f, k)]]

-----------------------------------------------------------------------------
(* The in-memory backend.                                                  *)

\* The first row of an id, 0 when there is none.
RowOf(rows, id) == SelectInSeq(rows, LAMBDA r : r.id = id)

\* Mutant: a row that is there is not looked for.
MemUpsertAppends(rows, row) == Append(rows, row)

MemUpsert(rows, row) ==
    IF RowOf(rows, row.id) = 0 THEN Append(rows, row)
    ELSE [rows EXCEPT ![RowOf(rows, row.id)] = row]

\* Mutant: the last row is dropped without being moved.
MemDeleteLast(rows, id) == IF RowOf(rows, id) = 0 THEN rows ELSE Front(rows)

\* The last row moves into the gap; an id that is not there is fine.
MemDelete(rows, id) ==
    IF RowOf(rows, id) = 0 THEN rows
    ELSE Front([rows EXCEPT ![RowOf(rows, id)] = Last(rows)])

MemList(rows) == [i \in DOMAIN rows |-> rows[i].id]
MemListOf(rows, owner) == InOrder([i \in {j \in DOMAIN rows : rows[j].parent = owner} |-> rows[i].id])

MemAppend(msgs, campaign, text) == Append(msgs, [campaign |-> campaign, content |-> text])

\* msg_list: the messages of a campaign, in the array's order.
MemMessages(msgs, campaign) ==
    InOrder([i \in {j \in DOMAIN msgs : msgs[j].campaign = campaign} |-> msgs[i].content])

-----------------------------------------------------------------------------
(* The SQLite backend.                                                     *)

\* INSERT ... ON CONFLICT(id) DO UPDATE of every other column.
SqUpsert(table, row) == {r \in table : r.id # row.id} \cup {row}

SqDelete(table, id) == {r \in table : r.id # id}

\* ORDER BY id.
SqList(table) == InOrder([id \in {r.id : r \in table} |-> id])
SqListOf(table, owner) == SqList({r \in table : r.parent = owner})

OfCampaign(table, campaign) == {m \in table : m.campaign = campaign}

\* The next index of the campaign: COALESCE(MAX(idx), -1) + 1.
SqAppend(table, campaign, text) ==
    table \cup {[campaign |-> campaign, content |-> text,
                 idx |-> Max({-1} \cup {m.idx : m \in OfCampaign(table, campaign)}) + 1]}

\* ORDER BY idx, which is unique in a campaign.
Numbered(own, i) == CHOOSE m \in own : m.idx = i
SqMessages(table, campaign) ==
    LET own == OfCampaign(table, campaign)
    IN InOrder([i \in {m.idx : m \in own} |-> Numbered(own, i).content])

-----------------------------------------------------------------------------
(* The calls.                                                              *)

CharUpsert(id, text) ==
    /\ memChars' = MemUpsert(memChars, [id |-> id, json |-> text])
    /\ sqChars' = SqUpsert(sqChars, [id |-> id, json |-> text])
    /\ UNCHANGED <<memCamps, memMsgs, sqCamps, sqMsgs>>

CampaignUpsert(id, owner, text) ==
    /\ memCamps' = MemUpsert(memCamps, [id |-> id, parent |-> owner, json |-> text])
    /\ sqCamps' = SqUpsert(sqCamps, [id |-> id, parent |-> owner, json |-> text])
    /\ UNCHANGED <<memChars, memMsgs, sqChars, sqMsgs>>

CharDelete(id) ==
    /\ memChars' = MemDelete(memChars, id) /\ sqChars' = SqDelete(sqChars, id)
    /\ UNCHANGED <<memCamps, memMsgs, sqCamps, sqMsgs>>

\* The campaign's messages stay in both.
CampaignDelete(id) ==
    /\ memCamps' = MemDelete(memCamps, id) /\ sqCamps' = SqDelete(sqCamps, id)
    /\ UNCHANGED <<memChars, memMsgs, sqChars, sqMsgs>>

MsgAppend(id, text) ==
    /\ Len(memMsgs) < MaxMessages
    /\ memMsgs' = MemAppend(memMsgs, id, text)
    /\ sqMsgs' = SqAppend(sqMsgs, id, text)
    /\ UNCHANGED <<memChars, memCamps, sqChars, sqCamps>>

Next == \/ \E id \in CharIds, text \in Texts : CharUpsert(id, text)
        \/ \E id \in CampIds, owner \in Owners, text \in Texts : CampaignUpsert(id, owner, text)
        \/ \E id \in CharIds : CharDelete(id)
        \/ \E id \in CampIds : CampaignDelete(id)
        \/ \E id \in CampIds, text \in Texts : MsgAppend(id, text)

Spec == Init /\ [][Next]_vars

-----------------------------------------------------------------------------
(* Properties.                                                             *)

\* Types.
TypeOK ==
    /\ \A i \in DOMAIN memChars : memChars[i] \in [id : CharIds, json : Texts]
    /\ \A i \in DOMAIN memCamps : memCamps[i] \in [id : CampIds, parent : Owners, json : Texts]
    /\ sqChars \subseteq [id : CharIds, json : Texts]
    /\ sqCamps \subseteq [id : CampIds, parent : Owners, json : Texts]
    /\ \A m \in sqMsgs : m.campaign \in CampIds /\ m.content \in Texts /\ m.idx \in 0..MaxMessages - 1

\* What the two hold is the same, row for row, although one of them is an array
\* that is written in place and shrinks by moving rows: no row is doubled, lost or
\* left behind (oce_store.c:417-512), and they list the same characters, and the same
\* campaigns of each owner.  The order of a listing is not compared: the header
\* promises none.  A transcript is listed in the order it was written, whatever was
\* said in other campaigns in between or deleted (oce_store.c:211-216, 566-573).
BackendsHoldTheSame ==
    /\ IsInjective(MemList(memChars)) /\ IsInjective(MemList(memCamps))
    /\ ToSet(memChars) = sqChars /\ ToSet(memCamps) = sqCamps
    /\ ToSet(MemList(memChars)) = ToSet(SqList(sqChars))
    /\ \A owner \in Owners :
          ToSet(MemListOf(memCamps, owner)) = ToSet(SqListOf(sqCamps, owner))
    /\ \A c \in CampIds : MemMessages(memMsgs, c) = SqMessages(sqMsgs, c)

-----------------------------------------------------------------------------
(* Each backend, seen through its own reads, is a repository that does     *)
(* what the call asked for.                                                *)

Loaded(rows, id) == rows[RowOf(rows, id)]

MemRepository == INSTANCE Repository WITH
    characters <- [id \in ToSet(MemList(memChars)) |-> Loaded(memChars, id).json],
    campaigns <- [id \in ToSet(MemList(memCamps)) |->
                    [parent |-> Loaded(memCamps, id).parent, json |-> Loaded(memCamps, id).json]],
    transcripts <- [c \in CampIds |-> MemMessages(memMsgs, c)]

\* The arrays are a repository (oce_store.c:417-512, 527-573).
MemoryServes ==
    /\ MemRepository!Spec
    /\ [][/\ \A id \in CharIds, text \in Texts :
                CharUpsert(id, text) => MemRepository!WriteCharacter(id, text)
          /\ \A id \in CampIds, owner \in Owners, text \in Texts :
                CampaignUpsert(id, owner, text) => MemRepository!WriteCampaign(id, owner, text)
          /\ \A id \in CharIds : CharDelete(id) => MemRepository!DropCharacter(id)
          /\ \A id \in CampIds : CampaignDelete(id) => MemRepository!DropCampaign(id)
          /\ \A id \in CampIds, text \in Texts :
                MsgAppend(id, text) => MemRepository!Say(id, text)]_vars
=============================================================================
