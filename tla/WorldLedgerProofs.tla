------------------------- MODULE WorldLedgerProofs --------------------------
(***************************************************************************)
(* Saving keeps the world, for any number of characters, campaigns, NPCs,  *)
(* factions and changes: theorems about WorldLedger.                       *)
(*                                                                         *)
(* The game is a good half of a character and a good half of a campaign    *)
(* (CharacterGood, CampaignGood), and so is each row once it is read into  *)
(* a fresh state, which is the only state the code reads a row into.  The  *)
(* lemmas on the way: a list is read back as it was written, a map that    *)
(* became an array is read back as it was, and no operation puts an entry  *)
(* into a list that holds it.                                              *)
(***************************************************************************)
EXTENDS WorldLedger, FiniteSetTheorems, SequenceTheorems, TLAPS

-----------------------------------------------------------------------------
(* The inductive invariant.                                                *)

\* A game state has these fields and no other.
Shape(g) == g = [inventory |-> g.inventory, hand |-> g.hand, assets |-> g.assets,
                 world |-> g.world, visited |-> g.visited, facts |-> g.facts,
                 npcs |-> g.npcs, factions |-> g.factions,
                 story |-> g.story, enemies |-> g.enemies, actions |-> g.actions]

\* Entries of game of: made before the m-th change, or named.
Numbered(of, m) == [of : {of}, n : 0..m - 1]
Named(of) == [of : {of}, n : Names]
NpcRecords(of) == [id : Folk, of : {of}, n : Nat]
FactionRecords(of) == [id : Factions, of : {of}, standing : -MaxStanding..MaxStanding]

\* A list without an entry twice, and a map from the ids of what it holds.
ListOf(list, entries) == list \in Seq(entries) /\ IsInjective(list)
MapOf(map, records) ==
    /\ map \in [DOMAIN map -> records] /\ IsFiniteSet(DOMAIN map)
    /\ \A id \in DOMAIN map : map[id].id = id

CharacterGood(g, c, m) ==
    /\ ListOf(g.inventory, Numbered(c, m)) /\ ListOf(g.assets, Numbered(c, m))
    /\ ListOf(g.visited, Named(c)) /\ ListOf(g.facts, Named(c))
    /\ g.hand \subseteq Numbered(c, m) /\ \A x, y \in g.hand : x = y
    /\ g.hand \cap ToSet(g.inventory) = {}
    /\ MapOf(g.npcs, NpcRecords(c)) /\ MapOf(g.factions, FactionRecords(c))

CampaignGood(g, k, m) ==
    /\ ListOf(g.story, Numbered(k, m)) /\ ListOf(g.enemies, Numbered(k, m))
    /\ ListOf(g.actions, Numbered(k, m))

Good(g, c, k, m) == Shape(g) /\ CharacterGood(g, c, m) /\ CampaignGood(g, k, m)

\* Each row is good once it is read into a fresh state.
RowsGood ==
    /\ DOMAIN characters \subseteq Characters /\ DOMAIN campaigns \subseteq Campaigns
    /\ \A c \in DOMAIN characters : CharacterGood(ReadCharacter(characters[c], FreshState), c, made)
    /\ \A k \in DOMAIN campaigns :
        /\ campaigns[k].parent \in Characters
        /\ CampaignGood(ReadCampaign(campaigns[k].json, FreshState), k, made)

LedgerInv ==
    /\ Good(game, characterId, campaignId, made)
    /\ characterId \in Characters /\ campaignId \in Campaigns
    /\ RowsGood
    /\ active \in (Characters \X Campaigns) \cup {NoGame}
    /\ turnInProgress \in BOOLEAN /\ unsaved \in BOOLEAN /\ made \in 0..MaxMade
    /\ SavedReadsBack

-----------------------------------------------------------------------------
(* Lists, and sets as lists.                                               *)

\* A longer list of what was not there before.
LEMMA ListAppended ==
    ASSUME NEW S, NEW s, ListOf(s, S), NEW x \in S, x \notin ToSet(s)
    PROVE  ListOf(Append(s, x), S) /\ ToSet(Append(s, x)) = ToSet(s) \cup {x}
<1>1. s \in Seq(S) /\ Len(s) \in Nat /\ DOMAIN s = 1..Len(s)
  BY DEF ListOf
<1> DEFINE t == Append(s, x)
<1>2. /\ t \in Seq(S) /\ DOMAIN t = 1..Len(s) + 1 /\ t[Len(s) + 1] = x
      /\ \A i \in 1..Len(s) : t[i] = s[i]
  BY <1>1
<1> HIDE DEF t
<1>3. \A i \in DOMAIN t : (i \in DOMAIN s /\ t[i] = s[i]) \/ (i = Len(s) + 1 /\ t[i] = x)
  BY <1>1, <1>2
<1>4. \A i \in DOMAIN s : i \in DOMAIN t /\ t[i] = s[i] /\ s[i] # x
  BY <1>1, <1>2 DEF ToSet
<1>5. Len(s) + 1 \in DOMAIN t
  BY <1>1, <1>2
<1>6. ToSet(t) = ToSet(s) \cup {x}
  BY <1>2, <1>3, <1>4, <1>5 DEF ToSet
<1>7. IsInjective(t)
  <2>1. \A i, j \in DOMAIN s : s[i] = s[j] => i = j
    BY DEF ListOf, IsInjective
  <2>2. \A i, j \in DOMAIN t : t[i] = t[j] => i = j
    BY <1>3, <1>4, <2>1
  <2> QED BY <2>2 DEF IsInjective
<1> QED BY <1>2, <1>6, <1>7 DEF ListOf, t

\* Two lists that have nothing in common, one behind the other.
LEMMA ListsJoined ==
    ASSUME NEW S, NEW s, NEW t, ListOf(s, S), ListOf(t, S), ToSet(s) \cap ToSet(t) = {}
    PROVE  ListOf(s \o t, S) /\ ToSet(s \o t) = ToSet(s) \cup ToSet(t)
<1>1. /\ s \in Seq(S) /\ Len(s) \in Nat /\ DOMAIN s = 1..Len(s)
      /\ t \in Seq(S) /\ Len(t) \in Nat /\ DOMAIN t = 1..Len(t)
  BY DEF ListOf
<1> DEFINE u == s \o t
<1>2. /\ u \in Seq(S) /\ Len(u) = Len(s) + Len(t)
      /\ \A i \in 1..Len(s) + Len(t) : u[i] = IF i <= Len(s) THEN s[i] ELSE t[i - Len(s)]
  BY <1>1, ConcatProperties
<1>3. DOMAIN u = 1..Len(s) + Len(t)
  BY <1>2
<1> HIDE DEF u
<1>4. \A i \in DOMAIN u : \/ i \in DOMAIN s /\ u[i] = s[i]
                          \/ i - Len(s) \in DOMAIN t /\ u[i] = t[i - Len(s)]
  BY <1>1, <1>2, <1>3
<1>5. /\ \A i \in DOMAIN s : i \in DOMAIN u /\ u[i] = s[i]
      /\ \A i \in DOMAIN t : i + Len(s) \in DOMAIN u /\ u[i + Len(s)] = t[i]
  BY <1>1, <1>2, <1>3
<1>6. ToSet(u) = ToSet(s) \cup ToSet(t)
  BY <1>4, <1>5 DEF ToSet
<1>7. IsInjective(u)
  <2> SUFFICES ASSUME NEW i \in DOMAIN u, NEW j \in DOMAIN u, u[i] = u[j] PROVE i = j
      BY DEF IsInjective
  <2>1. \A k \in DOMAIN s, l \in DOMAIN t : s[k] # t[l]
    BY DEF ToSet
  <2>2. CASE i \in DOMAIN s /\ u[i] = s[i] /\ j \in DOMAIN s /\ u[j] = s[j]
    BY <2>2 DEF ListOf, IsInjective
  <2>3. CASE /\ i - Len(s) \in DOMAIN t /\ u[i] = t[i - Len(s)]
             /\ j - Len(s) \in DOMAIN t /\ u[j] = t[j - Len(s)]
    <3>1. i - Len(s) = j - Len(s)
      BY <2>3 DEF ListOf, IsInjective
    <3> QED BY <1>1, <1>3, <3>1
  <2> QED BY <1>4, <2>1, <2>2, <2>3
<1> QED BY <1>2, <1>6, <1>7 DEF ListOf, u

\* A list without one of its entries.
LEMMA ListShortened ==
    ASSUME NEW S, NEW s, ListOf(s, S), NEW i \in DOMAIN s
    PROVE  ListOf(RemoveAt(s, i), S) /\ ToSet(RemoveAt(s, i)) = ToSet(s) \ {s[i]}
<1> DEFINE l == SubSeq(s, 1, i - 1)
           r == SubSeq(s, i + 1, Len(s))
<1>1. /\ s \in Seq(S) /\ Len(s) \in Nat /\ DOMAIN s = 1..Len(s) /\ i \in Nat /\ i >= 1 /\ i <= Len(s)
      /\ \A a, b \in DOMAIN s : s[a] = s[b] => a = b
  BY DEF ListOf, IsInjective
<1>2. \A k \in 1..Len(s) : s[k] \in S
  BY <1>1
<1>3. l \in Seq(S) /\ DOMAIN l = 1..i - 1 /\ \A k \in 1..i - 1 : l[k] = s[k]
  <2>1. \A k \in 1..i - 1 : s[k] \in S
    BY <1>1, <1>2
  <2>2. /\ l \in Seq(S) /\ Len(l) = IF 1 <= i - 1 THEN (i - 1) - 1 + 1 ELSE 0
        /\ \A k \in 1..(i - 1) - 1 + 1 : l[k] = s[1 + k - 1]
    BY <1>1, <2>1, SubSeqProperties
  <2> HIDE DEF l
  <2>3. Len(l) = i - 1 /\ \A k \in 1..i - 1 : l[k] = s[k]
    BY <1>1, <2>2
  <2> QED BY <2>2, <2>3
<1>4. r \in Seq(S) /\ DOMAIN r = 1..Len(s) - i /\ \A k \in 1..Len(s) - i : r[k] = s[i + k]
  <2>1. \A k \in i + 1..Len(s) : s[k] \in S
    BY <1>1, <1>2
  <2>2. /\ r \in Seq(S)
        /\ Len(r) = IF i + 1 <= Len(s) THEN Len(s) - (i + 1) + 1 ELSE 0
        /\ \A k \in 1..Len(s) - (i + 1) + 1 : r[k] = s[(i + 1) + k - 1]
    BY <1>1, <2>1, SubSeqProperties
  <2> HIDE DEF r
  <2>3. Len(r) = Len(s) - i /\ \A k \in 1..Len(s) - i : r[k] = s[i + k]
    <3>1. Len(s) - (i + 1) + 1 = Len(s) - i /\ (i + 1 <= Len(s) \/ Len(s) - i = 0)
      BY <1>1
    <3>2. \A k \in 1..Len(s) - i : (i + 1) + k - 1 = i + k
      BY <1>1
    <3> QED BY <2>2, <3>1, <3>2
  <2> QED BY <2>2, <2>3
<1> HIDE DEF l, r
<1>5. \A a \in DOMAIN l : a \in DOMAIN s /\ a # i /\ l[a] = s[a] /\ a < i
  BY <1>1, <1>3
<1>6. \A b \in DOMAIN r : i + b \in DOMAIN s /\ i + b # i /\ r[b] = s[i + b] /\ i + b > i /\ b \in Int
  BY <1>1, <1>4
<1>7. ListOf(l, S)
  BY <1>1, <1>3, <1>5 DEF ListOf, IsInjective
<1>8. ListOf(r, S)
  <2>1. \A a, b \in DOMAIN r : r[a] = r[b] => i + a = i + b
    BY <1>1, <1>6
  <2>2. \A a, b \in DOMAIN r : r[a] = r[b] => a = b
    BY <1>1, <1>6, <2>1
  <2> QED BY <1>4, <2>2 DEF ListOf, IsInjective
<1>9. ToSet(l) \cap ToSet(r) = {}
  <2> SUFFICES ASSUME NEW a \in DOMAIN l, NEW b \in DOMAIN r, l[a] = r[b] PROVE FALSE
      BY DEF ToSet
  <2>1. a = i + b
    BY <1>1, <1>5, <1>6
  <2>2. a < i /\ i + b > i
    BY <1>5, <1>6
  <2> QED BY <1>1, <1>6, <2>1, <2>2
<1>10. ToSet(l) \cup ToSet(r) = ToSet(s) \ {s[i]}
  <2>1. \A k \in DOMAIN s : k # i => \/ k \in DOMAIN l /\ l[k] = s[k]
                                     \/ k - i \in DOMAIN r /\ r[k - i] = s[k]
    <3> SUFFICES ASSUME NEW k \in DOMAIN s, k # i
                 PROVE  \/ k \in DOMAIN l /\ l[k] = s[k]
                        \/ k - i \in DOMAIN r /\ r[k - i] = s[k]
        OBVIOUS
    <3>1. k \in 1..i - 1 \/ (k - i \in 1..Len(s) - i /\ i + (k - i) = k)
      BY <1>1
    <3>2. CASE k \in 1..i - 1
      BY <1>3, <3>2
    <3>3. CASE k - i \in 1..Len(s) - i /\ i + (k - i) = k
      <4>1. r[k - i] = s[i + (k - i)]
        BY <1>4, <3>3
      <4>2. r[k - i] = s[k]
        BY <3>3, <4>1
      <4> QED BY <1>4, <3>3, <4>2
    <3> QED BY <3>1, <3>2, <3>3
  <2>2. ToSet(l) \cup ToSet(r) \subseteq ToSet(s) \ {s[i]}
    BY <1>1, <1>5, <1>6 DEF ToSet
  <2>3. ToSet(s) \ {s[i]} \subseteq ToSet(l) \cup ToSet(r)
    BY <2>1 DEF ToSet
  <2> QED BY <2>2, <2>3
<1>11. ListOf(l \o r, S) /\ ToSet(l \o r) = ToSet(l) \cup ToSet(r)
  <2>1. \A a, b : ListOf(a, S) /\ ListOf(b, S) /\ ToSet(a) \cap ToSet(b) = {}
                    => ListOf(a \o b, S) /\ ToSet(a \o b) = ToSet(a) \cup ToSet(b)
    BY ListsJoined
  <2> QED BY <1>7, <1>8, <1>9, <2>1
<1>12. RemoveAt(s, i) = l \o r
  BY DEF RemoveAt, l, r
<1> QED BY <1>10, <1>11, <1>12

\* A list of more kinds of entries.
LEMMA ListWidened ==
    ASSUME NEW S, NEW T, S \subseteq T, NEW s, ListOf(s, S)
    PROVE  ListOf(s, T)
<1>1. s \in Seq(S)
  BY DEF ListOf
<1>2. s \in Seq(T)
  BY <1>1, SeqMonotonic
<1> QED BY <1>2 DEF ListOf

\* A finite set as a list.
LEMMA SetAsList ==
    ASSUME NEW S, IsFiniteSet(S)
    PROVE  ListOf(SetToSeq(S), S) /\ ToSet(SetToSeq(S)) = S
<1> DEFINE n == Cardinality(S)
           f == SetToSeq(S)
<1>1. n \in Nat /\ ExistsBijection(1..n, S)
  BY FS_CardinalityType
<1>2. \E g \in [1..n -> S] : IsInjective(g)
  BY <1>1 DEF ExistsBijection, Bijection, Injection
<1>3. f \in [1..n -> S] /\ IsInjective(f)
  BY <1>2, Zenon DEF SetToSeq
<1> HIDE DEF f
<1>4. f \in Seq(S)
  <2>1. f \in UNION {[1..k -> S] : k \in Nat}
    BY <1>1, <1>3
  <2> QED BY <2>1, SeqDef
<1>5. f \in Surjection(1..n, S)
  <2>1. f \in Injection(1..n, S)
    BY <1>3 DEF Injection
  <2>2. Cardinality(1..n) = n /\ IsFiniteSet(1..n)
    BY <1>1, FS_Interval
  <2>3. Cardinality(1..n) = Cardinality(S)
    BY <2>2
  <2> HIDE DEF n
  <2> QED BY <2>1, <2>3, FS_Injection
<1>6. ToSet(f) = S
  BY <1>3, <1>5 DEF Surjection, ToSet
<1> QED BY <1>3, <1>4, <1>6 DEF ListOf, f

\* The empty list, and a list of one.
LEMMA ShortLists ==
    /\ ToSet(<<>>) = {} /\ \A S : ListOf(<<>>, S)
    /\ \A S, x : x \in S => ListOf(<<x>>, S) /\ ToSet(<<x>>) = {x}
<1>1. DOMAIN <<>> = {} /\ \A S : <<>> \in Seq(S)
  OBVIOUS
<1>2. \A S, x : x \in S => <<x>> \in Seq(S) /\ DOMAIN <<x>> = {1} /\ <<x>>[1] = x
  OBVIOUS
<1> QED BY <1>1, <1>2 DEF ListOf, ToSet, IsInjective

-----------------------------------------------------------------------------
(* Reading and writing.                                                    *)

\* The fields of a fresh state.
LEMMA FreshFields ==
    /\ Shape(FreshState)
    /\ FreshState.inventory = <<>> /\ FreshState.hand = {} /\ FreshState.assets = <<>>
    /\ FreshState.visited = <<>> /\ FreshState.facts = <<>>
    /\ FreshState.npcs = <<>> /\ FreshState.factions = <<>>
    /\ FreshState.story = <<>> /\ FreshState.enemies = <<>> /\ FreshState.actions = <<>>
BY DEF Shape, FreshState

\* What a character's row gives to a fresh state.
LEMMA CharacterFields ==
    ASSUME NEW row
    PROVE  LET h == ReadCharacter(row, FreshState)
           IN /\ Shape(h)
              /\ h.inventory = row.inventory /\ h.world = row.world
              /\ h.hand = IF "hand" \in DOMAIN row.equipment THEN {row.equipment["hand"]} ELSE {}
              /\ h.assets = <<>> \o row.assets /\ h.visited = <<>> \o row.visited
              /\ h.facts = <<>> \o row.facts
              /\ h.npcs = ReadMap(row.npcs, <<>>) /\ h.factions = ReadMap(row.factions, <<>>)
              /\ h.story = <<>> /\ h.enemies = <<>> /\ h.actions = <<>>
<1> DEFINE g == FreshState
           h == ReadCharacter(row, g)
           hand == IF "hand" \in DOMAIN row.equipment THEN {row.equipment["hand"]} ELSE g.hand
           assets == g.assets \o row.assets
           visited == g.visited \o row.visited
           facts == g.facts \o row.facts
           npcs == ReadMap(row.npcs, g.npcs)
           factions == ReadMap(row.factions, g.factions)
<1>1. h = [g EXCEPT !.inventory = row.inventory, !.hand = hand, !.assets = assets,
                    !.world = row.world, !.visited = visited, !.facts = facts, !.npcs = npcs,
                    !.factions = factions]
  BY DEF ReadCharacter, Appended
<1>2. /\ hand = IF "hand" \in DOMAIN row.equipment THEN {row.equipment["hand"]} ELSE {}
      /\ assets = <<>> \o row.assets /\ visited = <<>> \o row.visited
      /\ facts = <<>> \o row.facts
      /\ npcs = ReadMap(row.npcs, <<>>) /\ factions = ReadMap(row.factions, <<>>)
  BY FreshFields
<1> HIDE DEF h, hand, assets, visited, facts, npcs, factions
<1>3. g = [inventory |-> <<>>, hand |-> {}, assets |-> <<>>, world |-> "unset",
           visited |-> <<>>, facts |-> <<>>, npcs |-> <<>>, factions |-> <<>>,
           story |-> <<>>, enemies |-> <<>>, actions |-> <<>>]
  BY DEF FreshState
<1> HIDE DEF g
<1>4. h = [inventory |-> row.inventory, hand |-> hand, assets |-> assets, world |-> row.world,
           visited |-> visited, facts |-> facts, npcs |-> npcs, factions |-> factions,
           story |-> <<>>, enemies |-> <<>>, actions |-> <<>>]
  BY <1>1, <1>3
<1>5. /\ Shape(h) /\ h.inventory = row.inventory /\ h.hand = hand /\ h.assets = assets
      /\ h.world = row.world /\ h.visited = visited /\ h.facts = facts /\ h.npcs = npcs
      /\ h.factions = factions /\ h.story = <<>> /\ h.enemies = <<>> /\ h.actions = <<>>
  BY <1>4 DEF Shape
<1> QED BY <1>2, <1>5, Zenon DEF h, g

\* What a campaign's row gives to a state, and that it leaves the character alone.
LEMMA CampaignFields ==
    ASSUME NEW row, NEW g, Shape(g)
    PROVE  ReadCampaign(row, g) =
              [inventory |-> g.inventory, hand |-> g.hand, assets |-> g.assets,
               world |-> g.world, visited |-> g.visited, facts |-> g.facts,
               npcs |-> g.npcs, factions |-> g.factions, story |-> row.story,
               enemies |-> g.enemies \o row.enemies, actions |-> g.actions \o row.actions]
<1> DEFINE enemies == g.enemies \o row.enemies
           actions == g.actions \o row.actions
<1>1. ReadCampaign(row, g) =
        [g EXCEPT !.story = row.story, !.enemies = enemies, !.actions = actions]
  BY DEF ReadCampaign, Appended
<1> HIDE DEF enemies, actions
<1>2. ReadCampaign(row, g) =
        [inventory |-> g.inventory, hand |-> g.hand, assets |-> g.assets,
         world |-> g.world, visited |-> g.visited, facts |-> g.facts,
         npcs |-> g.npcs, factions |-> g.factions,
         story |-> row.story, enemies |-> enemies, actions |-> actions]
  BY <1>1 DEF Shape
<1> QED BY <1>2, Zenon DEF enemies, actions

\* States with the same fields are the same.
LEMMA SameFields ==
    ASSUME NEW g, NEW h, Shape(g), Shape(h),
           g.inventory = h.inventory, g.hand = h.hand, g.assets = h.assets, g.world = h.world,
           g.visited = h.visited, g.facts = h.facts, g.npcs = h.npcs, g.factions = h.factions,
           g.story = h.story, g.enemies = h.enemies, g.actions = h.actions
    PROVE  g = h
BY DEF Shape

\* A map that was written as an array is read back as it was.
LEMMA MapReadsBack ==
    ASSUME NEW map, NEW records, MapOf(map, records)
    PROVE  ReadMap(SetToSeq({map[k] : k \in DOMAIN map}), <<>>) = map
<1> DEFINE values == {map[k] : k \in DOMAIN map}
           array == SetToSeq(values)
           placesOf(id) == {i \in DOMAIN array : array[i].id = id}
           back == ReadMap(array, <<>>)
<1>1. map = [k \in DOMAIN map |-> map[k]] /\ \A id \in DOMAIN map : map[id].id = id
  BY DEF MapOf
<1>2. IsFiniteSet(values)
  <2>1. map \in Surjection(DOMAIN map, values) /\ IsFiniteSet(DOMAIN map)
    BY DEF MapOf, Surjection
  <2> HIDE DEF values
  <2> QED BY <2>1, FS_Surjection
<1>3. ListOf(array, values) /\ ToSet(array) = values
  <2> HIDE DEF values
  <2> QED BY <1>2, SetAsList
<1>4. back = [id \in DOMAIN <<>> \cup {r.id : r \in ToSet(array)} |->
                IF placesOf(id) = {} THEN <<>>[id] ELSE array[Max(placesOf(id))]]
  BY DEF ReadMap
<1> HIDE DEF array, back
<1>5. {r.id : r \in ToSet(array)} = DOMAIN map
  BY <1>1, <1>3
<1>6. back = [id \in DOMAIN map |->
                IF placesOf(id) = {} THEN <<>>[id] ELSE array[Max(placesOf(id))]]
  <2>1. DOMAIN <<>> = {}
    OBVIOUS
  <2> QED BY <1>4, <1>5, <2>1
<1>7. ASSUME NEW id \in DOMAIN map PROVE back[id] = map[id]
  <2>1. PICK i \in DOMAIN array : array[i] = map[id]
    BY <1>3 DEF ToSet
  <2>2. \A j \in DOMAIN array : array[j].id = id => array[j] = map[id]
    BY <1>1, <1>3 DEF ToSet
  <2>3. \A j \in DOMAIN array : array[j].id = id => j = i
    BY <1>3, <2>1, <2>2 DEF ListOf, IsInjective
  <2>4. placesOf(id) = {i}
    BY <1>1, <2>1, <2>3
  <2>5. i \in Nat
    BY <1>3, <2>1 DEF ListOf
  <2>6. Max({i}) = i
    <3>1. \E x \in {i} : \A y \in {i} : x >= y
      BY <2>5
    <3> QED BY <3>1 DEF Max
  <2> HIDE DEF placesOf
  <2> QED BY <1>6, <2>1, <2>4, <2>6
<1> QED BY <1>1, <1>6, <1>7 DEF array, back

\* A good game that is written to its two rows is read back as it was.
LEMMA GameReadsBack ==
    ASSUME NEW g, NEW c, NEW k, NEW m, Good(g, c, k, m)
    PROVE  LET half == ReadCharacter(WriteCharacter(g), FreshState)
               whole == ReadCampaign(WriteCampaign(g), half)
               other == ReadCampaign(WriteCampaign(g), FreshState)
           IN /\ whole = g /\ CharacterGood(half, c, m) /\ CampaignGood(other, k, m)
<1> DEFINE row == WriteCharacter(g)
           json == WriteCampaign(g)
           half == ReadCharacter(row, FreshState)
           whole == ReadCampaign(json, half)
           other == ReadCampaign(json, FreshState)
<1>1. /\ row.inventory = g.inventory /\ row.assets = g.assets /\ row.world = g.world
      /\ row.visited = g.visited /\ row.facts = g.facts
      /\ row.equipment = [slot \in {"hand" : i \in g.hand} |-> CHOOSE i \in g.hand : TRUE]
      /\ row.npcs = SetToSeq({g.npcs[id] : id \in DOMAIN g.npcs})
      /\ row.factions = SetToSeq({g.factions[id] : id \in DOMAIN g.factions})
  BY DEF WriteCharacter
<1>2. json.story = g.story /\ json.enemies = g.enemies /\ json.actions = g.actions
  BY DEF WriteCampaign
<1>3. /\ <<>> \o g.assets = g.assets /\ <<>> \o g.visited = g.visited /\ <<>> \o g.facts = g.facts
      /\ <<>> \o g.enemies = g.enemies /\ <<>> \o g.actions = g.actions
  BY ConcatEmptySeq DEF Good, CharacterGood, CampaignGood, ListOf
<1>4. IF "hand" \in DOMAIN row.equipment THEN {row.equipment["hand"]} = g.hand ELSE {} = g.hand
  <2>1. \A x, y \in g.hand : x = y
    BY DEF Good, CharacterGood
  <2>2. CASE g.hand = {}
    BY <1>1, <2>2
  <2>3. CASE g.hand # {}
    <3>1. PICK x : g.hand = {x}
      BY <2>1, <2>3
    <3>2. "hand" \in DOMAIN row.equipment /\ row.equipment["hand"] = x
      BY <1>1, <3>1
    <3> QED BY <3>1, <3>2
  <2> QED BY <2>2, <2>3
<1> HIDE DEF row, json
<1>5. /\ ReadMap(row.npcs, <<>>) = g.npcs /\ ReadMap(row.factions, <<>>) = g.factions
  BY <1>1, MapReadsBack DEF Good, CharacterGood
<1>6. /\ Shape(half) /\ half.inventory = g.inventory /\ half.hand = g.hand /\ half.assets = g.assets
      /\ half.world = g.world /\ half.visited = g.visited /\ half.facts = g.facts
      /\ half.npcs = g.npcs /\ half.factions = g.factions
      /\ half.story = <<>> /\ half.enemies = <<>> /\ half.actions = <<>>
  <2>1. /\ Shape(half)
        /\ half.inventory = row.inventory /\ half.world = row.world
        /\ half.hand = IF "hand" \in DOMAIN row.equipment THEN {row.equipment["hand"]} ELSE {}
        /\ half.assets = <<>> \o row.assets /\ half.visited = <<>> \o row.visited
        /\ half.facts = <<>> \o row.facts
        /\ half.npcs = ReadMap(row.npcs, <<>>) /\ half.factions = ReadMap(row.factions, <<>>)
        /\ half.story = <<>> /\ half.enemies = <<>> /\ half.actions = <<>>
    BY CharacterFields, Zenon
  <2> HIDE DEF half
  <2> QED BY <1>1, <1>3, <1>4, <1>5, <2>1
<1> HIDE DEF half
<1>7. /\ Shape(whole) /\ whole.inventory = g.inventory /\ whole.hand = g.hand
      /\ whole.assets = g.assets /\ whole.world = g.world /\ whole.visited = g.visited
      /\ whole.facts = g.facts /\ whole.npcs = g.npcs /\ whole.factions = g.factions
      /\ whole.story = g.story /\ whole.enemies = g.enemies /\ whole.actions = g.actions
  <2>1. Shape(half)
    BY <1>6
  <2>2. whole = [inventory |-> half.inventory, hand |-> half.hand, assets |-> half.assets,
                 world |-> half.world, visited |-> half.visited, facts |-> half.facts,
                 npcs |-> half.npcs, factions |-> half.factions, story |-> json.story,
                 enemies |-> half.enemies \o json.enemies,
                 actions |-> half.actions \o json.actions]
    BY <2>1, CampaignFields
  <2> HIDE DEF whole
  <2> QED BY <1>2, <1>3, <1>6, <2>2 DEF Shape
<1>8. other.story = g.story /\ other.enemies = g.enemies /\ other.actions = g.actions
  <2> DEFINE f == FreshState
  <2>1. Shape(f) /\ f.enemies = <<>> /\ f.actions = <<>>
    BY FreshFields
  <2>2. other = [inventory |-> f.inventory, hand |-> f.hand, assets |-> f.assets,
                 world |-> f.world, visited |-> f.visited, facts |-> f.facts,
                 npcs |-> f.npcs, factions |-> f.factions, story |-> json.story,
                 enemies |-> f.enemies \o json.enemies, actions |-> f.actions \o json.actions]
    BY <2>1, CampaignFields
  <2> HIDE DEF other, f
  <2> QED BY <1>2, <1>3, <2>1, <2>2
<1> HIDE DEF whole, other
<1>9. whole = g
  BY <1>7, SameFields DEF Good
<1>10. CharacterGood(half, c, m)
  BY <1>6 DEF Good, CharacterGood
<1>11. CampaignGood(other, k, m)
  BY <1>8 DEF Good, CampaignGood
<1> QED BY <1>9, <1>10, <1>11 DEF row, json, half, whole, other

-----------------------------------------------------------------------------
(* Good halves.                                                            *)

\* What is good before the m-th change is good later.
LEMMA GoodLater ==
    ASSUME NEW m \in Nat, NEW l \in Nat, m <= l
    PROVE  /\ \A g, c : CharacterGood(g, c, m) => CharacterGood(g, c, l)
           /\ \A g, k : CampaignGood(g, k, m) => CampaignGood(g, k, l)
<1>1. \A of : Numbered(of, m) \subseteq Numbered(of, l)
  <2>1. 0..m - 1 \subseteq 0..l - 1
    OBVIOUS
  <2> QED BY <2>1 DEF Numbered
<1>2. \A of, list : ListOf(list, Numbered(of, m)) => ListOf(list, Numbered(of, l))
  BY <1>1, ListWidened
<1>3. \A of, set : set \subseteq Numbered(of, m) => set \subseteq Numbered(of, l)
  BY <1>1
<1>4. \A g, c : CharacterGood(g, c, m) => CharacterGood(g, c, l)
  BY <1>2, <1>3 DEF CharacterGood
<1>5. \A g, k : CampaignGood(g, k, m) => CampaignGood(g, k, l)
  BY <1>2 DEF CampaignGood
<1> QED BY <1>4, <1>5

\* An empty map.
LEMMA EmptyMap == \A records : MapOf(<<>>, records)
<1>1. DOMAIN <<>> = {} /\ IsFiniteSet({})
  BY FS_EmptySet
<1>2. \A records : <<>> \in [{} -> records]
  OBVIOUS
<1> QED BY <1>1, <1>2 DEF MapOf

\* A fresh state is good for any game.
LEMMA FreshGood == \A c, k, m : Good(FreshState, c, k, m)
<1> TAKE c, k, m
<1> PICK f : f = FreshState
    OBVIOUS
<1>1. /\ Shape(f) /\ f.inventory = <<>> /\ f.hand = {} /\ f.assets = <<>>
      /\ f.visited = <<>> /\ f.facts = <<>> /\ f.npcs = <<>> /\ f.factions = <<>>
      /\ f.story = <<>> /\ f.enemies = <<>> /\ f.actions = <<>>
  BY FreshFields
<1>2. CharacterGood(f, c, m)
  BY <1>1, ShortLists, EmptyMap DEF CharacterGood
<1>3. CampaignGood(f, k, m)
  BY <1>1, ShortLists DEF CampaignGood
<1> QED BY <1>1, <1>2, <1>3 DEF Good

\* What is read from the rows is good, whichever of the two there is.
LEMMA ReadGood ==
    ASSUME RowsGood, NEW c, NEW k
    PROVE  Good(ReadGame(c, k), c, k, made)
<1> DEFINE read == ReadCharacter(characters[c], FreshState)
           half == IF c \in DOMAIN characters THEN read ELSE FreshState
           json == campaigns[k].json
<1>1. Shape(half) /\ CharacterGood(half, c, made) /\ half.enemies = <<>> /\ half.actions = <<>>
      /\ CampaignGood(half, k, made)
  <2>1. CASE c \in DOMAIN characters
    <3>1. /\ Shape(read) /\ read.story = <<>> /\ read.enemies = <<>> /\ read.actions = <<>>
      BY CharacterFields, Zenon
    <3>2. CharacterGood(read, c, made)
      BY <2>1 DEF RowsGood
    <3> HIDE DEF read
    <3>3. CampaignGood(read, k, made)
      BY <3>1, ShortLists DEF CampaignGood
    <3> QED BY <2>1, <3>1, <3>2, <3>3
  <2>2. CASE c \notin DOMAIN characters
    BY <2>2, FreshGood, FreshFields DEF Good
  <2> QED BY <2>1, <2>2
<1> HIDE DEF half
<1>2. CASE k \in DOMAIN campaigns
  <2>1. ReadGame(c, k) = ReadCampaign(json, half)
    BY <1>2 DEF ReadGame, half
  <2> DEFINE f == FreshState
             other == ReadCampaign(json, f)
             whole == ReadCampaign(json, half)
  <2>2. CampaignGood(other, k, made)
    BY <1>2 DEF RowsGood
  <2>3. Shape(f) /\ f.enemies = <<>> /\ f.actions = <<>>
    BY FreshFields
  <2> HIDE DEF json, f
  <2>4. other = [inventory |-> f.inventory, hand |-> f.hand, assets |-> f.assets,
                 world |-> f.world, visited |-> f.visited, facts |-> f.facts,
                 npcs |-> f.npcs, factions |-> f.factions, story |-> json.story,
                 enemies |-> f.enemies \o json.enemies, actions |-> f.actions \o json.actions]
    BY <2>3, CampaignFields
  <2>5. whole = [inventory |-> half.inventory, hand |-> half.hand, assets |-> half.assets,
                 world |-> half.world, visited |-> half.visited, facts |-> half.facts,
                 npcs |-> half.npcs, factions |-> half.factions, story |-> json.story,
                 enemies |-> half.enemies \o json.enemies,
                 actions |-> half.actions \o json.actions]
    BY <1>1, CampaignFields
  <2> HIDE DEF other, whole
  <2>6. /\ whole.story = other.story /\ whole.enemies = other.enemies
        /\ whole.actions = other.actions
    BY <1>1, <2>3, <2>4, <2>5
  <2>7. CampaignGood(whole, k, made)
    BY <2>2, <2>6 DEF CampaignGood
  <2>8. Shape(whole) /\ whole.inventory = half.inventory /\ whole.hand = half.hand
        /\ whole.assets = half.assets /\ whole.visited = half.visited /\ whole.facts = half.facts
        /\ whole.npcs = half.npcs /\ whole.factions = half.factions
    BY <2>5 DEF Shape
  <2>9. CharacterGood(whole, c, made)
    BY <1>1, <2>8 DEF CharacterGood
  <2> QED BY <2>1, <2>7, <2>8, <2>9 DEF Good, whole
<1>3. CASE k \notin DOMAIN campaigns
  <2>1. ReadGame(c, k) = half
    BY <1>3 DEF ReadGame, half
  <2> QED BY <1>1, <2>1 DEF Good
<1> QED BY <1>2, <1>3

-----------------------------------------------------------------------------
(* Steps of the game.                                                      *)

\* What is saved is good, and the next start reads it back.
LEMMA SavedWell ==
    ASSUME LedgerInv, NEW g, NEW c \in Characters, NEW k \in Campaigns, Save(g, c, k),
           made' \in 0..MaxMade, made' >= made, Good(g, c, k, made'),
           game' = g, characterId' = c, campaignId' = k, turnInProgress' \in BOOLEAN
    PROVE  LedgerInv'
<1> DEFINE row == WriteCharacter(g)
           json == WriteCampaign(g)
           half == ReadCharacter(row, FreshState)
<1>1. /\ ReadCampaign(json, half) = g /\ CharacterGood(half, c, made')
      /\ CampaignGood(ReadCampaign(json, FreshState), k, made')
  BY GameReadsBack
<1> HIDE DEF row, json
<1>2. /\ DOMAIN characters' = DOMAIN characters \cup {c} /\ characters'[c] = row
      /\ \A x \in DOMAIN characters : x # c => characters'[x] = characters[x]
  BY DEF Save, Put, row
<1>3. /\ DOMAIN campaigns' = DOMAIN campaigns \cup {k}
      /\ campaigns'[k] = [parent |-> c, json |-> json]
      /\ \A x \in DOMAIN campaigns : x # k => campaigns'[x] = campaigns[x]
  BY DEF Save, Put, json
<1>4. campaigns'[k].parent = c /\ campaigns'[k].json = json
  BY <1>3
<1>5. active' = <<c, k>> /\ unsaved' = FALSE
  BY DEF Save
<1>6. made \in Nat /\ made' \in Nat /\ MaxMade \in Nat /\ RowsGood
  BY LedgerAssumption DEF LedgerInv
<1>7. /\ \A h, x : CharacterGood(h, x, made) => CharacterGood(h, x, made')
      /\ \A h, x : CampaignGood(h, x, made) => CampaignGood(h, x, made')
  BY <1>6, GoodLater
<1>8. RowsGood'
  <2>1. DOMAIN characters' \subseteq Characters /\ DOMAIN campaigns' \subseteq Campaigns
    BY <1>2, <1>3, <1>6 DEF RowsGood
  <2>2. \A x \in DOMAIN characters' : CharacterGood(ReadCharacter(characters'[x], FreshState), x, made')
    BY <1>1, <1>2, <1>6, <1>7 DEF RowsGood
  <2>3. \A x \in DOMAIN campaigns' :
            /\ campaigns'[x].parent \in Characters
            /\ CampaignGood(ReadCampaign(campaigns'[x].json, FreshState), x, made')
    BY <1>1, <1>3, <1>4, <1>6, <1>7 DEF RowsGood
  <2> QED BY <2>1, <2>2, <2>3 DEF RowsGood
<1>9. SavedReadsBack'
  <2>1. ReadGame(c, k)' = ReadCampaign(json, half)
    BY <1>2, <1>3, <1>4 DEF ReadGame
  <2>2. active'[1] = c /\ active'[2] = k
    BY <1>5
  <2> HIDE DEF half
  <2> QED BY <1>1, <2>1, <2>2 DEF SavedReadsBack, ReadGame
<1> QED BY <1>5, <1>8, <1>9 DEF LedgerInv

\* A change that is not saved yet is no loss of what was.
LEMMA ChangedUnsaved ==
    ASSUME LedgerInv, UNCHANGED storeVars, made' \in 0..MaxMade, made' >= made,
           Good(game', characterId', campaignId', made'),
           characterId' \in Characters, campaignId' \in Campaigns, turnInProgress' \in BOOLEAN,
           unsaved' \in BOOLEAN, SavedReadsBack'
    PROVE  LedgerInv'
<1>1. made \in Nat /\ made' \in Nat /\ MaxMade \in Nat /\ RowsGood
  BY LedgerAssumption DEF LedgerInv
<1>2. /\ \A h, x : CharacterGood(h, x, made) => CharacterGood(h, x, made')
      /\ \A h, x : CampaignGood(h, x, made) => CampaignGood(h, x, made')
  BY <1>1, GoodLater
<1>3. characters' = characters /\ campaigns' = campaigns /\ active' = active
  BY DEF storeVars
<1>4. RowsGood'
  BY <1>1, <1>2, <1>3 DEF RowsGood
<1> QED BY <1>3, <1>4 DEF LedgerInv

\* A tool's change, saved at once or left to the end of the job.
LEMMA ChangedWell ==
    ASSUME LedgerInv, NEW g, Change(g), Good(g, characterId, campaignId, made + 1)
    PROVE  LedgerInv'
<1>1. /\ made \in Nat /\ MaxMade \in Nat /\ made < MaxMade /\ made' = made + 1 /\ game' = g
      /\ characterId' = characterId /\ campaignId' = campaignId
      /\ turnInProgress' = turnInProgress
      /\ characterId \in Characters /\ campaignId \in Campaigns /\ turnInProgress \in BOOLEAN
  BY LedgerAssumption DEF LedgerInv, Change, Count, idVars
<1>2. made' \in 0..MaxMade /\ made' >= made
  BY <1>1
<1>3. CASE turnInProgress
  <2>1. unsaved' = TRUE /\ UNCHANGED storeVars
    BY <1>3 DEF Change, NotSaved
  <2>2. SavedReadsBack'
    BY <2>1 DEF SavedReadsBack
  <2> QED BY <1>1, <1>2, <2>1, <2>2, ChangedUnsaved
<1>4. CASE ~turnInProgress
  <2>1. Save(g, characterId, campaignId)
    BY <1>4 DEF Change
  <2> QED BY <1>1, <1>2, <2>1, SavedWell
<1> QED BY <1>1, <1>3, <1>4

\* Nothing changed but whether a job runs.
LEMMA SameStores ==
    ASSUME LedgerInv, UNCHANGED <<game, characterId, campaignId, storeVars, unsaved, made>>,
           turnInProgress' \in BOOLEAN
    PROVE  LedgerInv'
<1>1. /\ characters' = characters /\ campaigns' = campaigns /\ active' = active
      /\ game' = game /\ characterId' = characterId /\ campaignId' = campaignId
      /\ unsaved' = unsaved /\ made' = made
  BY DEF storeVars
<1>2. SavedReadsBack' /\ RowsGood'
  <2>1. RowsGood /\ SavedReadsBack
    BY DEF LedgerInv
  <2> QED BY <1>1, <2>1 DEF SavedReadsBack, ReadGame, RowsGood
<1> QED BY <1>1, <1>2 DEF LedgerInv

-----------------------------------------------------------------------------
(* Good changes.                                                           *)

\* One field of a good game replaced by a good one.
LEMMA FieldChanged ==
    ASSUME NEW g, NEW c, NEW k, NEW m, Good(g, c, k, m)
    PROVE
        /\ \A x : ListOf(x, Numbered(c, m)) /\ g.hand \cap ToSet(x) = {} =>
              Good([g EXCEPT !.inventory = x], c, k, m)
        /\ \A x : ListOf(x, Numbered(c, m)) =>
              Good([g EXCEPT !.assets = x], c, k, m)
        /\ \A x : Good([g EXCEPT !.world = x], c, k, m)
        /\ \A x : ListOf(x, Named(c)) =>
              Good([g EXCEPT !.visited = x], c, k, m)
        /\ \A x : ListOf(x, Named(c)) =>
              Good([g EXCEPT !.facts = x], c, k, m)
        /\ \A x : MapOf(x, NpcRecords(c)) =>
              Good([g EXCEPT !.npcs = x], c, k, m)
        /\ \A x : MapOf(x, FactionRecords(c)) =>
              Good([g EXCEPT !.factions = x], c, k, m)
        /\ \A x : ListOf(x, Numbered(k, m)) =>
              Good([g EXCEPT !.story = x], c, k, m)
        /\ \A x : ListOf(x, Numbered(k, m)) =>
              Good([g EXCEPT !.enemies = x], c, k, m)
        /\ \A x : ListOf(x, Numbered(k, m)) =>
              Good([g EXCEPT !.actions = x], c, k, m)
<1>1. ASSUME NEW x, ListOf(x, Numbered(c, m)) /\ g.hand \cap ToSet(x) = {}
     PROVE  Good([g EXCEPT !.inventory = x], c, k, m)
  <2>1. [g EXCEPT !.inventory = x] =
             [inventory |-> x, hand |-> g.hand, assets |-> g.assets, world |-> g.world, visited |-> g.visited, facts |-> g.facts,
              npcs |-> g.npcs, factions |-> g.factions, story |-> g.story, enemies |-> g.enemies, actions |-> g.actions]
    BY DEF Good, Shape
  <2> QED BY <1>1, <2>1 DEF Good, Shape, CharacterGood, CampaignGood
<1>2. ASSUME NEW x, ListOf(x, Numbered(c, m))
     PROVE  Good([g EXCEPT !.assets = x], c, k, m)
  <2>1. [g EXCEPT !.assets = x] =
             [inventory |-> g.inventory, hand |-> g.hand, assets |-> x, world |-> g.world, visited |-> g.visited, facts |-> g.facts,
              npcs |-> g.npcs, factions |-> g.factions, story |-> g.story, enemies |-> g.enemies, actions |-> g.actions]
    BY DEF Good, Shape
  <2> QED BY <1>2, <2>1 DEF Good, Shape, CharacterGood, CampaignGood
<1>3. ASSUME NEW x
     PROVE  Good([g EXCEPT !.world = x], c, k, m)
  <2>1. [g EXCEPT !.world = x] =
             [inventory |-> g.inventory, hand |-> g.hand, assets |-> g.assets, world |-> x, visited |-> g.visited, facts |-> g.facts,
              npcs |-> g.npcs, factions |-> g.factions, story |-> g.story, enemies |-> g.enemies, actions |-> g.actions]
    BY DEF Good, Shape
  <2> QED BY <2>1 DEF Good, Shape, CharacterGood, CampaignGood
<1>4. ASSUME NEW x, ListOf(x, Named(c))
     PROVE  Good([g EXCEPT !.visited = x], c, k, m)
  <2>1. [g EXCEPT !.visited = x] =
             [inventory |-> g.inventory, hand |-> g.hand, assets |-> g.assets, world |-> g.world, visited |-> x, facts |-> g.facts,
              npcs |-> g.npcs, factions |-> g.factions, story |-> g.story, enemies |-> g.enemies, actions |-> g.actions]
    BY DEF Good, Shape
  <2> QED BY <1>4, <2>1 DEF Good, Shape, CharacterGood, CampaignGood
<1>5. ASSUME NEW x, ListOf(x, Named(c))
     PROVE  Good([g EXCEPT !.facts = x], c, k, m)
  <2>1. [g EXCEPT !.facts = x] =
             [inventory |-> g.inventory, hand |-> g.hand, assets |-> g.assets, world |-> g.world, visited |-> g.visited, facts |-> x,
              npcs |-> g.npcs, factions |-> g.factions, story |-> g.story, enemies |-> g.enemies, actions |-> g.actions]
    BY DEF Good, Shape
  <2> QED BY <1>5, <2>1 DEF Good, Shape, CharacterGood, CampaignGood
<1>6. ASSUME NEW x, MapOf(x, NpcRecords(c))
     PROVE  Good([g EXCEPT !.npcs = x], c, k, m)
  <2>1. [g EXCEPT !.npcs = x] =
             [inventory |-> g.inventory, hand |-> g.hand, assets |-> g.assets, world |-> g.world, visited |-> g.visited, facts |-> g.facts,
              npcs |-> x, factions |-> g.factions, story |-> g.story, enemies |-> g.enemies, actions |-> g.actions]
    BY DEF Good, Shape
  <2> QED BY <1>6, <2>1 DEF Good, Shape, CharacterGood, CampaignGood
<1>7. ASSUME NEW x, MapOf(x, FactionRecords(c))
     PROVE  Good([g EXCEPT !.factions = x], c, k, m)
  <2>1. [g EXCEPT !.factions = x] =
             [inventory |-> g.inventory, hand |-> g.hand, assets |-> g.assets, world |-> g.world, visited |-> g.visited, facts |-> g.facts,
              npcs |-> g.npcs, factions |-> x, story |-> g.story, enemies |-> g.enemies, actions |-> g.actions]
    BY DEF Good, Shape
  <2> QED BY <1>7, <2>1 DEF Good, Shape, CharacterGood, CampaignGood
<1>8. ASSUME NEW x, ListOf(x, Numbered(k, m))
     PROVE  Good([g EXCEPT !.story = x], c, k, m)
  <2>1. [g EXCEPT !.story = x] =
             [inventory |-> g.inventory, hand |-> g.hand, assets |-> g.assets, world |-> g.world, visited |-> g.visited, facts |-> g.facts,
              npcs |-> g.npcs, factions |-> g.factions, story |-> x, enemies |-> g.enemies, actions |-> g.actions]
    BY DEF Good, Shape
  <2> QED BY <1>8, <2>1 DEF Good, Shape, CharacterGood, CampaignGood
<1>9. ASSUME NEW x, ListOf(x, Numbered(k, m))
     PROVE  Good([g EXCEPT !.enemies = x], c, k, m)
  <2>1. [g EXCEPT !.enemies = x] =
             [inventory |-> g.inventory, hand |-> g.hand, assets |-> g.assets, world |-> g.world, visited |-> g.visited, facts |-> g.facts,
              npcs |-> g.npcs, factions |-> g.factions, story |-> g.story, enemies |-> x, actions |-> g.actions]
    BY DEF Good, Shape
  <2> QED BY <1>9, <2>1 DEF Good, Shape, CharacterGood, CampaignGood
<1>10. ASSUME NEW x, ListOf(x, Numbered(k, m))
     PROVE  Good([g EXCEPT !.actions = x], c, k, m)
  <2>1. [g EXCEPT !.actions = x] =
             [inventory |-> g.inventory, hand |-> g.hand, assets |-> g.assets, world |-> g.world, visited |-> g.visited, facts |-> g.facts,
              npcs |-> g.npcs, factions |-> g.factions, story |-> g.story, enemies |-> g.enemies, actions |-> x]
    BY DEF Good, Shape
  <2> QED BY <1>10, <2>1 DEF Good, Shape, CharacterGood, CampaignGood
<1> QED BY <1>1, <1>2, <1>3, <1>4, <1>5, <1>6, <1>7, <1>8, <1>9, <1>10

\* The fields of a state whose hand and inventory are replaced.
LEMMA HandFields ==
    ASSUME NEW g, Shape(g), NEW hand, NEW list
    PROVE  [g EXCEPT !.hand = hand, !.inventory = list] =
         [inventory |-> list, hand |-> hand, assets |-> g.assets, world |-> g.world,
          visited |-> g.visited, facts |-> g.facts, npcs |-> g.npcs, factions |-> g.factions,
          story |-> g.story, enemies |-> g.enemies, actions |-> g.actions]
<1>1. PICK h : h = [g EXCEPT !.hand = hand]
  OBVIOUS
<1>2. h = [inventory |-> g.inventory, hand |-> hand, assets |-> g.assets, world |-> g.world,
           visited |-> g.visited, facts |-> g.facts, npcs |-> g.npcs, factions |-> g.factions,
           story |-> g.story, enemies |-> g.enemies, actions |-> g.actions]
  BY <1>1 DEF Shape
<1>3. [g EXCEPT !.hand = hand, !.inventory = list] = [h EXCEPT !.inventory = list]
  BY <1>1
<1> QED BY <1>2, <1>3

\* What is held and what is carried changed together.
LEMMA HandChanged ==
    ASSUME NEW g, NEW c, NEW k, NEW m, Good(g, c, k, m), NEW hand, NEW list,
           hand \subseteq Numbered(c, m), \A x, y \in hand : x = y,
           ListOf(list, Numbered(c, m)), hand \cap ToSet(list) = {}
    PROVE  Good([g EXCEPT !.hand = hand, !.inventory = list], c, k, m)
<1>1. [g EXCEPT !.hand = hand, !.inventory = list] =
         [inventory |-> list, hand |-> hand, assets |-> g.assets, world |-> g.world,
          visited |-> g.visited, facts |-> g.facts, npcs |-> g.npcs, factions |-> g.factions,
          story |-> g.story, enemies |-> g.enemies, actions |-> g.actions]
  BY HandFields DEF Good
<1> QED BY <1>1 DEF Good, Shape, CharacterGood, CampaignGood

\* An entry made by the m-th change is new in every list.
LEMMA NewEntry ==
    ASSUME NEW m \in Nat, NEW of, NEW e, e = [of |-> of, n |-> m]
    PROVE  /\ e \in Numbered(of, m + 1) /\ e \notin Numbered(of, m)
           /\ ListOf(<<e>>, Numbered(of, m + 1))
<1>1. e \in Numbered(of, m + 1) /\ e \notin Numbered(of, m)
  BY DEF Numbered
<1> QED BY <1>1, ShortLists

\* A list with the entry of the m-th change behind it.
LEMMA EntryAppended ==
    ASSUME NEW m \in Nat, NEW of, NEW e, e = [of |-> of, n |-> m],
           NEW list, ListOf(list, Numbered(of, m))
    PROVE  /\ ListOf(Append(list, e), Numbered(of, m + 1))
           /\ ToSet(Append(list, e)) = ToSet(list) \cup {e}
<1>1. e \in Numbered(of, m + 1) /\ e \notin Numbered(of, m)
  BY NewEntry
<1>2. Numbered(of, m) \subseteq Numbered(of, m + 1)
  <2>1. 0..m - 1 \subseteq 0..(m + 1) - 1
    OBVIOUS
  <2> QED BY <2>1 DEF Numbered
<1>3. ListOf(list, Numbered(of, m + 1))
  BY <1>2, ListWidened
<1>4. ToSet(list) \subseteq Numbered(of, m)
  BY DEF ListOf, ToSet
<1> QED BY <1>1, <1>3, <1>4, ListAppended

\* A list stays one without an entry twice when a place or a fact is noted.
LEMMA NotedOnce ==
    ASSUME NEW c, NEW list, ListOf(list, Named(c)), NEW name \in Names
    PROVE  ListOf(Noted(list, [of |-> c, n |-> name]), Named(c))
<1> PICK e : e = [of |-> c, n |-> name]
    OBVIOUS
<1>1. e \in Named(c)
  BY DEF Named
<1>2. CASE Contains(list, e)
  BY <1>2 DEF Noted
<1>3. CASE ~Contains(list, e)
  <2>1. DOMAIN list = 1..Len(list)
    BY DEF ListOf
  <2>2. e \notin ToSet(list)
    BY <1>3, <2>1 DEF Contains, ToSet
  <2> QED BY <1>1, <1>3, <2>2, ListAppended DEF Noted
<1> QED BY <1>2, <1>3

\* A map with one record added or replaced.
LEMMA PutInMap ==
    ASSUME NEW map, NEW records, MapOf(map, records), NEW r \in records
    PROVE  MapOf(Put(map, r.id, r), records)
<1>1. /\ DOMAIN Put(map, r.id, r) = DOMAIN map \cup {r.id} /\ Put(map, r.id, r)[r.id] = r
      /\ \A id \in DOMAIN map : id # r.id => Put(map, r.id, r)[id] = map[id]
  BY DEF Put
<1>2. IsFiniteSet(DOMAIN map \cup {r.id})
  BY FS_AddElement DEF MapOf
<1>3. Put(map, r.id, r) \in [DOMAIN map \cup {r.id} -> records]
  BY DEF Put, MapOf
<1> QED BY <1>1, <1>2, <1>3 DEF MapOf

\* The standing of a faction is clamped.
LEMMA Clamped ==
    ASSUME NEW x \in Int
    PROVE  Max({-MaxStanding, Min({MaxStanding, x})}) \in -MaxStanding..MaxStanding
<1>1. MaxStanding \in Nat /\ -MaxStanding \in Int
  BY LedgerAssumption
<1>2. \A a, b \in Int : /\ Min({a, b}) \in {a, b} /\ Min({a, b}) <= a
                        /\ Max({a, b}) \in {a, b} /\ Max({a, b}) >= a
  <2> SUFFICES ASSUME NEW a \in Int, NEW b \in Int
               PROVE  /\ Min({a, b}) \in {a, b} /\ Min({a, b}) <= a
                      /\ Max({a, b}) \in {a, b} /\ Max({a, b}) >= a
      OBVIOUS
  <2>1. \E y \in {a, b} : \A z \in {a, b} : y <= z
    OBVIOUS
  <2>2. \E y \in {a, b} : \A z \in {a, b} : y >= z
    OBVIOUS
  <2>3. Min({a, b}) \in {a, b} /\ \A z \in {a, b} : Min({a, b}) <= z
    BY <2>1 DEF Min
  <2>4. Max({a, b}) \in {a, b} /\ \A z \in {a, b} : Max({a, b}) >= z
    BY <2>2 DEF Max
  <2> QED BY <2>3, <2>4
<1>3. PICK y \in Int : y = Min({MaxStanding, x}) /\ y <= MaxStanding
  <2>1. Min({MaxStanding, x}) \in {MaxStanding, x} /\ Min({MaxStanding, x}) <= MaxStanding
    BY <1>1, <1>2
  <2> QED BY <1>1, <2>1
<1>4. Max({-MaxStanding, y}) \in {-MaxStanding, y} /\ Max({-MaxStanding, y}) >= -MaxStanding
  BY <1>1, <1>2
<1> QED BY <1>1, <1>3, <1>4

\* What the tools have in hand: the game is good now and after the change that is made.
LEMMA GoodNow ==
    ASSUME LedgerInv
    PROVE  /\ made \in Nat /\ Good(game, characterId, campaignId, made)
           /\ Good(game, characterId, campaignId, made + 1)
           /\ characterId \in Characters /\ campaignId \in Campaigns /\ RowsGood
<1>1. made \in Nat /\ Good(game, characterId, campaignId, made)
  BY LedgerAssumption DEF LedgerInv
<1>2. CharacterGood(game, characterId, made + 1) /\ CampaignGood(game, campaignId, made + 1)
  BY <1>1, GoodLater DEF Good
<1> QED BY <1>1, <1>2 DEF Good, LedgerInv

\* The game master's tools keep the invariant.
LEMMA ToolWell == LedgerInv /\ Tool => LedgerInv'
<1> SUFFICES ASSUME LedgerInv, Tool PROVE LedgerInv'
    OBVIOUS
<1> PICK g, c, k, m : g = game /\ c = characterId /\ k = campaignId /\ m = made
    OBVIOUS
<1>0. PICK cEntry, kEntry : cEntry = [of |-> c, n |-> m] /\ kEntry = [of |-> k, n |-> m]
  OBVIOUS
<1>1. m \in Nat /\ Good(g, c, k, m) /\ Good(g, c, k, m + 1)
  BY GoodNow
<1>2. Made(c) = cEntry /\ Made(k) = kEntry
  BY <1>0 DEF Made
<1>3. /\ ListOf(g.inventory, Numbered(c, m)) /\ ListOf(g.assets, Numbered(c, m))
      /\ ListOf(g.visited, Named(c)) /\ ListOf(g.facts, Named(c))
      /\ g.hand \subseteq Numbered(c, m) /\ \A x, y \in g.hand : x = y
      /\ g.hand \cap ToSet(g.inventory) = {}
      /\ MapOf(g.npcs, NpcRecords(c)) /\ MapOf(g.factions, FactionRecords(c))
      /\ ListOf(g.story, Numbered(k, m))
  BY <1>1 DEF Good, CharacterGood, CampaignGood
<1>4. \A h : Change(h) /\ Good(h, c, k, m + 1) => LedgerInv'
  BY ChangedWell
<1>5. Shape(g)
  BY <1>1 DEF Good
<1>6. /\ cEntry \notin g.hand /\ ListOf(<<kEntry>>, Numbered(k, m + 1))
       /\ ListOf(Append(g.inventory, cEntry), Numbered(c, m + 1))
       /\ ToSet(Append(g.inventory, cEntry)) = ToSet(g.inventory) \cup {cEntry}
       /\ ListOf(Append(g.assets, cEntry), Numbered(c, m + 1))
       /\ ListOf(Append(g.story, kEntry), Numbered(k, m + 1))
  <2>1. cEntry \notin g.hand /\ ListOf(<<kEntry>>, Numbered(k, m + 1))
    BY <1>0, <1>1, <1>3, NewEntry
  <2>2. /\ ListOf(Append(g.inventory, cEntry), Numbered(c, m + 1))
        /\ ToSet(Append(g.inventory, cEntry)) = ToSet(g.inventory) \cup {cEntry}
    BY <1>0, <1>1, <1>3, EntryAppended
  <2>3. ListOf(Append(g.assets, cEntry), Numbered(c, m + 1))
    BY <1>0, <1>1, <1>3, EntryAppended
  <2>4. ListOf(Append(g.story, kEntry), Numbered(k, m + 1))
    BY <1>0, <1>1, <1>3, EntryAppended
  <2> QED BY <2>1, <2>2, <2>3, <2>4
<1>7. CASE AddItem
  <2>1. Change([g EXCEPT !.inventory = Append(g.inventory, cEntry)])
    BY <1>2, <1>7 DEF AddItem
  <2>2. g.hand \cap ToSet(Append(g.inventory, cEntry)) = {}
    BY <1>3, <1>6
  <2>3. Good([g EXCEPT !.inventory = Append(g.inventory, cEntry)], c, k, m + 1)
    BY <1>1, <1>6, <2>2, FieldChanged
  <2> QED BY <1>4, <2>1, <2>3
<1>8. CASE RemoveItem
  <2>1. PICK i \in DOMAIN g.inventory : Change([g EXCEPT !.inventory = RemoveAt(g.inventory, i)])
    BY <1>8 DEF RemoveItem
  <2>2. ListOf(g.inventory, Numbered(c, m + 1))
    BY <1>1 DEF Good, CharacterGood
  <2>3. /\ ListOf(RemoveAt(g.inventory, i), Numbered(c, m + 1))
        /\ ToSet(RemoveAt(g.inventory, i)) = ToSet(g.inventory) \ {g.inventory[i]}
    BY <2>2, ListShortened
  <2>4. Good([g EXCEPT !.inventory = RemoveAt(g.inventory, i)], c, k, m + 1)
    BY <1>1, <1>3, <2>3, FieldChanged
  <2> QED BY <1>4, <2>1, <2>4
<1>9. CASE AddAsset
  <2>1. Change([g EXCEPT !.assets = Append(g.assets, cEntry)])
    BY <1>2, <1>9 DEF AddAsset
  <2>2. Good([g EXCEPT !.assets = Append(g.assets, cEntry)], c, k, m + 1)
    BY <1>1, <1>6, FieldChanged
  <2> QED BY <1>4, <2>1, <2>2
<1>10. CASE RemoveAsset
  <2>1. PICK i \in DOMAIN g.assets : Change([g EXCEPT !.assets = RemoveAt(g.assets, i)])
    BY <1>10 DEF RemoveAsset
  <2>2. ListOf(g.assets, Numbered(c, m + 1))
    BY <1>1 DEF Good, CharacterGood
  <2>3. ListOf(RemoveAt(g.assets, i), Numbered(c, m + 1))
    BY <2>2, ListShortened
  <2>4. Good([g EXCEPT !.assets = RemoveAt(g.assets, i)], c, k, m + 1)
    BY <1>1, <2>3, FieldChanged
  <2> QED BY <1>4, <2>1, <2>4
<1>11. ListOf(SetToSeq(g.hand), Numbered(c, m + 1)) /\ ToSet(SetToSeq(g.hand)) = g.hand
  <2>1. IsFiniteSet(g.hand)
    <3>1. g.hand = {} \/ \E x : g.hand = {x}
      BY <1>3
    <3>2. IsFiniteSet({}) /\ \A x : IsFiniteSet({x})
      BY FS_EmptySet, FS_Singleton
    <3> QED BY <3>1, <3>2
  <2>2. g.hand \subseteq Numbered(c, m + 1)
    BY <1>1 DEF Good, CharacterGood
  <2>3. ListOf(SetToSeq(g.hand), g.hand) /\ ToSet(SetToSeq(g.hand)) = g.hand
    BY <2>1, SetAsList
  <2> QED BY <2>2, <2>3, ListWidened
<1>12. CASE EquipItem
  <2>1. PICK i \in DOMAIN g.inventory :
          Change([g EXCEPT !.hand = {g.inventory[i]},
                           !.inventory = RemoveAt(g.inventory, i) \o SetToSeq(g.hand)])
    BY <1>12 DEF EquipItem
  <2> DEFINE x == g.inventory[i]
             rest == RemoveAt(g.inventory, i)
             list == rest \o SetToSeq(g.hand)
  <2>2. ListOf(g.inventory, Numbered(c, m + 1)) /\ x \in ToSet(g.inventory)
    BY <1>1 DEF Good, CharacterGood, ToSet
  <2>3. ListOf(rest, Numbered(c, m + 1)) /\ ToSet(rest) = ToSet(g.inventory) \ {x}
    BY <2>2, ListShortened
  <2>4. x \in Numbered(c, m + 1)
    BY <2>2 DEF ListOf, ToSet
  <2> HIDE DEF rest, x
  <2>5. ListOf(list, Numbered(c, m + 1)) /\ ToSet(list) = (ToSet(g.inventory) \ {x}) \cup g.hand
    <3>1. ToSet(rest) \cap ToSet(SetToSeq(g.hand)) = {}
      BY <1>3, <1>11, <2>3
    <3>2. PICK back : back = SetToSeq(g.hand)
      OBVIOUS
    <3>3. /\ ListOf(rest \o back, Numbered(c, m + 1))
          /\ ToSet(rest \o back) = ToSet(rest) \cup ToSet(back)
      BY <1>11, <2>3, <3>1, <3>2, ListsJoined
    <3> QED BY <1>11, <2>3, <3>2, <3>3
  <2> HIDE DEF list
  <2>6. {x} \cap ToSet(list) = {} /\ {x} \subseteq Numbered(c, m + 1)
    BY <1>3, <2>2, <2>4, <2>5
  <2>7. PICK hand : hand = {x}
    OBVIOUS
  <2>8. Good([g EXCEPT !.hand = hand, !.inventory = list], c, k, m + 1)
    BY <1>1, <2>5, <2>6, <2>7, HandChanged
  <2> QED BY <1>4, <2>1, <2>7, <2>8 DEF list, rest, x
<1>13. CASE UnequipItem
  <2> DEFINE list == g.inventory \o SetToSeq(g.hand)
  <2>1. Change([g EXCEPT !.hand = {}, !.inventory = list])
    BY <1>13 DEF UnequipItem
  <2>2. ListOf(g.inventory, Numbered(c, m + 1))
    BY <1>1 DEF Good, CharacterGood
  <2>3. ListOf(list, Numbered(c, m + 1))
    BY <1>3, <1>11, <2>2, ListsJoined
  <2> HIDE DEF list
  <2>4. PICK hand : hand = {}
    OBVIOUS
  <2>5. Good([g EXCEPT !.hand = hand, !.inventory = list], c, k, m + 1)
    BY <1>1, <2>3, <2>4, HandChanged
  <2> QED BY <1>4, <2>1, <2>4, <2>5
<1>14. CASE StartCombat
  <2>1. Change([g EXCEPT !.enemies = <<kEntry>>])
    BY <1>2, <1>14 DEF StartCombat
  <2>2. Good([g EXCEPT !.enemies = <<kEntry>>], c, k, m + 1)
    BY <1>1, <1>6, FieldChanged
  <2> QED BY <1>4, <2>1, <2>2
<1>15. CASE EndCombat
  <2>1. Change([g EXCEPT !.enemies = <<>>])
    BY <1>15 DEF EndCombat
  <2>2. Good([g EXCEPT !.enemies = <<>>], c, k, m + 1)
    BY <1>1, ShortLists, FieldChanged
  <2> QED BY <1>4, <2>1, <2>2
<1>16. CASE SetSuggestedActions
  <2>1. Change([g EXCEPT !.actions = <<kEntry>>])
    BY <1>2, <1>16 DEF SetSuggestedActions
  <2>2. Good([g EXCEPT !.actions = <<kEntry>>], c, k, m + 1)
    BY <1>1, <1>6, FieldChanged
  <2> QED BY <1>4, <2>1, <2>2
<1>17. ASSUME NEW id \in Factions, NEW delta \in {-1, 1}, ChangeFaction(id, delta)
       PROVE  LedgerInv'
  <2> DEFINE old == IF id \in DOMAIN g.factions THEN g.factions[id]
                    ELSE [id |-> id, of |-> c, standing |-> 0]
             new == Max({-MaxStanding, Min({MaxStanding, old.standing + delta})})
             r == [old EXCEPT !.standing = new]
  <2>1. Change([g EXCEPT !.factions = Put(g.factions, id, r)])
    BY <1>17 DEF ChangeFaction
  <2>2. old \in FactionRecords(c) /\ old.id = id
    <3>1. 0 \in -MaxStanding..MaxStanding
      BY LedgerAssumption
    <3>2. [id |-> id, of |-> c, standing |-> 0] \in FactionRecords(c)
      BY <3>1 DEF FactionRecords
    <3>3. id \in DOMAIN g.factions => g.factions[id] \in FactionRecords(c) /\ g.factions[id].id = id
      BY <1>3 DEF MapOf
    <3> QED BY <3>2, <3>3
  <2> HIDE DEF old
  <2>3. old.standing + delta \in Int
    BY <2>2, LedgerAssumption DEF FactionRecords
  <2>4. new \in -MaxStanding..MaxStanding
    BY <2>3, Clamped
  <2> HIDE DEF new
  <2>5. r \in FactionRecords(c) /\ r.id = id
    BY <2>2, <2>4 DEF FactionRecords
  <2> HIDE DEF r
  <2>6. MapOf(Put(g.factions, id, r), FactionRecords(c))
    BY <1>3, <2>5, PutInMap
  <2>7. Good([g EXCEPT !.factions = Put(g.factions, id, r)], c, k, m + 1)
    BY <1>1, <2>6, FieldChanged
  <2> QED BY <1>4, <2>1, <2>7
<1>18. ASSUME NEW id \in Folk, UpsertNpc(id) PROVE LedgerInv'
  <2> DEFINE r == [id |-> id, of |-> c, n |-> m]
  <2>1. Change([g EXCEPT !.npcs = Put(g.npcs, id, r)])
    BY <1>18 DEF UpsertNpc
  <2>2. r \in NpcRecords(c) /\ r.id = id
    BY <1>1 DEF NpcRecords
  <2> HIDE DEF r
  <2>3. MapOf(Put(g.npcs, id, r), NpcRecords(c))
    BY <1>3, <2>2, PutInMap
  <2>4. Good([g EXCEPT !.npcs = Put(g.npcs, id, r)], c, k, m + 1)
    BY <1>1, <2>3, FieldChanged
  <2> QED BY <1>4, <2>1, <2>4
<1>19. ASSUME NEW name \in Names, SetLocation(name) \/ AddWorldFact(name) \/ SetWorld(name)
       PROVE  LedgerInv'
  <2> DEFINE visited == Noted(g.visited, [of |-> c, n |-> name])
             facts == Noted(g.facts, [of |-> c, n |-> name])
             story == Append(g.story, kEntry)
  <2>1. \/ Change([g EXCEPT !.world = "moved", !.visited = visited])
        \/ Change([g EXCEPT !.facts = facts])
        \/ Change([g EXCEPT !.world = "told", !.visited = visited, !.story = story])
    BY <1>2, <1>19 DEF SetLocation, AddWorldFact, SetWorld
  <2>2. /\ ListOf(visited, Named(c)) /\ ListOf(facts, Named(c))
    BY <1>3, NotedOnce
  <2>3. ListOf(story, Numbered(k, m + 1))
    BY <1>6
  <2> HIDE DEF visited, facts, story
  <2>4. \A text : Good([g EXCEPT !.world = text, !.visited = visited], c, k, m + 1)
    <3> TAKE text
    <3>1. PICK h : h = [g EXCEPT !.world = text]
      OBVIOUS
    <3>2. Good(h, c, k, m + 1)
      BY <1>1, <3>1, FieldChanged
    <3>3. Good([h EXCEPT !.visited = visited], c, k, m + 1)
      BY <2>2, <3>2, FieldChanged
    <3>4. [h EXCEPT !.visited = visited] = [g EXCEPT !.world = text, !.visited = visited]
      BY <3>1
    <3> QED BY <3>3, <3>4
  <2>5. Good([g EXCEPT !.facts = facts], c, k, m + 1)
    BY <1>1, <2>2, FieldChanged
  <2>6. Good([g EXCEPT !.world = "told", !.visited = visited, !.story = story], c, k, m + 1)
    <3>1. PICK h : h = [g EXCEPT !.world = "told", !.visited = visited]
      OBVIOUS
    <3>2. Good([h EXCEPT !.story = story], c, k, m + 1)
      BY <2>3, <2>4, <3>1, FieldChanged
    <3>3. [h EXCEPT !.story = story] =
             [g EXCEPT !.world = "told", !.visited = visited, !.story = story]
      BY <3>1
    <3> QED BY <3>2, <3>3
  <2> QED BY <1>4, <2>1, <2>4, <2>5, <2>6
<1> QED BY <1>7, <1>8, <1>9, <1>10, <1>12, <1>13, <1>14, <1>15, <1>16, <1>17, <1>18, <1>19 DEF Tool

\* A line more in the story.
LEMMA LineAdded ==
    ASSUME LedgerInv
    PROVE  Good([game EXCEPT !.story = Append(@, Made(campaignId))],
                characterId, campaignId, made + 1)
<1>1. PICK e : e = [of |-> campaignId, n |-> made] /\ Made(campaignId) = e
  BY DEF Made
<1>2. ListOf(game.story, Numbered(campaignId, made)) /\ made \in Nat
  BY GoodNow DEF Good, CampaignGood
<1>3. ListOf(Append(game.story, e), Numbered(campaignId, made + 1))
  BY <1>1, <1>2, EntryAppended
<1>4. Good([game EXCEPT !.story = Append(game.story, e)], characterId, campaignId, made + 1)
  BY <1>3, GoodNow, FieldChanged
<1> QED BY <1>1, <1>4

\* What is read from a character's row alone is a good game of any campaign.
LEMMA HalfGood ==
    ASSUME RowsGood, NEW c \in DOMAIN characters, NEW k
    PROVE  Good(ReadCharacter(characters[c], FreshState), c, k, made)
<1> DEFINE h == ReadCharacter(characters[c], FreshState)
<1>1. Shape(h) /\ h.story = <<>> /\ h.enemies = <<>> /\ h.actions = <<>>
  BY CharacterFields, Zenon
<1>2. CharacterGood(h, c, made)
  BY DEF RowsGood
<1> HIDE DEF h
<1>3. CampaignGood(h, k, made)
  BY <1>1, ShortLists DEF CampaignGood
<1>4. Good(h, c, k, made)
  BY <1>1, <1>2, <1>3 DEF Good
<1> QED BY <1>4 DEF h

\* A game that begins is good.
LEMMA BegunGood ==
    ASSUME made \in Nat, NEW g, NEW c, NEW k, Good(g, c, k, made)
    PROVE  Good(Begun(g, k), c, k, made + 1)
<1>1. PICK e : e = [of |-> k, n |-> made] /\ Made(k) = e
  BY DEF Made
<1>2. ListOf(g.story, Numbered(k, made))
  BY DEF Good, CampaignGood
<1>3. Good(g, c, k, made + 1)
  <2>1. CharacterGood(g, c, made + 1) /\ CampaignGood(g, k, made + 1)
    BY GoodLater DEF Good
  <2> QED BY <2>1 DEF Good
<1>4. PICK h : h = [g EXCEPT !.story = Append(g.story, e)]
  OBVIOUS
<1>5. Good(h, c, k, made + 1)
  <2>1. ListOf(Append(g.story, e), Numbered(k, made + 1))
    BY <1>1, <1>2, EntryAppended
  <2> QED BY <1>3, <1>4, <2>1, FieldChanged
<1>6. Good([h EXCEPT !.actions = <<e>>], c, k, made + 1)
  <2>1. ListOf(<<e>>, Numbered(k, made + 1))
    BY <1>1, NewEntry
  <2> QED BY <1>5, <2>1, FieldChanged
<1>7. Begun(g, k) = [h EXCEPT !.actions = <<e>>]
  BY <1>1, <1>4 DEF Begun
<1> QED BY <1>6, <1>7

\* The ids of a first start are ids.
LEMMA FirstIds == Min(Characters) \in Characters /\ Min(Campaigns) \in Campaigns
<1>1. ASSUME NEW T, T \subseteq Nat, T # {} PROVE Min(T) \in T
  <2> DEFINE R == {ss \in Nat \X Nat : ss[1] < ss[2]}
  <2>1. IsWellFoundedOn(R, Nat)
    BY NatLessThanWellFounded DEF OpToRel
  <2>2. \A x, y \in Nat : x < y => <<x, y>> \in R
    OBVIOUS
  <2> HIDE DEF R
  <2>3. PICK x \in T : \A y \in T : ~ (<<y, x>> \in R)
    BY <1>1, <2>1, WFMin
  <2>4. \A y \in T : ~(y < x) /\ y \in Nat /\ x \in Nat
    BY <1>1, <2>2, <2>3
  <2>5. \A y \in T : x <= y
    BY <2>4
  <2> QED BY <2>5 DEF Min
<1> QED BY <1>1, LedgerAssumption

-----------------------------------------------------------------------------
(* The invariant.                                                          *)

LEMMA InitLedger == Init => LedgerInv
<1> SUFFICES ASSUME Init PROVE LedgerInv
    OBVIOUS
<1>1. Good(game, characterId, campaignId, made)
  BY FreshGood DEF Init
<1>2. RowsGood
  <2>1. DOMAIN characters = {} /\ DOMAIN campaigns = {}
    BY DEF Init
  <2> QED BY <2>1 DEF RowsGood
<1>3. made \in 0..MaxMade
  BY LedgerAssumption DEF Init
<1>4. SavedReadsBack
  BY DEF Init, SavedReadsBack
<1> QED BY <1>1, <1>2, <1>3, <1>4, FirstIds DEF Init, LedgerInv

\* A start reads what the active row names.
LEMMA RestartWell == LedgerInv /\ Restart => LedgerInv'
<1> SUFFICES ASSUME LedgerInv, Restart PROVE LedgerInv'
    OBVIOUS
<1>1. /\ game' = ReadGame(characterId', campaignId') /\ turnInProgress' = FALSE /\ unsaved' = FALSE
      /\ UNCHANGED storeVars /\ made' = made /\ active' = active
  BY DEF Restart, storeVars
<1>2. made \in Nat /\ made \in 0..MaxMade
  BY LedgerAssumption DEF LedgerInv
<1>3. /\ characterId' \in Characters /\ campaignId' \in Campaigns
      /\ active # NoGame => characterId' = active[1] /\ campaignId' = active[2]
  <2>1. CASE active = NoGame
    BY <2>1, FirstIds DEF Restart
  <2>2. CASE active # NoGame
    BY <2>2 DEF Restart, LedgerInv
  <2> QED BY <2>1, <2>2
<1>4. Good(game', characterId', campaignId', made')
  <2>1. PICK c, k : c = characterId' /\ k = campaignId'
    OBVIOUS
  <2>2. Good(ReadGame(c, k), c, k, made)
    BY ReadGood DEF LedgerInv
  <2> QED BY <1>1, <2>1, <2>2
<1>5. SavedReadsBack'
  <2>1. characters' = characters /\ campaigns' = campaigns
    BY <1>1 DEF storeVars
  <2>2. PICK c, k : c = characterId' /\ k = campaignId'
    OBVIOUS
  <2>3. game' = ReadGame(c, k)
    BY <1>1, <2>2
  <2>4. ReadGame(c, k)' = ReadGame(c, k)
    BY <2>1 DEF ReadGame
  <2> SUFFICES ASSUME active' # NoGame PROVE ReadGame(active[1], active[2])' = game'
      BY DEF SavedReadsBack
  <2>5. active'[1] = c /\ active'[2] = k
    BY <1>1, <1>3, <2>2
  <2> QED BY <2>3, <2>4, <2>5 DEF ReadGame
<1>6. made' \in 0..MaxMade /\ made' >= made /\ turnInProgress' \in BOOLEAN /\ unsaved' \in BOOLEAN
  <2>1. made >= made
    BY <1>2
  <2> QED BY <1>1, <1>2, <2>1
<1> QED BY <1>1, <1>3, <1>4, <1>5, <1>6, ChangedUnsaved

\* A job begins, changes the game, and ends.
LEMMA JobWell ==
    LedgerInv /\ (Note \/ Submit \/ SetTechnology \/ EndJob \/ AcquireMount \/ GiveUp) => LedgerInv'
<1> SUFFICES ASSUME LedgerInv, Note \/ Submit \/ SetTechnology \/ EndJob \/ AcquireMount \/ GiveUp
             PROVE  LedgerInv'
    OBVIOUS
<1>1. /\ made \in Nat /\ MaxMade \in Nat /\ made \in 0..MaxMade /\ unsaved \in BOOLEAN
      /\ characterId \in Characters /\ campaignId \in Campaigns
      /\ Good(game, characterId, campaignId, made)
  BY LedgerAssumption DEF LedgerInv
<1>2. Count => made' \in 0..MaxMade /\ made' >= made /\ made' = made + 1
  BY <1>1 DEF Count
<1>3. PICK line : /\ line = [game EXCEPT !.story = Append(@, Made(campaignId))]
                  /\ Good(line, characterId, campaignId, made + 1)
  BY LineAdded
<1>4. CASE Note
  <2>1. Change(line)
    BY <1>3, <1>4 DEF Note
  <2> QED BY <1>3, <2>1, ChangedWell
<1>5. CASE Submit
  <2>1. characterId' = characterId /\ campaignId' = campaignId /\ turnInProgress' = TRUE
    BY <1>5 DEF Submit, idVars
  <2>2. CASE Count /\ NotSaved /\ game' = line
    <3>1. UNCHANGED storeVars /\ unsaved' = TRUE /\ SavedReadsBack'
      BY <2>2 DEF NotSaved, SavedReadsBack
    <3>2. Good(game', characterId', campaignId', made')
      BY <1>2, <1>3, <2>1, <2>2
    <3> QED BY <1>1, <1>2, <2>1, <2>2, <3>1, <3>2, ChangedUnsaved
  <2>3. CASE UNCHANGED <<game, made, unsaved, storeVars>>
    BY <1>1, <2>1, <2>3, SameStores
  <2> QED BY <1>3, <1>5, <2>2, <2>3 DEF Submit
<1>6. CASE SetTechnology
  <2>1. PICK h : h = [game EXCEPT !.world = "generated"]
    OBVIOUS
  <2>2. Change(h)
    BY <1>6, <2>1 DEF SetTechnology
  <2>3. Good(h, characterId, campaignId, made + 1)
    BY <2>1, GoodNow, FieldChanged
  <2> QED BY <2>2, <2>3, ChangedWell
<1>7. CASE EndJob
  <2>1. /\ characterId' = characterId /\ campaignId' = campaignId /\ turnInProgress' = FALSE
        /\ (Count /\ game' = line) \/ (made' = made /\ game' = game)
    BY <1>3, <1>7 DEF EndJob, idVars
  <2>2. Good(game', characterId, campaignId, made') /\ made' \in 0..MaxMade /\ made' >= made
    <3>1. CASE Count /\ game' = line
      BY <1>2, <1>3, <3>1
    <3>2. CASE made' = made /\ game' = game
      BY <1>1, <3>2
    <3> QED BY <2>1, <3>1, <3>2
  <2>3. PICK g : g = game' /\ Save(g, characterId, campaignId)
    BY <1>7 DEF EndJob
  <2> QED BY <1>1, <2>1, <2>2, <2>3, SavedWell
<1>8. CASE AcquireMount
  <2>1. /\ characterId' = characterId /\ campaignId' = campaignId /\ turnInProgress' = FALSE /\ Count
        /\ game' = [game EXCEPT !.assets = Append(@, Made(characterId)),
                                !.story = Append(@, Made(campaignId))]
    BY <1>8 DEF AcquireMount, idVars
  <2>2. PICK e : e = [of |-> characterId, n |-> made] /\ Made(characterId) = e
    BY DEF Made
  <2>3. PICK assets : assets = Append(game.assets, e)
    OBVIOUS
  <2>4. ListOf(assets, Numbered(characterId, made + 1))
    <3>1. ListOf(game.assets, Numbered(characterId, made))
      BY <1>1 DEF Good, CharacterGood
    <3> QED BY <1>1, <2>2, <2>3, <3>1, EntryAppended
  <2>5. Good([line EXCEPT !.assets = assets], characterId, campaignId, made + 1)
    BY <1>3, <2>4, FieldChanged
  <2>6. game' = [line EXCEPT !.assets = assets]
    <3>1. line.assets = game.assets /\ line = [game EXCEPT !.story = Append(game.story, Made(campaignId))]
      BY <1>1, <1>3 DEF Good, Shape
    <3>2. Shape(game)
      BY <1>1 DEF Good
    <3>3. game' = [game EXCEPT !.assets = assets, !.story = Append(game.story, Made(campaignId))]
      BY <2>1, <2>2, <2>3
    <3> QED BY <3>1, <3>2, <3>3 DEF Shape
  <2>7. PICK g : g = game' /\ Save(g, characterId, campaignId)
    BY <1>8 DEF AcquireMount
  <2> QED BY <1>1, <1>2, <2>1, <2>5, <2>6, <2>7, SavedWell
<1>9. CASE GiveUp
  BY <1>1, <1>9, SameStores DEF GiveUp, idVars
<1> QED BY <1>4, <1>5, <1>6, <1>7, <1>8, <1>9

\* Another game is begun, gone on with, or begun for the same character.
LEMMA OtherGameWell == LedgerInv /\ (NewGame \/ LoadSave \/ NewCampaign) => LedgerInv'
<1> SUFFICES ASSUME LedgerInv, NewGame \/ LoadSave \/ NewCampaign PROVE LedgerInv'
    OBVIOUS
<1>1. /\ made \in Nat /\ MaxMade \in Nat /\ made \in 0..MaxMade /\ turnInProgress \in BOOLEAN
      /\ RowsGood
  BY LedgerAssumption DEF LedgerInv
<1>2. Count => made' \in 0..MaxMade /\ made' >= made /\ made' = made + 1
  BY <1>1 DEF Count
<1>3. ASSUME NEW g, NEW c \in Characters, NEW k \in Campaigns, Play(g, c, k),
             made' \in 0..MaxMade, made' >= made, Good(g, c, k, made')
      PROVE  LedgerInv'
  BY <1>1, <1>3, SavedWell DEF Play
<1>4. CASE NewGame
  <2>1. PICK c \in Characters, k \in Campaigns :
          Play(Begun([FreshState EXCEPT !.world = "asked"], k), c, k)
    BY <1>4 DEF NewGame
  <2>2. PICK g : g = [FreshState EXCEPT !.world = "asked"]
    OBVIOUS
  <2>3. Good(g, c, k, made)
    BY <2>2, FreshGood, FieldChanged
  <2>4. PICK h : h = Begun(g, k) /\ Good(h, c, k, made + 1)
    BY <1>1, <2>3, BegunGood
  <2>5. Play(h, c, k) /\ Count
    BY <1>4, <2>1, <2>2, <2>4 DEF NewGame
  <2> QED BY <1>2, <1>3, <2>4, <2>5
<1>5. CASE LoadSave
  <2>1. PICK k \in DOMAIN campaigns :
          Play(ReadGame(campaigns[k].parent, k), campaigns[k].parent, k)
    BY <1>5 DEF LoadSave
  <2>2. PICK c : c = campaigns[k].parent
    OBVIOUS
  <2>3. c \in Characters /\ k \in Campaigns
    BY <1>1, <2>2 DEF RowsGood
  <2>4. PICK g : g = ReadGame(c, k) /\ Good(g, c, k, made)
    BY <1>1, ReadGood
  <2>5. made' = made
    BY <1>5 DEF LoadSave
  <2> QED BY <1>1, <1>3, <2>1, <2>2, <2>3, <2>4, <2>5
<1>6. CASE NewCampaign
  <2>1. PICK c \in DOMAIN characters, k \in Campaigns :
          Play(Begun(ReadCharacter(characters[c], FreshState), k), c, k)
    BY <1>6 DEF NewCampaign
  <2>2. c \in Characters
    BY <1>1 DEF RowsGood
  <2>3. PICK g : g = ReadCharacter(characters[c], FreshState) /\ Good(g, c, k, made)
    BY <1>1, HalfGood
  <2>4. PICK h : h = Begun(g, k) /\ Good(h, c, k, made + 1)
    BY <1>1, <2>3, BegunGood
  <2>5. Play(h, c, k) /\ Count
    BY <1>6, <2>1, <2>3, <2>4 DEF NewCampaign
  <2> QED BY <1>2, <1>3, <2>2, <2>4, <2>5
<1> QED BY <1>4, <1>5, <1>6

\* The inductive invariant of the ledger.
THEOREM LedgerInvariance == Spec => []LedgerInv
<1>1. Init => LedgerInv
  BY InitLedger
<1>2. LedgerInv /\ [Next]_vars => LedgerInv'
  <2> SUFFICES ASSUME LedgerInv, [Next]_vars PROVE LedgerInv'
      OBVIOUS
  <2>1. CASE Next
    BY <2>1, RestartWell, ToolWell, JobWell, OtherGameWell DEF Next
  <2>2. CASE UNCHANGED vars
    BY <2>2, SameStores DEF vars, idVars, LedgerInv
  <2> QED BY <2>1, <2>2
<1> QED BY <1>1, <1>2, PTL DEF Spec

\* The next start gives back the game that is played, unless it changed since it was
\* saved: what serialize.cpp writes is what it reads, for every game the tools, the
\* jobs, the loads and the new campaigns can make (save, load_saved_state).
THEOREM SavedIsReadBack == Spec => []SavedReadsBack
<1>1. LedgerInv => SavedReadsBack
  BY DEF LedgerInv
<1> QED BY <1>1, LedgerInvariance, PTL

\* Nothing comes into the game twice, over any number of saves and starts, although
\* reading a row adds to lists it does not clear (serialize.cpp:120-129, 576-606, 650-672).
THEOREM NothingTwice == Spec => []NothingDoubled
<1>1. LedgerInv => NothingDoubled
  BY DEF LedgerInv, Good, CharacterGood, CampaignGood, ListOf, NothingDoubled, Lists
<1> QED BY <1>1, LedgerInvariance, PTL

\* What belongs to a character or a campaign does not come into another's game
\* (new_campaign, engine.cpp:757-791, and load_save read into a fresh state).
THEOREM HalvesApart == Spec => []HalvesStayApart
<1>1. LedgerInv => HalvesStayApart
  <2> SUFFICES ASSUME LedgerInv PROVE HalvesStayApart
      OBVIOUS
  <2>1. CharacterGood(game, characterId, made) /\ CampaignGood(game, campaignId, made)
    BY DEF LedgerInv, Good
  <2>2. \A S, list : ListOf(list, S) => ToSet(list) \subseteq S
    BY DEF ListOf, ToSet
  <2>3. /\ \A of, m : \A e \in Numbered(of, m) : e.of = of
        /\ \A of : \A e \in Named(of) : e.of = of
    BY DEF Numbered, Named
  <2>4. \A e \in ToSet(game.inventory) \cup game.hand \cup ToSet(game.assets) :
            e.of = characterId
    BY <2>1, <2>2, <2>3 DEF CharacterGood
  <2>5. \A e \in ToSet(game.visited) \cup ToSet(game.facts) : e.of = characterId
    BY <2>1, <2>2, <2>3 DEF CharacterGood
  <2>6. \A e \in MapValues(game.npcs) : e.of = characterId
    BY <2>1 DEF CharacterGood, MapOf, NpcRecords, MapValues
  <2>7. \A e \in MapValues(game.factions) : e.of = characterId
    BY <2>1 DEF CharacterGood, MapOf, FactionRecords, MapValues
  <2>8. \A e \in OfCharacter(game) : e.of = characterId
    BY <2>4, <2>5, <2>6, <2>7 DEF OfCharacter
  <2>9. \A e \in OfCampaign(game) : e.of = campaignId
    BY <2>1, <2>2, <2>3 DEF CampaignGood, OfCampaign
  <2> QED BY <2>8, <2>9 DEF HalvesStayApart
<1> QED BY <1>1, LedgerInvariance, PTL

\* A game has the fields of GameState and no other, a map's keys are the ids of what it
\* holds, and a slot holds one item at most (game_state.hpp, read_character_fields).
THEOREM TypeCorrect == Spec => []TypeOK
<1>1. LedgerInv => TypeOK
  <2> SUFFICES ASSUME LedgerInv PROVE TypeOK
      OBVIOUS
  <2>1. Shape(game) /\ CharacterGood(game, characterId, made)
    BY DEF LedgerInv, Good
  <2>2. DOMAIN game = DOMAIN FreshState
    BY <2>1 DEF Shape, FreshState
  <2>3. /\ DOMAIN game.npcs \subseteq Folk /\ \A id \in DOMAIN game.npcs : game.npcs[id].id = id
    BY <2>1 DEF CharacterGood, MapOf, NpcRecords
  <2>4. /\ DOMAIN game.factions \subseteq Factions
        /\ \A id \in DOMAIN game.factions :
              game.factions[id].id = id /\ game.factions[id].standing \in -MaxStanding..MaxStanding
    BY <2>1 DEF CharacterGood, MapOf, FactionRecords
  <2>5. Cardinality(game.hand) <= 1
    <3>1. game.hand = {} \/ \E x : game.hand = {x}
      BY <2>1 DEF CharacterGood
    <3>2. Cardinality({}) = 0 /\ \A x : Cardinality({x}) = 1
      BY FS_EmptySet, FS_Singleton
    <3>3. Cardinality(game.hand) = 0 \/ Cardinality(game.hand) = 1
      BY <3>1, <3>2
    <3> QED BY <3>3
  <2> QED BY <2>2, <2>3, <2>4, <2>5 DEF LedgerInv, RowsGood, TypeOK
<1> QED BY <1>1, LedgerInvariance, PTL
=============================================================================
