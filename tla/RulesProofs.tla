---------------------------- MODULE RulesProofs ----------------------------
(***************************************************************************)
(* Theorems about the rules that count: CharacterSheet (Spec) and Income   *)
(* (IncomeSpec).                                                           *)
(*                                                                         *)
(* CharacterSheet: no item is lost or doubled and no experience either,    *)
(* for any kinds of items, any experience table and any numbers.  The      *)
(* items are followed by the ids of a sequence and of a slot (Ids, Worn):  *)
(* every operation moves ids between these sets.  The experience is        *)
(* followed through the table's running total, whose facts are proved by   *)
(* taking the least number at which one would fail (LeastNumber).          *)
(*                                                                         *)
(* Income: for any number of businesses, any incomes, any length of a day  *)
(* and any cap, every whole day is paid once or still due, and a click     *)
(* pays what the window showed.  A business was last collected a whole     *)
(* number of days after it was bought, so the days earned split into those *)
(* settled and those outstanding; the rest is about sums over businesses.  *)
(***************************************************************************)
EXTENDS CharacterSheet, Income, FiniteSetTheorems, SequenceTheorems, WellFoundedInduction, TLAPS

\* The ids in a sequence of items and on a slot; a sequence without an id twice.
Ids(s) == {s[i].id : i \in DOMAIN s}
Distinct(s) == \A i, j \in DOMAIN s : s[i].id = s[j].id => i = j
Worn(slot) == {item.id : item \in equipment[slot]}

\* What a slot holds: nothing or one item that fits it.
Fits(slot, item) == item \in Items /\ Wearable(item) /\ item.slot = slot
SlotHolds(slot) == equipment[slot] = {} \/ \E item \in Items :
                        Fits(slot, item) /\ equipment[slot] = {item}

ItemsTyped ==
    /\ inventory \in Seq(Items)
    /\ equipment \in [Slots -> SUBSET Items] /\ \A s \in Slots : SlotHolds(s)
    /\ made \in 0..MaxItems /\ gone \subseteq 1..made

\* The ids carried and worn are apart, and they are those made and not gone.
IdsApart ==
    /\ Distinct(inventory)
    /\ Worn("hand") \cap Worn("body") = {}
    /\ Ids(inventory) \cap (Worn("hand") \cup Worn("body")) = {}
IdsAccounted == Ids(inventory) \cup Worn("hand") \cup Worn("body") = (1..made) \ gone

ItemsInv == ItemsTyped /\ IdsApart /\ IdsAccounted

Players == [level : 1..Len(Need), xp : Nat, hp : Nat, maxHp : Nat, energy : Nat,
            maxEnergy : Nat, points : Nat]
PlayerTyped ==
    /\ player \in Players /\ player.hp <= player.maxHp /\ player.energy <= player.maxEnergy
    /\ earned \in 0..MaxEarned /\ spent \in Nat

SheetInv == ItemsInv /\ PlayerTyped /\ LevelsPaidFor

-----------------------------------------------------------------------------
(* Numbers and sequences.                                                  *)

\* A set of numbers that is not empty has a least one.
LEMMA LeastNumber ==
    ASSUME NEW T, T \subseteq Nat, T # {}
    PROVE  \E x \in T : \A y \in T : x <= y
<1> DEFINE R == {ss \in Nat \X Nat : ss[1] < ss[2]}
<1>1. IsWellFoundedOn(R, Nat)
  BY NatLessThanWellFounded DEF OpToRel
<1>2. \A x, y \in Nat : x < y => <<x, y>> \in R
  OBVIOUS
<1> HIDE DEF R
<1>3. PICK x \in T : \A y \in T : ~ (<<y, x>> \in R)
  BY <1>1, WFMin
<1>4. \A y \in T : ~(y < x) /\ y \in Nat /\ x \in Nat
  BY <1>2, <1>3
<1>5. \A y \in T : x <= y
  BY <1>4
<1> QED BY <1>5

\* What the assumption says of the numbers.
LEMMA SheetNumbers ==
    /\ Need \in Seq(Nat \ {0}) /\ Len(Need) \in Nat /\ Len(Need) > MaxEarned
    /\ StartHp \in Nat /\ StartEnergy \in Nat /\ HpPerLevel \in Nat /\ EnergyPerLevel \in Nat
    /\ PointsPerLevel \in Nat /\ Potion \in Nat /\ MaxItems \in Nat /\ MaxEarned \in Nat
    /\ \A l \in 1..Len(Need) : Need[l] \in Nat /\ Need[l] >= 1
BY SheetAssumption

\* Two sequences of items without an id in common, one behind the other.
LEMMA JoinedItems ==
    ASSUME NEW s \in Seq(Items), NEW t \in Seq(Items), Distinct(s), Distinct(t),
           Ids(s) \cap Ids(t) = {}
    PROVE  s \o t \in Seq(Items) /\ Distinct(s \o t) /\ Ids(s \o t) = Ids(s) \cup Ids(t)
<1> DEFINE u == s \o t
<1>1. /\ u \in Seq(Items) /\ Len(u) = Len(s) + Len(t)
      /\ \A i \in 1..Len(s) + Len(t) : u[i] = IF i <= Len(s) THEN s[i] ELSE t[i - Len(s)]
  BY ConcatProperties
<1>2. Len(s) \in Nat /\ Len(t) \in Nat /\ DOMAIN s = 1..Len(s) /\ DOMAIN t = 1..Len(t)
  OBVIOUS
<1>3. DOMAIN u = 1..Len(s) + Len(t)
  BY <1>1
<1> HIDE DEF u
<1>4. \A i \in DOMAIN u : \/ i \in DOMAIN s /\ u[i] = s[i]
                          \/ i - Len(s) \in DOMAIN t /\ u[i] = t[i - Len(s)]
  BY <1>1, <1>2, <1>3
<1>5. /\ \A i \in DOMAIN s : i \in DOMAIN u /\ u[i] = s[i]
      /\ \A i \in DOMAIN t : i + Len(s) \in DOMAIN u /\ u[i + Len(s)] = t[i]
  BY <1>1, <1>2, <1>3
<1>6. Ids(u) = Ids(s) \cup Ids(t)
  BY <1>4, <1>5 DEF Ids
<1>7. Distinct(u)
  <2> SUFFICES ASSUME NEW i \in DOMAIN u, NEW j \in DOMAIN u, u[i].id = u[j].id
               PROVE  i = j
      BY DEF Distinct
  <2>1. \A k \in DOMAIN s, l \in DOMAIN t : s[k].id # t[l].id
    BY DEF Ids
  <2>2. CASE i \in DOMAIN s /\ u[i] = s[i] /\ j \in DOMAIN s /\ u[j] = s[j]
    BY <2>2 DEF Distinct
  <2>3. CASE /\ i - Len(s) \in DOMAIN t /\ u[i] = t[i - Len(s)]
             /\ j - Len(s) \in DOMAIN t /\ u[j] = t[j - Len(s)]
    <3>1. i - Len(s) = j - Len(s)
      BY <2>3 DEF Distinct
    <3> QED BY <1>2, <1>3, <3>1
  <2> QED BY <1>4, <2>1, <2>2, <2>3
<1> QED BY <1>1, <1>6, <1>7 DEF u

\* One item taken out.
LEMMA ItemTakenOut ==
    ASSUME NEW s \in Seq(Items), NEW i \in DOMAIN s, Distinct(s)
    PROVE  /\ RemoveAt(s, i) \in Seq(Items) /\ Distinct(RemoveAt(s, i))
           /\ Ids(RemoveAt(s, i)) = Ids(s) \ {s[i].id}
<1> DEFINE l == SubSeq(s, 1, i - 1)
           r == SubSeq(s, i + 1, Len(s))
<1>1. Len(s) \in Nat /\ DOMAIN s = 1..Len(s) /\ i \in Nat /\ i >= 1 /\ i <= Len(s)
  OBVIOUS
<1>2. \A k \in 1..Len(s) : s[k] \in Items
  OBVIOUS
<1>3. /\ l \in Seq(Items) /\ Len(l) = i - 1
      /\ \A k \in 1..i - 1 : l[k] = s[k]
  <2>1. \A k \in 1..i - 1 : s[k] \in Items
    BY <1>1, <1>2
  <2>2. /\ l \in Seq(Items) /\ Len(l) = IF 1 <= i - 1 THEN (i - 1) - 1 + 1 ELSE 0
        /\ \A k \in 1..(i - 1) - 1 + 1 : l[k] = s[1 + k - 1]
    BY <1>1, <2>1, SubSeqProperties
  <2> HIDE DEF l
  <2> QED BY <1>1, <2>2
<1>4. /\ r \in Seq(Items) /\ Len(r) = Len(s) - i
      /\ \A k \in 1..Len(s) - i : r[k] = s[i + k]
  <2>1. \A k \in i + 1..Len(s) : s[k] \in Items
    BY <1>1, <1>2
  <2>2. /\ r \in Seq(Items)
        /\ Len(r) = IF i + 1 <= Len(s) THEN Len(s) - (i + 1) + 1 ELSE 0
        /\ \A k \in 1..Len(s) - (i + 1) + 1 : r[k] = s[(i + 1) + k - 1]
    BY <1>1, <2>1, SubSeqProperties
  <2> HIDE DEF r
  <2>3. Len(s) - (i + 1) + 1 = Len(s) - i /\ (i + 1 <= Len(s) \/ Len(s) - i = 0)
    BY <1>1
  <2>4. \A k \in 1..Len(s) - i : (i + 1) + k - 1 = i + k
    BY <1>1
  <2> QED BY <2>2, <2>3, <2>4
<1> HIDE DEF l, r
<1>5. DOMAIN l = 1..i - 1 /\ DOMAIN r = 1..Len(s) - i
  BY <1>1, <1>3, <1>4
<1>6. Distinct(l)
  BY <1>1, <1>3, <1>5 DEF Distinct
<1>7. Distinct(r)
  <2> SUFFICES ASSUME NEW a \in DOMAIN r, NEW b \in DOMAIN r, r[a].id = r[b].id
               PROVE  a = b
      BY DEF Distinct
  <2>1. i + a \in DOMAIN s /\ i + b \in DOMAIN s /\ s[i + a].id = s[i + b].id
    <3>1. \A k \in 1..Len(s) - i : i + k \in 1..Len(s)
      BY <1>1
    <3>2. r[a] = s[i + a] /\ r[b] = s[i + b]
      BY <1>4, <1>5
    <3> QED BY <1>1, <1>5, <3>1, <3>2
  <2>2. i + a = i + b
    BY <2>1 DEF Distinct
  <2> QED BY <1>1, <1>5, <2>2
<1>8. Ids(l) \cap Ids(r) = {}
  <2> SUFFICES ASSUME NEW a \in DOMAIN l, NEW b \in DOMAIN r, l[a].id = r[b].id
               PROVE  FALSE
      BY DEF Ids
  <2>1. a \in 1..i - 1 /\ b \in 1..Len(s) - i
    BY <1>5
  <2>2. a \in DOMAIN s /\ i + b \in DOMAIN s /\ a # i + b
    BY <1>1, <2>1
  <2>3. l[a] = s[a] /\ r[b] = s[i + b]
    BY <1>3, <1>4, <2>1
  <2>4. s[a].id = s[i + b].id
    BY <2>3
  <2> QED BY <2>2, <2>4 DEF Distinct
<1>9. Ids(l) \cup Ids(r) = Ids(s) \ {s[i].id}
  <2>1. \A a \in DOMAIN l : a \in DOMAIN s /\ a # i /\ l[a] = s[a]
    BY <1>1, <1>3, <1>5
  <2>2. \A b \in DOMAIN r : i + b \in DOMAIN s /\ i + b # i /\ r[b] = s[i + b]
    BY <1>1, <1>4, <1>5
  <2>3. \A k \in DOMAIN s : k # i => \/ k \in DOMAIN l /\ l[k] = s[k]
                                     \/ k - i \in DOMAIN r /\ r[k - i] = s[k]
    <3> SUFFICES ASSUME NEW k \in DOMAIN s, k # i
                 PROVE  \/ k \in DOMAIN l /\ l[k] = s[k]
                        \/ k - i \in DOMAIN r /\ r[k - i] = s[k]
        OBVIOUS
    <3>1. k \in 1..i - 1 \/ (k - i \in 1..Len(s) - i /\ i + (k - i) = k)
      BY <1>1
    <3>2. CASE k \in 1..i - 1
      BY <1>3, <1>5, <3>2
    <3>3. CASE k - i \in 1..Len(s) - i /\ i + (k - i) = k
      <4>1. r[k - i] = s[i + (k - i)]
        BY <1>4, <3>3
      <4>2. r[k - i] = s[k]
        BY <3>3, <4>1
      <4> QED BY <1>5, <3>3, <4>2
    <3> QED BY <3>1, <3>2, <3>3
  <2>4. \A k \in DOMAIN s : s[k].id = s[i].id => k = i
    BY DEF Distinct
  <2>5. Ids(l) \cup Ids(r) \subseteq Ids(s) \ {s[i].id}
    BY <2>1, <2>2, <2>4 DEF Ids
  <2>6. Ids(s) \ {s[i].id} \subseteq Ids(l) \cup Ids(r)
    BY <2>3 DEF Ids
  <2> QED BY <2>5, <2>6
<1> QED BY <1>3, <1>4, <1>6, <1>7, <1>8, <1>9, JoinedItems DEF RemoveAt, l, r

\* A slot's item as a sequence: none, or the one.
LEMMA SlotAsSeq ==
    ASSUME NEW S, NEW item \in Items, S = {} \/ S = {item}
    PROVE  /\ SetToSeq(S) \in Seq(Items) /\ Distinct(SetToSeq(S))
           /\ Ids(SetToSeq(S)) = {x.id : x \in S}
<1>1. CASE S = {}
  <2>1. SetToSeq(S) = <<>>
    <3>1. Cardinality(S) = 0
      BY <1>1, FS_EmptySet
    <3>2. \A f \in [1..0 -> S] : f = <<>>
      OBVIOUS
    <3>3. \E f \in [1..0 -> S] : IsInjective(f)
      <4>1. <<>> \in [1..0 -> S] /\ IsInjective(<<>>)
        BY DEF IsInjective
      <4> QED BY <4>1
    <3> QED BY <3>1, <3>2, <3>3, Zenon DEF SetToSeq
  <2>2. DOMAIN <<>> = {} /\ <<>> \in Seq(Items)
    OBVIOUS
  <2>3. Distinct(<<>>)
    BY <2>2 DEF Distinct
  <2>4. Ids(<<>>) = {} /\ {x.id : x \in S} = {}
    BY <1>1, <2>2 DEF Ids
  <2> QED BY <2>1, <2>2, <2>3, <2>4
<1>2. CASE S = {item}
  <2> DEFINE f == SetToSeq(S)
  <2>1. f \in [1..1 -> S]
    <3>1. Cardinality(S) = 1
      BY <1>2, FS_Singleton
    <3>2. \E g \in [1..1 -> S] : IsInjective(g)
      <4>1. [k \in 1..1 |-> item] \in [1..1 -> S] /\ IsInjective([k \in 1..1 |-> item])
        BY <1>2 DEF IsInjective
      <4> QED BY <4>1
    <3> QED BY <3>1, <3>2, Zenon DEF SetToSeq
  <2> HIDE DEF f
  <2>2. f \in [1..1 -> Items] /\ f[1] = item /\ DOMAIN f = {1}
    BY <1>2, <2>1
  <2>3. f \in Seq(Items)
    <3>1. f \in UNION {[1..n -> Items] : n \in Nat}
      BY <2>2
    <3> QED BY <3>1, SeqDef
  <2>4. Distinct(f) /\ Ids(f) = {item.id}
    BY <2>2 DEF Distinct, Ids
  <2> QED BY <1>2, <2>3, <2>4 DEF f
<1> QED BY <1>1, <1>2

\* New items come with the next ids.
LEMMA NewItems ==
    ASSUME NEW m \in Nat, NEW n \in Nat, m + n <= MaxItems, NEW k \in [1..n -> Kinds]
    PROVE  LET s == [i \in 1..n |-> Item(m + i, k[i])]
           IN s \in Seq(Items) /\ Distinct(s) /\ Ids(s) = m + 1..m + n
<1> DEFINE s == [i \in 1..n |-> Item(m + i, k[i])]
<1>1. \A i \in 1..n : Item(m + i, k[i]) \in Items /\ Item(m + i, k[i]).id = m + i
  <2> SUFFICES ASSUME NEW i \in 1..n
               PROVE  Item(m + i, k[i]) \in Items /\ Item(m + i, k[i]).id = m + i
      OBVIOUS
  <2>1. m + i \in 1..MaxItems /\ k[i] \in Kinds
    BY SheetNumbers
  <2>2. \A id \in 1..MaxItems, kind \in Kinds : Item(id, kind) \in Items /\ Item(id, kind).id = id
    BY DEF Items, Item
  <2> QED BY <2>1, <2>2
<1>2. s \in [1..n -> Items] /\ DOMAIN s = 1..n /\ \A i \in 1..n : s[i].id = m + i
  BY <1>1
<1> HIDE DEF s
<1>3. s \in Seq(Items)
  <2>1. s \in UNION {[1..j -> Items] : j \in Nat}
    BY <1>2
  <2> QED BY <2>1, SeqDef
<1>4. Distinct(s)
  BY <1>2 DEF Distinct
<1>5. Ids(s) = m + 1..m + n
  <2>1. \A x \in m + 1..m + n : x - m \in 1..n /\ m + (x - m) = x
    OBVIOUS
  <2>2. \A i \in 1..n : m + i \in m + 1..m + n
    OBVIOUS
  <2>3. Ids(s) \subseteq m + 1..m + n
    BY <1>2, <2>2 DEF Ids
  <2>4. \A x \in m + 1..m + n : x - m \in DOMAIN s /\ s[x - m].id = x
    BY <1>2, <2>1
  <2>5. m + 1..m + n \subseteq Ids(s)
    BY <2>4 DEF Ids
  <2> QED BY <2>3, <2>5
<1> QED BY <1>3, <1>4, <1>5 DEF s

-----------------------------------------------------------------------------
(* The items.                                                              *)

\* The other of the two slots.
Other(slot) == IF slot = "hand" THEN "body" ELSE "hand"

\* What the invariant says, for a slot and the other one.
LEMMA BothSlots ==
    ASSUME ItemsInv, NEW slot \in Slots
    PROVE  /\ Slots = {slot, Other(slot)} /\ slot # Other(slot) /\ Other(slot) \in Slots
           /\ Worn(slot) \cap Worn(Other(slot)) = {}
           /\ Ids(inventory) \cap (Worn(slot) \cup Worn(Other(slot))) = {}
           /\ Ids(inventory) \cup Worn(slot) \cup Worn(Other(slot)) = (1..made) \ gone
<1>1. CASE slot = "hand"
  BY <1>1 DEF ItemsInv, IdsApart, IdsAccounted, Other, Slots
<1>2. CASE slot = "body"
  BY <1>2 DEF ItemsInv, IdsApart, IdsAccounted, Other, Slots
<1> QED BY <1>1, <1>2 DEF Slots

\* The invariant after a step, for a slot and the other one.
LEMMA BothSlotsAfter ==
    ASSUME NEW slot \in Slots, ItemsTyped', Distinct(inventory'),
           Worn(slot)' \cap Worn(Other(slot))' = {},
           Ids(inventory') \cap (Worn(slot)' \cup Worn(Other(slot))') = {},
           Ids(inventory') \cup Worn(slot)' \cup Worn(Other(slot))' = (1..made') \ gone'
    PROVE  ItemsInv'
<1>1. CASE slot = "hand"
  BY <1>1 DEF ItemsInv, IdsApart, IdsAccounted, Other, Ids, Distinct
<1>2. CASE slot = "body"
  BY <1>2 DEF ItemsInv, IdsApart, IdsAccounted, Other, Ids, Distinct
<1> QED BY <1>1, <1>2 DEF Slots

\* New items get ids no item had.
LEMMA GivenItems ==
    ASSUME ItemsInv, NEW n \in Nat, GiveItems(n), UNCHANGED <<equipment, gone>>
    PROVE  ItemsInv'
<1>1. made \in Nat /\ made + n \in Nat /\ made + n <= MaxItems /\ made' = made + n
  BY DEF ItemsInv, ItemsTyped, GiveItems
<1>2. PICK k \in [1..n -> Kinds] :
        inventory' = inventory \o [i \in 1..n |-> Item(made + i, k[i])]
  BY DEF GiveItems
<1> DEFINE s == [i \in 1..n |-> Item(made + i, k[i])]
<1>3. s \in Seq(Items) /\ Distinct(s) /\ Ids(s) = made + 1..made + n
  BY <1>1, NewItems
<1>4. inventory' = inventory \o s
  BY <1>2
<1> HIDE DEF s
<1>5. inventory \in Seq(Items) /\ Distinct(inventory) /\ gone \subseteq 1..made
  BY DEF ItemsInv, ItemsTyped, IdsApart
<1>6. (1..made) \cap (made + 1..made + n) = {} /\ 1..made + n = (1..made) \cup (made + 1..made + n)
  BY <1>1
<1>7. /\ Worn("hand") \cap Worn("body") = {}
      /\ Ids(inventory) \cap (Worn("hand") \cup Worn("body")) = {}
      /\ Ids(inventory) \cup Worn("hand") \cup Worn("body") = (1..made) \ gone
  BY DEF ItemsInv, IdsApart, IdsAccounted
<1>8. /\ inventory' \in Seq(Items) /\ Distinct(inventory')
      /\ Ids(inventory') = Ids(inventory) \cup (made + 1..made + n)
  <2>1. Ids(inventory) \cap Ids(s) = {}
    BY <1>3, <1>6, <1>7
  <2>2. /\ inventory \o s \in Seq(Items) /\ Distinct(inventory \o s)
        /\ Ids(inventory \o s) = Ids(inventory) \cup Ids(s)
    BY <1>3, <1>5, <2>1, JoinedItems
  <2> QED BY <1>3, <1>4, <2>2
<1>9. Worn("hand")' = Worn("hand") /\ Worn("body")' = Worn("body")
  BY DEF Worn
<1>10. ItemsTyped'
  <2>1. made' \in 0..MaxItems /\ gone' \subseteq 1..made'
    BY <1>1, <1>5, <1>6, SheetNumbers
  <2> QED BY <1>8, <2>1 DEF ItemsInv, ItemsTyped, SlotHolds, Fits, Wearable
<1>11. /\ Ids(inventory') \cap (Worn("hand")' \cup Worn("body")') = {}
       /\ Ids(inventory') \cup Worn("hand")' \cup Worn("body")' = (1..made') \ gone'
  BY <1>1, <1>5, <1>6, <1>7, <1>8, <1>9
<1>12. Other("hand") = "body" /\ "hand" \in Slots
  BY DEF Other, Slots
<1> QED BY <1>7, <1>8, <1>9, <1>10, <1>11, <1>12, BothSlotsAfter

\* An item that is removed or used up is gone.
LEMMA ItemGone ==
    ASSUME ItemsInv, NEW i \in DOMAIN inventory, inventory' = RemoveAt(inventory, i),
           gone' = gone \cup {inventory[i].id}, UNCHANGED <<equipment, made>>
    PROVE  ItemsInv'
<1>1. inventory \in Seq(Items) /\ Distinct(inventory)
  BY DEF ItemsInv, ItemsTyped, IdsApart
<1>2. /\ inventory' \in Seq(Items) /\ Distinct(inventory')
      /\ Ids(inventory') = Ids(inventory) \ {inventory[i].id}
  BY <1>1, ItemTakenOut
<1>3. /\ Worn("hand") \cap Worn("body") = {}
      /\ Ids(inventory) \cap (Worn("hand") \cup Worn("body")) = {}
      /\ Ids(inventory) \cup Worn("hand") \cup Worn("body") = (1..made) \ gone
  BY DEF ItemsInv, IdsApart, IdsAccounted
<1>4. inventory[i].id \in Ids(inventory)
  BY DEF Ids
<1>5. Worn("hand")' = Worn("hand") /\ Worn("body")' = Worn("body")
  BY DEF Worn
<1>6. ItemsTyped'
  <2>1. made' \in 0..MaxItems /\ gone' \subseteq 1..made'
    <3>1. inventory[i].id \in 1..made /\ gone \subseteq 1..made /\ made \in 0..MaxItems
      BY <1>3, <1>4 DEF ItemsInv, ItemsTyped
    <3> QED BY <3>1
  <2> QED BY <1>2, <2>1 DEF ItemsInv, ItemsTyped, SlotHolds, Fits, Wearable
<1>7. /\ Ids(inventory') \cap (Worn("hand")' \cup Worn("body")') = {}
      /\ Ids(inventory') \cup Worn("hand")' \cup Worn("body")' = (1..made') \ gone'
  BY <1>2, <1>3, <1>4, <1>5
<1>8. Other("hand") = "body" /\ "hand" \in Slots
  BY DEF Other, Slots
<1> QED BY <1>2, <1>3, <1>5, <1>6, <1>7, <1>8, BothSlotsAfter

\* What is worn on a slot and what was carried change places.
LEMMA Equipped ==
    ASSUME ItemsInv, NEW i \in DOMAIN inventory, Wearable(inventory[i]),
           inventory' = RemoveAt(inventory, i) \o SetToSeq(equipment[inventory[i].slot]),
           equipment' = [equipment EXCEPT ![inventory[i].slot] = {inventory[i]}],
           UNCHANGED <<made, gone>>
    PROVE  ItemsInv'
<1>1. /\ inventory \in Seq(Items) /\ Distinct(inventory) /\ inventory[i] \in Items
      /\ equipment \in [Slots -> SUBSET Items] /\ \A s \in Slots : SlotHolds(s)
  BY DEF ItemsInv, ItemsTyped, IdsApart
<1>2. PICK item \in Items, slot \in Slots :
        /\ item = inventory[i] /\ slot = item.slot /\ Fits(slot, item)
  BY <1>1 DEF Wearable, Slots, Fits
<1> DEFINE rest == RemoveAt(inventory, i)
           back == SetToSeq(equipment[slot])
<1>3. rest \in Seq(Items) /\ Distinct(rest) /\ Ids(rest) = Ids(inventory) \ {item.id}
  BY <1>1, <1>2, ItemTakenOut
<1>4. item.id \in Ids(inventory)
  BY <1>2 DEF Ids
<1>5. back \in Seq(Items) /\ Distinct(back) /\ Ids(back) = Worn(slot)
  <2>1. PICK old \in Items : equipment[slot] = {} \/ equipment[slot] = {old}
    BY <1>1, <1>2 DEF SlotHolds
  <2> HIDE DEF back
  <2>2. /\ SetToSeq(equipment[slot]) \in Seq(Items) /\ Distinct(SetToSeq(equipment[slot]))
        /\ Ids(SetToSeq(equipment[slot])) = {x.id : x \in equipment[slot]}
    BY <2>1, SlotAsSeq
  <2> QED BY <2>2 DEF back, Worn
<1>6. inventory' = rest \o back /\ equipment' = [equipment EXCEPT ![slot] = {item}]
  BY <1>2
<1> HIDE DEF rest, back
<1>7. /\ Slots = {slot, Other(slot)} /\ slot # Other(slot)
      /\ Worn(slot) \cap Worn(Other(slot)) = {}
      /\ Ids(inventory) \cap (Worn(slot) \cup Worn(Other(slot))) = {}
      /\ Ids(inventory) \cup Worn(slot) \cup Worn(Other(slot)) = (1..made) \ gone
  BY <1>2, BothSlots
<1>8. /\ inventory' \in Seq(Items) /\ Distinct(inventory')
      /\ Ids(inventory') = (Ids(inventory) \ {item.id}) \cup Worn(slot)
  BY <1>3, <1>5, <1>6, <1>7, JoinedItems
<1>9. equipment'[slot] = {item} /\ equipment'[Other(slot)] = equipment[Other(slot)]
  BY <1>1, <1>2, <1>6, <1>7
<1>10. Worn(slot)' = {item.id} /\ Worn(Other(slot))' = Worn(Other(slot))
  <2>1. {x.id : x \in equipment'[slot]} = {item.id}
    BY <1>9
  <2>2. {x.id : x \in equipment'[Other(slot)]} = {x.id : x \in equipment[Other(slot)]}
    BY <1>9
  <2> QED BY <2>1, <2>2 DEF Worn
<1>11. ItemsTyped'
  <2>1. equipment' \in [Slots -> SUBSET Items]
    BY <1>1, <1>2, <1>6
  <2>2. SlotHolds(slot)' /\ SlotHolds(Other(slot))'
    BY <1>1, <1>2, <1>7, <1>9 DEF SlotHolds
  <2>3. \A s \in Slots : SlotHolds(s)'
    BY <1>7, <2>2
  <2>4. made' \in 0..MaxItems /\ gone' \subseteq 1..made'
    BY DEF ItemsInv, ItemsTyped
  <2> QED BY <1>8, <2>1, <2>3, <2>4 DEF ItemsTyped
<1>12. /\ {item.id} \cap Worn(Other(slot)) = {}
       /\ Ids(inventory') \cap ({item.id} \cup Worn(Other(slot))) = {}
       /\ Ids(inventory') \cup {item.id} \cup Worn(Other(slot)) = (1..made) \ gone
  BY <1>4, <1>7, <1>8
<1> QED BY <1>2, <1>8, <1>10, <1>11, <1>12, BothSlotsAfter

\* What was worn goes to the end of the inventory.
LEMMA Unequipped ==
    ASSUME ItemsInv, NEW slot \in Slots, NEW item \in equipment[slot],
           inventory' = Append(inventory, item),
           equipment' = [equipment EXCEPT ![slot] = {}], UNCHANGED <<made, gone>>
    PROVE  ItemsInv'
<1>1. /\ inventory \in Seq(Items) /\ Distinct(inventory)
      /\ equipment \in [Slots -> SUBSET Items] /\ \A s \in Slots : SlotHolds(s)
      /\ item \in Items /\ equipment[slot] = {item}
  BY DEF ItemsInv, ItemsTyped, IdsApart, SlotHolds
<1>2. <<item>> \in Seq(Items) /\ Distinct(<<item>>) /\ Ids(<<item>>) = {item.id}
  BY <1>1 DEF Distinct, Ids
<1>3. inventory' = inventory \o <<item>>
  BY <1>1, AppendIsConcat
<1>4. /\ Slots = {slot, Other(slot)} /\ slot # Other(slot)
      /\ Worn(slot) \cap Worn(Other(slot)) = {}
      /\ Ids(inventory) \cap (Worn(slot) \cup Worn(Other(slot))) = {}
      /\ Ids(inventory) \cup Worn(slot) \cup Worn(Other(slot)) = (1..made) \ gone
  BY BothSlots
<1>5. Worn(slot) = {item.id}
  BY <1>1 DEF Worn
<1>6. /\ inventory' \in Seq(Items) /\ Distinct(inventory')
      /\ Ids(inventory') = Ids(inventory) \cup {item.id}
  <2>1. Ids(inventory) \cap Ids(<<item>>) = {}
    BY <1>2, <1>4, <1>5
  <2>2. /\ inventory \o <<item>> \in Seq(Items) /\ Distinct(inventory \o <<item>>)
        /\ Ids(inventory \o <<item>>) = Ids(inventory) \cup Ids(<<item>>)
    BY <1>1, <1>2, <2>1, JoinedItems
  <2> QED BY <1>2, <1>3, <2>2
<1>7. equipment'[slot] = {} /\ equipment'[Other(slot)] = equipment[Other(slot)]
  BY <1>1, <1>4
<1>8. Worn(slot)' = {} /\ Worn(Other(slot))' = Worn(Other(slot))
  BY <1>7 DEF Worn
<1>9. ItemsTyped'
  BY <1>1, <1>4, <1>6, <1>7 DEF ItemsInv, ItemsTyped, SlotHolds, Fits, Wearable
<1>10. /\ Ids(inventory') \cap Worn(Other(slot)) = {}
       /\ Ids(inventory') \cup Worn(Other(slot)) = (1..made) \ gone
  BY <1>4, <1>5, <1>6
<1> QED BY <1>6, <1>8, <1>9, <1>10, BothSlotsAfter

\* The invariant of the items says what ItemsConserved says.
LEMMA ItemsInvConserves == ItemsInv => ItemsConserved
<1> SUFFICES ASSUME ItemsInv PROVE ItemsConserved
    OBVIOUS
<1> DEFINE carried == [i \in DOMAIN inventory |-> inventory[i].id]
           worn == {item.id : item \in UNION {equipment[s] : s \in Slots}}
           full == {s \in Slots : equipment[s] # {}}
<1>1. Slots = {"hand", "body"} /\ \A s \in Slots : SlotHolds(s)
  BY DEF ItemsInv, ItemsTyped, Slots
<1>2. Range(carried) = Ids(inventory)
  BY DEF Ids, Range
<1>3. worn = Worn("hand") \cup Worn("body")
  BY <1>1 DEF Worn
<1>4. IsInjective(carried)
  BY DEF ItemsInv, IdsApart, Distinct, IsInjective
<1>5. Cardinality(worn) = Cardinality(full)
  <2>1. \A x, y : x # y => Cardinality({x, y}) = 2
    <3> SUFFICES ASSUME NEW x, NEW y, x # y PROVE Cardinality({x, y}) = 2
        OBVIOUS
    <3>1. IsFiniteSet({x}) /\ Cardinality({x}) = 1
      BY FS_Singleton
    <3>2. Cardinality({x} \cup {y}) = Cardinality({x}) + 1
      BY <3>1, FS_AddElement
    <3>3. {x} \cup {y} = {x, y}
      OBVIOUS
    <3> QED BY <3>1, <3>2, <3>3
  <2>2. CASE equipment["hand"] = {} /\ equipment["body"] = {}
    <3>1. worn = {} /\ full = {}
      BY <1>1, <1>3, <2>2 DEF Worn
    <3> QED BY <3>1
  <2>3. CASE equipment["hand"] # {} /\ equipment["body"] = {}
    <3>1. PICK item : equipment["hand"] = {item}
      BY <1>1, <2>3 DEF SlotHolds
    <3>2. worn = {item.id} /\ full = {"hand"}
      BY <1>1, <1>3, <2>3, <3>1 DEF Worn
    <3> HIDE DEF worn, full
    <3> QED BY <3>2, FS_Singleton
  <2>4. CASE equipment["hand"] = {} /\ equipment["body"] # {}
    <3>1. PICK item : equipment["body"] = {item}
      BY <1>1, <2>4 DEF SlotHolds
    <3>2. worn = {item.id} /\ full = {"body"}
      BY <1>1, <1>3, <2>4, <3>1 DEF Worn
    <3> HIDE DEF worn, full
    <3> QED BY <3>2, FS_Singleton
  <2>5. CASE equipment["hand"] # {} /\ equipment["body"] # {}
    <3>1. PICK item, other : equipment["hand"] = {item} /\ equipment["body"] = {other}
      BY <1>1, <2>5 DEF SlotHolds
    <3>2. Worn("hand") = {item.id} /\ Worn("body") = {other.id}
      BY <3>1 DEF Worn
    <3>3. item.id # other.id
      BY <3>2 DEF ItemsInv, IdsApart
    <3>4. worn = {item.id, other.id} /\ full = {"hand", "body"}
      BY <1>1, <1>3, <2>5, <3>2
    <3> HIDE DEF worn, full
    <3> QED BY <2>1, <3>3, <3>4
  <2> QED BY <2>2, <2>3, <2>4, <2>5
<1> HIDE DEF carried, worn, full
<1>6. Range(carried) \cap worn = {} /\ Range(carried) \cup worn = (1..made) \ gone
  BY <1>2, <1>3 DEF ItemsInv, IdsApart, IdsAccounted
<1> QED BY <1>4, <1>5, <1>6 DEF ItemsConserved, carried, worn, full

-----------------------------------------------------------------------------
(* The experience.                                                         *)

Levels == Len(Need)

\* g holds the running totals of the first m numbers of f.
Adds(g, f, m) == /\ g \in [0..m -> Int] /\ g[0] = 0
                 /\ \A n \in 1..m : g[n] = g[n - 1] + f[n]

\* Any numbers have running totals: the least number without one would come
\* behind a number that has one.
LEMMA AddsExist ==
    ASSUME NEW N \in Nat, NEW f, \A n \in 1..N : f[n] \in Int
    PROVE  \E g : Adds(g, f, N)
<1> DEFINE T == {m \in 0..N : ~ \E g : Adds(g, f, m)}
<1>1. ASSUME T # {} PROVE FALSE
  <2>1. PICK m \in T : \A y \in T : m <= y
    <3>1. T \subseteq Nat
      OBVIOUS
    <3> HIDE DEF T
    <3> QED BY <1>1, <3>1, LeastNumber
  <2>2. m \in 0..N /\ ~ \E g : Adds(g, f, m)
    OBVIOUS
  <2>3. CASE m = 0
    <3>1. Adds([n \in 0..0 |-> 0], f, 0)
      BY DEF Adds
    <3> QED BY <2>2, <2>3, <3>1
  <2>4. CASE m # 0
    <3>1. m - 1 \in 0..N /\ m - 1 \notin T /\ m \in 1..N
      BY <2>1, <2>2, <2>4
    <3>2. PICK g : Adds(g, f, m - 1)
      BY <3>1
    <3> HIDE DEF T
    <3> DEFINE h == [n \in 0..m |-> IF n = m THEN g[m - 1] + f[m] ELSE g[n]]
    <3>3. \A n \in 0..m - 1 : g[n] \in Int
      BY <3>2 DEF Adds
    <3>4. g[m - 1] + f[m] \in Int
      BY <3>1, <3>3
    <3>5. h \in [0..m -> Int]
      <4> SUFFICES ASSUME NEW n \in 0..m, n # m PROVE g[n] \in Int
          BY <3>4
      <4>1. n \in 0..m - 1
        BY <3>1
      <4> QED BY <3>3, <4>1
    <3>6. h[0] = 0
      BY <3>1, <3>2 DEF Adds
    <3>7. \A n \in 1..m : h[n] = h[n - 1] + f[n]
      <4> SUFFICES ASSUME NEW n \in 1..m PROVE h[n] = h[n - 1] + f[n]
          OBVIOUS
      <4>1. n - 1 \in 0..m /\ n \in 0..m /\ n - 1 # m
        BY <3>1
      <4>2. h[n - 1] = g[n - 1]
        BY <4>1
      <4>3. CASE n = m
        BY <4>1, <4>2, <4>3
      <4>4. CASE n # m
        <5>1. n \in 1..m - 1
          BY <3>1, <4>4
        <5>2. g[n] = g[n - 1] + f[n]
          BY <3>2, <5>1 DEF Adds
        <5> QED BY <4>1, <4>2, <4>4, <5>2
      <4> QED BY <4>3, <4>4
    <3> HIDE DEF h
    <3>8. Adds(h, f, m)
      BY <3>5, <3>6, <3>7 DEF Adds
    <3> QED BY <2>2, <3>8
  <2> QED BY <2>3, <2>4
<1>2. N \notin T /\ N \in 0..N
  BY <1>1
<1> QED BY <1>2

\* Running totals of the table, g as far as m.
Sums(g, m) == /\ g \in [0..m -> Nat] /\ g[0] = 0
              /\ \A n \in 1..m : g[n] = g[n - 1] + Need[n]

\* Total is the running total of the table.
LEMMA TotalSums == Sums(Total, Levels)
<1>1. Levels \in Nat
  BY SheetNumbers DEF Levels
<1>2. PICK g : Adds(g, Need, Levels)
  <2>1. \A n \in 1..Levels : Need[n] \in Int
    BY SheetNumbers DEF Levels
  <2> QED BY <1>1, <2>1, AddsExist
<1> DEFINE Step(f) == [n \in 0..Levels |-> IF n = 0 THEN 0 ELSE f[n - 1] + Need[n]]
<1>3. g = Step(g)
  <2>1. \A n \in 0..Levels : g[n] = IF n = 0 THEN 0 ELSE g[n - 1] + Need[n]
    <3> SUFFICES ASSUME NEW n \in 0..Levels, n # 0 PROVE g[n] = g[n - 1] + Need[n]
        BY <1>2 DEF Adds
    <3>1. n \in 1..Levels
      BY <1>1
    <3> QED BY <1>2, <3>1 DEF Adds
  <2>2. g \in [0..Levels -> Int]
    BY <1>2 DEF Adds
  <2> QED BY <2>1, <2>2
<1>4. Total = CHOOSE f : f = Step(f)
  BY DEF Total, Levels
<1>5. Total = Step(Total)
  <2> HIDE DEF Step
  <2> QED BY <1>3, <1>4
<1>6. /\ DOMAIN Total = 0..Levels /\ Total = [n \in 0..Levels |-> Total[n]]
      /\ \A n \in 0..Levels : Total[n] = IF n = 0 THEN 0 ELSE Total[n - 1] + Need[n]
  BY <1>5
<1>7. Total[0] = 0 /\ \A n \in 1..Levels : Total[n] = Total[n - 1] + Need[n]
  <2>1. 0 \in 0..Levels /\ \A n \in 1..Levels : n \in 0..Levels /\ n # 0
    BY <1>1
  <2> QED BY <1>6, <2>1
<1>8. \A n \in 0..Levels : Total[n] \in Nat
  <2> DEFINE T == {n \in 0..Levels : Total[n] \notin Nat}
  <2> SUFFICES ASSUME T # {} PROVE FALSE
      OBVIOUS
  <2>1. PICK n \in T : \A y \in T : n <= y
    <3>1. T \subseteq Nat
      BY <1>1
    <3> HIDE DEF T
    <3> QED BY <3>1, LeastNumber
  <2>2. n \in 1..Levels /\ n - 1 \in 0..Levels /\ n - 1 \notin T
    BY <1>1, <1>7, <2>1
  <2>3. Total[n] = Total[n - 1] + Need[n] /\ Total[n - 1] \in Nat /\ Need[n] \in Nat
    BY <1>7, <2>2, SheetNumbers DEF Levels
  <2> QED BY <2>3
<1> QED BY <1>6, <1>7, <1>8 DEF Sums

\* The total of n levels is at least n, as each costs something.
LEMMA TotalGrows == \A n \in 0..Levels : Total[n] >= n
<1>1. Levels \in Nat
  BY SheetNumbers DEF Levels
<1> DEFINE T == {n \in 0..Levels : ~(Total[n] >= n)}
<1> SUFFICES ASSUME T # {} PROVE FALSE
    OBVIOUS
<1>2. PICK n \in T : \A y \in T : n <= y
  <2>1. T \subseteq Nat
    BY <1>1
  <2> HIDE DEF T
  <2> QED BY <2>1, LeastNumber
<1>3. n \in 1..Levels /\ n - 1 \in 0..Levels /\ n - 1 \notin T
  BY <1>1, <1>2, TotalSums DEF Sums
<1>4. /\ Total[n] = Total[n - 1] + Need[n] /\ Total[n - 1] >= n - 1
      /\ Total[n - 1] \in Nat /\ Need[n] \in Nat /\ Need[n] >= 1
  BY <1>3, TotalSums, SheetNumbers DEF Sums, Levels
<1> QED BY <1>1, <1>3, <1>4

\* Whether the experience falls short of the k-th level from here or is enough.
Short(level, xp, k) == xp - Cost(level, k) < Need[level + k]
Enough(level, xp, k) == xp - Cost(level, k) >= Need[level + k]
First(level, xp, k) == Short(level, xp, k) /\ \A j \in 0..k - 1 : Enough(level, xp, j)

\* There is a first level that the experience does not pay for.
LEMMA FirstShort ==
    ASSUME NEW level \in 1..Levels, NEW xp \in Nat, Total[level - 1] + xp <= MaxEarned
    PROVE  \E k \in 0..Levels - level : First(level, xp, k)
<1>1. Levels \in Nat /\ MaxEarned \in Nat /\ Levels > MaxEarned
  BY SheetNumbers DEF Levels
<1>2. \A k \in 0..Levels - level : /\ level + k - 1 \in 0..Levels /\ level + k \in 1..Levels
                                   /\ level - 1 \in 0..Levels
  BY <1>1
<1>3. \A k \in 0..Levels - level : Cost(level, k) \in Int /\ Need[level + k] \in Nat
  <2> SUFFICES ASSUME NEW k \in 0..Levels - level
               PROVE  Cost(level, k) \in Int /\ Need[level + k] \in Nat
      OBVIOUS
  <2>1. Total[level + k - 1] \in Nat /\ Total[level - 1] \in Nat
    BY <1>2, TotalSums DEF Sums
  <2>2. Need[level + k] \in Nat
    BY <1>2, SheetNumbers DEF Levels
  <2> QED BY <2>1, <2>2 DEF Cost
<1>4. \A k \in 0..Levels - level : Short(level, xp, k) \/ Enough(level, xp, k)
  BY <1>3 DEF Short, Enough
<1>5. Levels - level \in 0..Levels - level /\ Short(level, xp, Levels - level)
  <2>1. level + (Levels - level) = Levels /\ Levels \in 1..Levels /\ Levels - 1 \in 0..Levels
        /\ level - 1 \in 0..Levels /\ Levels \in 0..Levels
    BY <1>1
  <2>2. /\ Total[Levels] = Total[Levels - 1] + Need[Levels] /\ Total[Levels] >= Levels
        /\ Total[Levels] \in Nat /\ Total[Levels - 1] \in Nat /\ Total[level - 1] \in Nat
        /\ Need[Levels] \in Nat
    BY <2>1, TotalSums, TotalGrows, SheetNumbers DEF Sums, Levels
  <2>3. Cost(level, Levels - level) = Total[Levels - 1] - Total[level - 1]
    BY <2>1 DEF Cost
  <2>4. xp - Cost(level, Levels - level) < Need[Levels]
    BY <1>1, <2>2, <2>3
  <2> QED BY <1>1, <2>1, <2>4 DEF Short
<1> DEFINE T == {k \in 0..Levels - level : Short(level, xp, k)}
<1>6. T # {} /\ T \subseteq Nat
  BY <1>1, <1>5
<1>7. PICK k \in T : \A y \in T : k <= y
  <2> HIDE DEF T
  <2> QED BY <1>6, LeastNumber
<1>8. \A j \in 0..k - 1 : j \in 0..Levels - level /\ j \notin T
  BY <1>1, <1>7
<1>9. First(level, xp, k)
  BY <1>4, <1>8 DEF First
<1> QED BY <1>9

\* Before the first level that is not paid for nothing is owed.
LEMMA FirstShortIsPaid ==
    ASSUME NEW level \in 1..Levels, NEW xp \in Nat, NEW n \in 0..Levels - level,
           First(level, xp, n)
    PROVE  xp - Cost(level, n) \in Nat
<1>1. Levels \in Nat
  BY SheetNumbers DEF Levels
<1>2. level - 1 \in 0..Levels /\ Total[level - 1] \in Nat
  BY <1>1, TotalSums DEF Sums
<1>3. CASE n = 0
  <2>1. Cost(level, n) = 0
    BY <1>2, <1>3 DEF Cost
  <2> QED BY <2>1
<1>4. CASE n # 0
  <2>1. n - 1 \in 0..n - 1 /\ n - 1 \in 0..Levels - level
    BY <1>1, <1>4
  <2>2. xp - Cost(level, n - 1) >= Need[level + (n - 1)]
    BY <2>1 DEF Enough, First
  <2>3. /\ level + n - 1 \in 1..Levels /\ level + (n - 1) = level + n - 1
        /\ level + (n - 1) - 1 = (level + n - 1) - 1
    BY <1>1, <1>4
  <2>4. Total[level + n - 1] = Total[(level + n - 1) - 1] + Need[level + n - 1]
    BY <2>3, TotalSums DEF Sums
  <2>5. /\ Total[level + n - 1] \in Nat /\ Total[(level + n - 1) - 1] \in Nat
        /\ Total[level - 1] \in Nat /\ Need[level + n - 1] \in Nat
    <3>1. /\ level + n - 1 \in 0..Levels /\ (level + n - 1) - 1 \in 0..Levels
          /\ level - 1 \in 0..Levels
      BY <1>1, <2>3
    <3> QED BY <2>3, <3>1, TotalSums, SheetNumbers DEF Sums, Levels
  <2>6. /\ Cost(level, n - 1) = Total[(level + n - 1) - 1] - Total[level - 1]
        /\ Cost(level, n) = Total[level + n - 1] - Total[level - 1]
    BY <2>3 DEF Cost
  <2>7. xp - (Total[(level + n - 1) - 1] - Total[level - 1]) >= Need[level + n - 1]
    BY <2>2, <2>3, <2>6
  <2> QED BY <2>4, <2>5, <2>6, <2>7
<1> QED BY <1>3, <1>4

\* A character whose experience and points are accounted for, with e experience
\* given and s points spent in all.
Accounted(p, e, s) ==
    /\ p \in Players /\ p.hp <= p.maxHp /\ p.energy <= p.maxEnergy
    /\ e = Total[p.level - 1] + p.xp
    /\ p.points + s = PointsPerLevel * (p.level - 1)

\* A level-up keeps the accounts, and no experience is left that pays for a level.
LEMMA LevelledIsPaid ==
    ASSUME NEW p, NEW e \in 0..MaxEarned, NEW s \in Nat, Accounted(p, e, s)
    PROVE  Accounted(Levelled(p), e, s) /\ Levelled(p).xp < Need[Levelled(p).level]
<1>1. /\ Levels \in Nat /\ HpPerLevel \in Nat /\ EnergyPerLevel \in Nat /\ PointsPerLevel \in Nat
      /\ MaxEarned \in Nat
  BY SheetNumbers DEF Levels
<1>2. /\ p \in Players /\ p.level \in 1..Levels /\ p.xp \in Nat /\ p.hp \in Nat /\ p.maxHp \in Nat
      /\ p.energy \in Nat /\ p.maxEnergy \in Nat /\ p.points \in Nat
      /\ p.hp <= p.maxHp /\ p.energy <= p.maxEnergy
      /\ Total[p.level - 1] + p.xp = e
      /\ p.points + s = PointsPerLevel * (p.level - 1)
  BY DEF Accounted, Players, Levels
<1> DEFINE n == CHOOSE k \in 0..Levels - p.level : First(p.level, p.xp, k)
           q == [p EXCEPT !.level = @ + n, !.xp = @ - Cost(p.level, n),
                          !.hp = @ + n * HpPerLevel, !.maxHp = @ + n * HpPerLevel,
                          !.energy = @ + n * EnergyPerLevel, !.maxEnergy = @ + n * EnergyPerLevel,
                          !.points = @ + n * PointsPerLevel]
<1>3. Levelled(p) = q
  BY DEF Levelled, First, Short, Enough, Levels
<1>4. n \in 0..Levels - p.level /\ First(p.level, p.xp, n)
  <2>1. \E k \in 0..Levels - p.level : First(p.level, p.xp, k)
    BY <1>2, FirstShort
  <2> QED BY <2>1
<1> HIDE DEF n
<1>5. p.xp - Cost(p.level, n) \in Nat /\ p.xp - Cost(p.level, n) < Need[p.level + n]
  BY <1>2, <1>4, FirstShortIsPaid DEF First, Short
<1>6. n \in Nat /\ n <= Levels - p.level
  BY <1>1, <1>2, <1>4
<1>7. n * HpPerLevel \in Nat /\ n * EnergyPerLevel \in Nat /\ n * PointsPerLevel \in Nat
  BY <1>1, <1>6
<1>8. /\ q.level = p.level + n /\ q.xp = p.xp - Cost(p.level, n)
      /\ q.hp = p.hp + n * HpPerLevel /\ q.maxHp = p.maxHp + n * HpPerLevel
      /\ q.energy = p.energy + n * EnergyPerLevel /\ q.maxEnergy = p.maxEnergy + n * EnergyPerLevel
      /\ q.points = p.points + n * PointsPerLevel
  BY <1>2 DEF Players
<1>9. q \in Players
  <2>1. p.level + n \in 1..Levels
    BY <1>1, <1>2, <1>6
  <2>2. \A l \in 1..Levels, x, h, mh, g, mg, o \in Nat :
            [p EXCEPT !.level = l, !.xp = x, !.hp = h, !.maxHp = mh, !.energy = g,
                      !.maxEnergy = mg, !.points = o] \in Players
    BY <1>2 DEF Players, Levels
  <2>3. /\ p.hp + n * HpPerLevel \in Nat /\ p.maxHp + n * HpPerLevel \in Nat
        /\ p.energy + n * EnergyPerLevel \in Nat /\ p.maxEnergy + n * EnergyPerLevel \in Nat
        /\ p.points + n * PointsPerLevel \in Nat
    BY <1>2, <1>7
  <2> QED BY <1>5, <2>1, <2>2, <2>3
<1>10. q.hp <= q.maxHp /\ q.energy <= q.maxEnergy
  BY <1>2, <1>7, <1>8
<1> HIDE DEF q
<1>11. e = Total[q.level - 1] + q.xp
  <2>1. (p.level + n) - 1 \in 0..Levels /\ p.level - 1 \in 0..Levels
    BY <1>1, <1>2, <1>6
  <2>2. Total[(p.level + n) - 1] \in Nat /\ Total[p.level - 1] \in Nat
    BY <2>1, TotalSums DEF Sums
  <2>3. Cost(p.level, n) = Total[(p.level + n) - 1] - Total[p.level - 1]
    <3>1. p.level + n - 1 = (p.level + n) - 1
      <4>1. p.level \in Int /\ n \in Int
        BY <1>1, <1>2, <1>6
      <4>2. \A a, b \in Int : a + b - 1 = (a + b) - 1
        OBVIOUS
      <4> QED BY <4>1, <4>2
    <3> QED BY <3>1 DEF Cost
  <2>4. q.level - 1 = (p.level + n) - 1
    BY <1>8
  <2> QED BY <1>2, <1>8, <2>2, <2>3, <2>4
<1>12. q.points + s = PointsPerLevel * (q.level - 1)
  <2>1. \A a, b, c \in Nat : c * ((a + b) - 1) = c * (a - 1) + b * c
    OBVIOUS
  <2>2. PointsPerLevel * ((p.level + n) - 1) = PointsPerLevel * (p.level - 1) + n * PointsPerLevel
    BY <1>1, <1>2, <1>6, <2>1
  <2> DEFINE x == PointsPerLevel * ((p.level + n) - 1)
             y == PointsPerLevel * (p.level - 1)
             z == n * PointsPerLevel
  <2>3. x = y + z /\ p.points + s = y /\ q.points = p.points + z /\ z \in Nat
    BY <1>2, <1>7, <1>8, <2>2
  <2>4. PointsPerLevel * (q.level - 1) = x
    BY <1>8
  <2> HIDE DEF x, y, z
  <2>5. q.points + s = x
    BY <1>2, <2>3
  <2> QED BY <2>4, <2>5
<1> QED BY <1>3, <1>5, <1>8, <1>9, <1>10, <1>11, <1>12 DEF Accounted

\* The least and the greatest of two numbers.
LEMMA TwoNumbers ==
    ASSUME NEW a \in Int, NEW b \in Int
    PROVE  /\ Min({a, b}) \in {a, b} /\ Min({a, b}) <= a /\ Min({a, b}) <= b
           /\ Max({a, b}) \in {a, b} /\ Max({a, b}) >= a /\ Max({a, b}) >= b
<1>1. \E x \in {a, b} : \A y \in {a, b} : x <= y
  OBVIOUS
<1>2. \E x \in {a, b} : \A y \in {a, b} : x >= y
  OBVIOUS
<1>3. Min({a, b}) \in {a, b} /\ \A y \in {a, b} : Min({a, b}) <= y
  BY <1>1 DEF Min
<1>4. Max({a, b}) \in {a, b} /\ \A y \in {a, b} : Max({a, b}) >= y
  BY <1>2 DEF Max
<1> QED BY <1>3, <1>4

\* A number clamped to a range is in it.
LEMMA Clamped ==
    ASSUME NEW x \in Int, NEW high \in Nat
    PROVE  Clamp(x, 0, high) \in 0..high
<1>1. Min({high, x}) \in Int /\ Min({high, x}) <= high
  BY TwoNumbers
<1>2. \A m \in Int : Max({0, m}) \in {0, m} /\ Max({0, m}) >= 0
  BY TwoNumbers
<1> QED BY <1>1, <1>2 DEF Clamp

\* Experience that is given keeps the accounts.
LEMMA GivenIsPaid ==
    ASSUME NEW p, NEW e \in Nat, NEW s \in Nat, NEW xp \in Nat, e + xp <= MaxEarned,
           Accounted(p, e, s), p.xp < Need[p.level]
    PROVE  /\ Accounted(Given(p, xp), e + xp, s)
           /\ Given(p, xp).xp < Need[Given(p, xp).level]
<1>1. CASE xp > 0
  <2> DEFINE q == [p EXCEPT !.xp = @ + xp]
  <2>1. /\ p \in Players /\ p.level \in 1..Levels /\ p.xp \in Nat /\ p.hp <= p.maxHp
        /\ p.energy <= p.maxEnergy /\ e = Total[p.level - 1] + p.xp
        /\ p.points + s = PointsPerLevel * (p.level - 1)
    BY DEF Accounted, Players, Levels
  <2>2. q \in Players
    <3>1. \A x \in Nat : [p EXCEPT !.xp = x] \in Players
      BY <2>1 DEF Players
    <3>2. p.xp + xp \in Nat
      BY <2>1
    <3> QED BY <3>1, <3>2
  <2>3. /\ q.level = p.level /\ q.xp = p.xp + xp /\ q.hp = p.hp /\ q.maxHp = p.maxHp
        /\ q.energy = p.energy /\ q.maxEnergy = p.maxEnergy /\ q.points = p.points
    BY <2>1 DEF Players
  <2> HIDE DEF q
  <2>4. Total[p.level - 1] \in Nat
    <3>1. p.level - 1 \in 0..Levels
      <4>1. Levels \in Nat
        BY SheetNumbers DEF Levels
      <4> QED BY <2>1, <4>1
    <3> QED BY <3>1, TotalSums DEF Sums
  <2>5. e + xp = Total[q.level - 1] + q.xp
    BY <2>1, <2>3, <2>4
  <2>6. Accounted(q, e + xp, s)
    BY <2>1, <2>2, <2>3, <2>5 DEF Accounted
  <2>7. e + xp \in 0..MaxEarned
    BY SheetNumbers
  <2>8. Accounted(Levelled(q), e + xp, s) /\ Levelled(q).xp < Need[Levelled(q).level]
    BY <2>6, <2>7, LevelledIsPaid
  <2> QED BY <1>1, <2>8 DEF Given, q
<1>2. CASE ~(xp > 0)
  <2>1. xp = 0 /\ e + xp = e
    BY <1>2
  <2> QED BY <1>2, <2>1 DEF Given
<1> QED BY <1>1, <1>2

\* Changes of hp and energy keep the accounts.
LEMMA ChangedIsPaid ==
    ASSUME NEW p, NEW e, NEW s, NEW hp \in Int, NEW energy \in Int, Accounted(p, e, s)
    PROVE  /\ Accounted(Changed(p, hp, energy), e, s)
           /\ Changed(p, hp, energy).level = p.level /\ Changed(p, hp, energy).xp = p.xp
<1>1. /\ p \in Players /\ p.hp \in Nat /\ p.maxHp \in Nat /\ p.energy \in Nat /\ p.maxEnergy \in Nat
  BY DEF Accounted, Players
<1>2. PICK h \in 0..p.maxHp : h = Clamp(p.hp + hp, 0, p.maxHp)
  <2>1. p.hp + hp \in Int
    BY <1>1
  <2>2. Clamp(p.hp + hp, 0, p.maxHp) \in 0..p.maxHp
    BY <1>1, <2>1, Clamped
  <2> QED BY <2>2
<1>3. PICK g \in 0..p.maxEnergy : g = Clamp(p.energy + energy, 0, p.maxEnergy)
  <2>1. p.energy + energy \in Int
    BY <1>1
  <2>2. Clamp(p.energy + energy, 0, p.maxEnergy) \in 0..p.maxEnergy
    BY <1>1, <2>1, Clamped
  <2> QED BY <2>2
<1> DEFINE q == [p EXCEPT !.hp = h, !.energy = g]
<1>4. Changed(p, hp, energy) = q
  BY <1>2, <1>3 DEF Changed
<1>5. q \in Players
  <2>1. \A a, b \in Nat : [p EXCEPT !.hp = a, !.energy = b] \in Players
    BY <1>1 DEF Players
  <2>2. h \in Nat /\ g \in Nat
    BY <1>1
  <2> QED BY <2>1, <2>2
<1>6. /\ q.level = p.level /\ q.xp = p.xp /\ q.points = p.points
      /\ q.hp = h /\ q.maxHp = p.maxHp /\ q.energy = g /\ q.maxEnergy = p.maxEnergy
  BY <1>1 DEF Players
<1> HIDE DEF q
<1>7. q.hp <= q.maxHp /\ q.energy <= q.maxEnergy
  BY <1>1, <1>6
<1> QED BY <1>4, <1>5, <1>6, <1>7 DEF Accounted

\* The accounts and the invariant say the same.
LEMMA SheetIsAccounted ==
    /\ SheetInv <=> /\ ItemsInv /\ earned \in 0..MaxEarned /\ spent \in Nat
                    /\ Accounted(player, earned, spent) /\ player.xp < Need[player.level]
    /\ SheetInv' <=> /\ ItemsInv' /\ earned' \in 0..MaxEarned /\ spent' \in Nat
                     /\ Accounted(player', earned', spent') /\ player'.xp < Need[player'.level]
<1>1. \A p \in Players : Cost(1, p.level - 1) = Total[p.level - 1]
  <2> SUFFICES ASSUME NEW p \in Players PROVE Cost(1, p.level - 1) = Total[p.level - 1]
      OBVIOUS
  <2>1. p.level - 1 \in 0..Levels /\ 1 + (p.level - 1) - 1 = p.level - 1
    BY SheetNumbers DEF Players, Levels
  <2>2. Total[p.level - 1] \in Nat /\ Total[0] = 0
    BY <2>1, TotalSums DEF Sums
  <2>3. Cost(1, p.level - 1) = Total[p.level - 1] - Total[1 - 1]
    BY <2>1 DEF Cost
  <2>4. 1 - 1 = 0
    OBVIOUS
  <2> QED BY <2>2, <2>3, <2>4
<1>2. SheetInv <=> /\ ItemsInv /\ earned \in 0..MaxEarned /\ spent \in Nat
                   /\ Accounted(player, earned, spent) /\ player.xp < Need[player.level]
  BY <1>1, Zenon DEF SheetInv, PlayerTyped, LevelsPaidFor, Accounted
<1>3. SheetInv' <=> /\ ItemsInv' /\ earned' \in 0..MaxEarned /\ spent' \in Nat
                    /\ Accounted(player', earned', spent') /\ player'.xp < Need[player'.level]
  BY <1>1, Zenon DEF SheetInv, PlayerTyped, LevelsPaidFor, Accounted
<1> QED BY <1>2, <1>3

-----------------------------------------------------------------------------
(* The theorems.                                                           *)

\* A new character carries nothing and has paid for nothing.
LEMMA InitSheet == Init => SheetInv
<1> SUFFICES ASSUME Init PROVE SheetInv
    OBVIOUS
<1>1. /\ Levels \in Nat /\ 1 \in 1..Levels /\ Need[1] \in Nat /\ Need[1] >= 1 /\ MaxEarned \in Nat
      /\ MaxItems \in Nat /\ StartHp \in Nat /\ StartEnergy \in Nat /\ PointsPerLevel \in Nat
  BY SheetNumbers DEF Levels
<1>2. ItemsInv
  <2>1. inventory = <<>> /\ DOMAIN inventory = {} /\ made = 0 /\ gone = {} /\ 1..0 = {}
    BY DEF Init
  <2>2. equipment = [s \in Slots |-> {}] /\ equipment["hand"] = {} /\ equipment["body"] = {}
    BY DEF Init, Slots
  <2>3. ItemsTyped
    BY <1>1, <2>1, <2>2 DEF ItemsTyped, SlotHolds
  <2>4. Ids(inventory) = {} /\ Worn("hand") = {} /\ Worn("body") = {} /\ Distinct(inventory)
    BY <2>1, <2>2 DEF Ids, Worn, Distinct
  <2> QED BY <2>1, <2>3, <2>4 DEF ItemsInv, IdsApart, IdsAccounted
<1>3. Accounted(player, earned, spent) /\ player.xp < Need[player.level]
  <2>1. player = [level |-> 1, xp |-> 0, hp |-> StartHp, maxHp |-> StartHp,
                  energy |-> StartEnergy, maxEnergy |-> StartEnergy, points |-> 0]
        /\ earned = 0 /\ spent = 0
    BY DEF Init
  <2>2. player \in Players
    BY <1>1, <2>1 DEF Players, Levels
  <2>3. Total[0] = 0 /\ PointsPerLevel * 0 = 0
    BY <1>1, TotalSums DEF Sums
  <2>4. player.hp <= player.maxHp /\ player.energy <= player.maxEnergy
    BY <1>1, <2>1
  <2>5. 0 = Total[player.level - 1] + player.xp /\ player.points + 0 = PointsPerLevel * (player.level - 1)
    BY <2>1, <2>3
  <2> QED BY <1>1, <2>1, <2>2, <2>4, <2>5 DEF Accounted
<1>4. earned \in 0..MaxEarned /\ spent \in Nat
  BY <1>1 DEF Init
<1> QED BY <1>2, <1>3, <1>4, SheetIsAccounted

\* Every operation keeps the invariant of the items.
LEMMA ItemsStep == ItemsInv /\ [Next]_vars => ItemsInv'
<1> SUFFICES ASSUME ItemsInv, [Next]_vars PROVE ItemsInv'
    OBVIOUS
<1>1. CASE AddItem
  BY <1>1, GivenItems DEF AddItem
<1>2. CASE RemoveItem
  <2>1. PICK id \in 1..made, i \in DOMAIN inventory :
          /\ IsAt(id, i)
          /\ inventory' = RemoveAt(inventory, i) /\ gone' = gone \cup {id}
    BY <1>2 DEF RemoveItem
  <2>2. gone' = gone \cup {inventory[i].id} /\ UNCHANGED <<equipment, made>>
    BY <1>2, <2>1 DEF IsAt, RemoveItem
  <2> QED BY <2>1, <2>2, ItemGone
<1>3. CASE EquipItem
  BY <1>3, Equipped DEF EquipItem
<1>4. CASE UnequipSlot
  BY <1>4, Unequipped DEF UnequipSlot
<1>5. CASE ConsumeItem
  <2>1. PICK id \in 1..made, i \in DOMAIN inventory :
          /\ IsAt(id, i)
          /\ inventory' = RemoveAt(inventory, i) /\ gone' = gone \cup {id}
    BY <1>5 DEF ConsumeItem
  <2>2. gone' = gone \cup {inventory[i].id} /\ UNCHANGED <<equipment, made>>
    BY <1>5, <2>1 DEF IsAt, ConsumeItem
  <2> QED BY <2>1, <2>2, ItemGone
<1>6. CASE RewardFight
  <2>1. PICK loot \in 0..2 : GiveItems(loot)
    BY <1>6 DEF RewardFight
  <2>2. UNCHANGED <<equipment, gone>> /\ loot \in Nat
    BY <1>6 DEF RewardFight
  <2> QED BY <2>1, <2>2, GivenItems
<1>7. CASE UNCHANGED itemVars
  <2>1. inventory' = inventory /\ equipment' = equipment /\ made' = made /\ gone' = gone
    BY <1>7 DEF itemVars
  <2>2. ItemsTyped'
    BY <2>1 DEF ItemsInv, ItemsTyped, SlotHolds
  <2>3. Ids(inventory') = Ids(inventory) /\ Distinct(inventory') = Distinct(inventory)
    BY <2>1
  <2>4. Worn("hand")' = Worn("hand") /\ Worn("body")' = Worn("body")
    BY <2>1 DEF Worn
  <2>5. IdsApart' /\ IdsAccounted'
    BY <2>1, <2>3, <2>4 DEF ItemsInv, IdsApart, IdsAccounted
  <2> QED BY <2>2, <2>5 DEF ItemsInv
<1> QED BY <1>1, <1>2, <1>3, <1>4, <1>5, <1>6, <1>7
        DEF Next, vars, ApplyStatChanges, AllocateAttribute

\* What the accounts are after a step.
PaidAfter ==
    /\ earned' \in 0..MaxEarned /\ spent' \in Nat
    /\ Accounted(player', earned', spent') /\ player'.xp < Need[player'.level]

\* Every operation keeps the accounts.
LEMMA PaidStep == SheetInv /\ [Next]_vars => PaidAfter
<1> SUFFICES ASSUME SheetInv, [Next]_vars PROVE PaidAfter
    OBVIOUS
<1>1. /\ earned \in 0..MaxEarned /\ spent \in Nat /\ ItemsInv
      /\ Accounted(player, earned, spent) /\ player.xp < Need[player.level]
  BY SheetIsAccounted
<1>2. MaxEarned \in Nat /\ earned \in Nat /\ Changes \subseteq Int /\ Potion \in Nat
  BY <1>1, SheetNumbers, SheetAssumption
<1>3. /\ player \in Players /\ player.hp \in Nat /\ player.maxHp \in Nat /\ player.energy \in Nat
      /\ player.maxEnergy \in Nat /\ player.points \in Nat
  BY <1>1 DEF Accounted, Players
<1>4. CASE UNCHANGED <<player, earned, spent>>
  BY <1>1, <1>4 DEF PaidAfter
<1>5. CASE ConsumeItem
  <2>1. \A a \in Nat : /\ [player EXCEPT !.hp = a] \in Players
                       /\ [player EXCEPT !.energy = a] \in Players
    BY <1>3 DEF Players
  <2>2. \A a, b \in Nat : Min({a, b + Potion}) \in Nat /\ Min({a, b + Potion}) <= a
    <3> SUFFICES ASSUME NEW a \in Nat, NEW b \in Nat
                 PROVE  Min({a, b + Potion}) \in Nat /\ Min({a, b + Potion}) <= a
        OBVIOUS
    <3>1. PICK c \in Nat : c = b + Potion
      BY <1>2
    <3>2. Min({a, c}) \in {a, c} /\ Min({a, c}) <= a
      BY TwoNumbers
    <3> QED BY <3>1, <3>2
  <2>3. \/ player' = [player EXCEPT !.hp = Min({player.maxHp, @ + Potion})]
        \/ player' = [player EXCEPT !.energy = Min({player.maxEnergy, @ + Potion})]
    BY <1>5 DEF ConsumeItem
  <2>4. earned' = earned /\ spent' = spent
    BY <1>5 DEF ConsumeItem
  <2>5. CASE player' = [player EXCEPT !.hp = Min({player.maxHp, @ + Potion})]
    <3>1. PICK a \in Nat : a = Min({player.maxHp, player.hp + Potion}) /\ a <= player.maxHp
      BY <1>3, <2>2
    <3>2. player' = [player EXCEPT !.hp = a]
      BY <2>5, <3>1
    <3>3. /\ player'.level = player.level /\ player'.xp = player.xp /\ player'.hp = a
          /\ player'.maxHp = player.maxHp /\ player'.energy = player.energy
          /\ player'.maxEnergy = player.maxEnergy /\ player'.points = player.points
          /\ player' \in Players
      BY <1>3, <2>1, <3>2 DEF Players
    <3> QED BY <1>1, <2>4, <3>1, <3>3 DEF PaidAfter, Accounted
  <2>6. CASE player' = [player EXCEPT !.energy = Min({player.maxEnergy, @ + Potion})]
    <3>1. PICK a \in Nat : a = Min({player.maxEnergy, player.energy + Potion})
                           /\ a <= player.maxEnergy
      BY <1>3, <2>2
    <3>2. player' = [player EXCEPT !.energy = a]
      BY <2>6, <3>1
    <3>3. /\ player'.level = player.level /\ player'.xp = player.xp /\ player'.hp = player.hp
          /\ player'.maxHp = player.maxHp /\ player'.energy = a
          /\ player'.maxEnergy = player.maxEnergy /\ player'.points = player.points
          /\ player' \in Players
      BY <1>3, <2>1, <3>2 DEF Players
    <3> QED BY <1>1, <2>4, <3>1, <3>3 DEF PaidAfter, Accounted
  <2> QED BY <2>3, <2>5, <2>6
<1>6. CASE ApplyStatChanges
  <2>1. PICK hp \in Changes, energy \in Changes, xp \in 0..MaxEarned - earned :
          player' = Given(Changed(player, hp, energy), xp) /\ earned' = earned + xp
    BY <1>6 DEF ApplyStatChanges
  <2>2. spent' = spent
    BY <1>6 DEF ApplyStatChanges
  <2>3. xp \in Nat /\ earned + xp <= MaxEarned /\ hp \in Int /\ energy \in Int
    BY <1>2
  <2>4. PICK p : p = Changed(player, hp, energy)
    OBVIOUS
  <2>5. Accounted(p, earned, spent) /\ p.level = player.level /\ p.xp = player.xp
    BY <1>1, <2>3, <2>4, ChangedIsPaid
  <2>6. p.xp < Need[p.level]
    BY <1>1, <2>5
  <2>7. /\ Accounted(Given(p, xp), earned + xp, spent)
        /\ Given(p, xp).xp < Need[Given(p, xp).level]
    BY <1>1, <1>2, <2>3, <2>5, <2>6, GivenIsPaid
  <2> QED BY <1>1, <1>2, <2>1, <2>2, <2>3, <2>4, <2>7 DEF PaidAfter
<1>7. CASE RewardFight
  <2>1. PICK xp \in 1..MaxEarned - earned :
          player' = Given(player, xp) /\ earned' = earned + xp
    BY <1>7 DEF RewardFight
  <2>2. spent' = spent
    BY <1>7 DEF RewardFight
  <2>3. xp \in Nat /\ earned + xp <= MaxEarned
    BY <1>2
  <2>4. /\ Accounted(Given(player, xp), earned + xp, spent)
        /\ Given(player, xp).xp < Need[Given(player, xp).level]
    BY <1>1, <1>2, <2>3, GivenIsPaid
  <2> QED BY <1>1, <1>2, <2>1, <2>2, <2>3, <2>4 DEF PaidAfter
<1>8. CASE AllocateAttribute
  <2>1. /\ player.points > 0 /\ player' = [player EXCEPT !.points = player.points - 1]
        /\ spent' = spent + 1 /\ earned' = earned
    BY <1>8 DEF AllocateAttribute
  <2>2. \A a \in Nat : [player EXCEPT !.points = a] \in Players
    BY <1>3 DEF Players
  <2>3. player.points - 1 \in Nat
    BY <1>3, <2>1
  <2>4. /\ player'.level = player.level /\ player'.xp = player.xp /\ player'.hp = player.hp
        /\ player'.maxHp = player.maxHp /\ player'.energy = player.energy
        /\ player'.maxEnergy = player.maxEnergy /\ player'.points = player.points - 1
        /\ player' \in Players
    BY <1>3, <2>1, <2>2, <2>3 DEF Players
  <2>5. player'.points + spent' = player.points + spent /\ spent' \in Nat
    BY <1>1, <1>3, <2>1, <2>4
  <2> QED BY <1>1, <2>1, <2>4, <2>5 DEF PaidAfter, Accounted
<1> QED BY <1>4, <1>5, <1>6, <1>7, <1>8
        DEF Next, vars, AddItem, RemoveItem, EquipItem, UnequipSlot

\* The inductive invariant of the character sheet.
THEOREM SheetInvariance == Spec => []SheetInv
<1>1. Init => SheetInv
  BY InitSheet
<1>2. SheetInv /\ [Next]_vars => SheetInv'
  <2> SUFFICES ASSUME SheetInv, [Next]_vars PROVE SheetInv'
      OBVIOUS
  <2>1. ItemsInv'
    BY ItemsStep DEF SheetInv
  <2>2. PaidAfter
    BY PaidStep
  <2> QED BY <2>1, <2>2, SheetIsAccounted DEF PaidAfter
<1> QED BY <1>1, <1>2, PTL DEF Spec

\* Every item made is carried, worn or gone, in exactly one place
\* (items.cpp: equipping what is worn swaps the two).
THEOREM ItemsStay == Spec => []ItemsConserved
<1>1. SheetInv => ItemsConserved
  BY ItemsInvConserves DEF SheetInv
<1> QED BY <1>1, SheetInvariance, PTL

\* The experience given is the levels paid for and what is left of it, less than
\* the next level costs, and the points are those the levels brought
\* (leveling.cpp's loop and allocate_attribute, over any history of both).
THEOREM LevelsAdd == Spec => []LevelsPaidFor
<1>1. SheetInv => LevelsPaidFor
  BY DEF SheetInv
<1> QED BY <1>1, SheetInvariance, PTL

\* Hp and energy stay in their bounds, and what is worn fits its slot
\* (apply_stat_changes' clamps, consume_item's cap, equip_item's test).
THEOREM TypeCorrect == Spec => []TypeOK
<1>1. SheetInv => TypeOK
  <2> SUFFICES ASSUME SheetInv PROVE TypeOK
      OBVIOUS
  <2>1. \A i \in DOMAIN inventory : inventory[i] \in Items
    BY DEF SheetInv, ItemsInv, ItemsTyped
  <2>2. \A s \in Slots :
          /\ Cardinality(equipment[s]) <= 1
          /\ \A item \in equipment[s] : item \in Items /\ Wearable(item) /\ item.slot = s
    <3> SUFFICES ASSUME NEW s \in Slots
                 PROVE  /\ Cardinality(equipment[s]) <= 1
                        /\ \A item \in equipment[s] : item \in Items /\ Wearable(item) /\ item.slot = s
        OBVIOUS
    <3>1. equipment[s] = {} \/ \E item \in Items : Fits(s, item) /\ equipment[s] = {item}
      BY DEF SheetInv, ItemsInv, ItemsTyped, SlotHolds
    <3>2. Cardinality({}) = 0
      BY FS_EmptySet
    <3>3. \A item : Cardinality({item}) = 1
      BY FS_Singleton
    <3> QED BY <3>1, <3>2, <3>3 DEF Fits
  <2>3. /\ player \in Players /\ player.hp <= player.maxHp /\ player.energy <= player.maxEnergy
        /\ Len(Need) \in Nat /\ DOMAIN Need = 1..Len(Need)
    BY SheetNumbers DEF SheetInv, PlayerTyped
  <2>4. /\ player.level \in DOMAIN Need /\ player.xp \in Nat
        /\ player.hp \in 0..player.maxHp /\ player.energy \in 0..player.maxEnergy
        /\ player.points \in Nat
    BY <2>3 DEF Players
  <2> QED BY <2>1, <2>2, <2>4 DEF TypeOK
<1> QED BY <1>1, SheetInvariance, PTL

-----------------------------------------------------------------------------
(* Income: sums.                                                           *)

\* Running totals of smaller numbers are smaller.
LEMMA AddsMonotone ==
    ASSUME NEW N \in Nat, NEW f, NEW e, NEW p, NEW q, Adds(p, f, N), Adds(q, e, N),
           \A n \in 1..N : f[n] \in Int /\ e[n] \in Int /\ f[n] <= e[n]
    PROVE  \A n \in 0..N : p[n] <= q[n]
<1> DEFINE T == {m \in 0..N : ~(p[m] <= q[m])}
<1> SUFFICES ASSUME T # {} PROVE FALSE
    OBVIOUS
<1>1. PICK m \in T : \A y \in T : m <= y
  <2>1. T \subseteq Nat
    OBVIOUS
  <2> HIDE DEF T
  <2> QED BY <2>1, LeastNumber
<1>2. m \in 0..N /\ ~(p[m] <= q[m]) /\ p[0] = 0 /\ q[0] = 0
  BY DEF Adds
<1>3. m \in 1..N /\ m - 1 \in 0..N /\ m - 1 \notin T
  BY <1>1, <1>2
<1>4. /\ p[m] = p[m - 1] + f[m] /\ q[m] = q[m - 1] + e[m]
      /\ p[m - 1] \in Int /\ q[m - 1] \in Int /\ p[m - 1] <= q[m - 1]
  BY <1>3 DEF Adds
<1>5. f[m] \in Int /\ e[m] \in Int /\ f[m] <= e[m]
  BY <1>3
<1> HIDE DEF T
<1> QED BY <1>2, <1>4, <1>5

\* Sum is the last running total.
LEMMA SumIs ==
    ASSUME NEW N \in Nat, NEW f \in [1..N -> Int], NEW p, Adds(p, f, N)
    PROVE  Sum(f) = p[N] /\ p[N] \in Int
<1> DEFINE Step(s) == [k \in 0..N |-> IF k = 0 THEN 0 ELSE s[k - 1] + f[k]]
           sum == CHOOSE s : s = Step(s)
<1>1. Len(f) = N
  OBVIOUS
<1>2. Sum(f) = sum[N]
  BY <1>1 DEF Sum
<1>3. p = Step(p)
  <2>1. \A k \in 0..N : p[k] = IF k = 0 THEN 0 ELSE p[k - 1] + f[k]
    <3> SUFFICES ASSUME NEW k \in 0..N, k # 0 PROVE p[k] = p[k - 1] + f[k]
        BY DEF Adds
    <3>1. k \in 1..N
      OBVIOUS
    <3> QED BY <3>1 DEF Adds
  <2> QED BY <2>1 DEF Adds
<1>4. sum = Step(sum)
  <2> HIDE DEF Step
  <2> QED BY <1>3
<1> HIDE DEF sum
<1>5. /\ DOMAIN sum = 0..N /\ sum = [k \in 0..N |-> sum[k]]
      /\ \A k \in 0..N : sum[k] = IF k = 0 THEN 0 ELSE sum[k - 1] + f[k]
  BY <1>4
<1>6. sum[0] = 0 /\ \A k \in 1..N : sum[k] = sum[k - 1] + f[k]
  <2>1. 0 \in 0..N /\ \A k \in 1..N : k \in 0..N /\ k # 0
    OBVIOUS
  <2> QED BY <1>5, <2>1
<1> DEFINE T == {k \in 0..N : sum[k] # p[k]}
<1>7. ASSUME T # {} PROVE FALSE
  <2>1. PICK k \in T : \A y \in T : k <= y
    <3>1. T \subseteq Nat
      OBVIOUS
    <3> HIDE DEF T
    <3> QED BY <1>7, <3>1, LeastNumber
  <2>2. k \in 0..N /\ sum[k] # p[k] /\ p[0] = 0
    BY DEF Adds
  <2>3. k \in 1..N /\ k - 1 \in 0..N /\ k - 1 \notin T
    BY <1>6, <2>1, <2>2
  <2>4. p[k] = p[k - 1] + f[k] /\ sum[k - 1] = p[k - 1] /\ sum[k] = sum[k - 1] + f[k]
    BY <1>6, <2>3 DEF Adds
  <2> HIDE DEF T
  <2> QED BY <2>2, <2>4
<1>8. N \in 0..N /\ N \notin T
  BY <1>7
<1>9. sum[N] = p[N] /\ p[N] \in Int
  BY <1>8 DEF Adds
<1> QED BY <1>2, <1>9

\* A sum is a number and no more than that of greater numbers.
LEMMA SumMonotone ==
    ASSUME NEW N \in Nat, NEW f \in [1..N -> Int], NEW e \in [1..N -> Int],
           \A n \in 1..N : f[n] <= e[n]
    PROVE  Sum(f) \in Int /\ Sum(e) \in Int /\ Sum(f) <= Sum(e)
<1>1. PICK p : Adds(p, f, N)
  BY AddsExist
<1>2. PICK q : Adds(q, e, N)
  BY AddsExist
<1>3. Sum(f) = p[N] /\ Sum(e) = q[N] /\ p[N] \in Int /\ q[N] \in Int
  BY <1>1, <1>2, SumIs
<1>4. p[N] <= q[N]
  <2>1. N \in 0..N
    OBVIOUS
  <2> QED BY <1>1, <1>2, <2>1, AddsMonotone
<1> QED BY <1>3, <1>4

\* The sum of numbers added pairwise.
LEMMA SumAdditive ==
    ASSUME NEW N \in Nat, NEW f \in [1..N -> Int], NEW e \in [1..N -> Int]
    PROVE  /\ Sum(f) \in Int /\ Sum(e) \in Int
           /\ Sum([n \in 1..N |-> f[n] + e[n]]) = Sum(f) + Sum(e)
<1> DEFINE h == [n \in 1..N |-> f[n] + e[n]]
<1>1. PICK p : Adds(p, f, N)
  BY AddsExist
<1>2. PICK q : Adds(q, e, N)
  BY AddsExist
<1> DEFINE r == [n \in 0..N |-> p[n] + q[n]]
<1>3. h \in [1..N -> Int] /\ \A n \in 1..N : h[n] = f[n] + e[n]
  OBVIOUS
<1>4. Adds(r, h, N)
  <2>1. r \in [0..N -> Int] /\ r[0] = 0
    BY <1>1, <1>2 DEF Adds
  <2> SUFFICES ASSUME NEW n \in 1..N PROVE r[n] = r[n - 1] + (f[n] + e[n])
      BY <1>3, <2>1 DEF Adds
  <2>2. n \in 0..N /\ n - 1 \in 0..N /\ f[n] \in Int /\ e[n] \in Int
    OBVIOUS
  <2>3. /\ p[n] = p[n - 1] + f[n] /\ q[n] = q[n - 1] + e[n]
        /\ p[n - 1] \in Int /\ q[n - 1] \in Int
    BY <1>1, <1>2, <2>2 DEF Adds
  <2> QED BY <2>2, <2>3
<1>5. /\ Sum(f) = p[N] /\ Sum(e) = q[N] /\ p[N] \in Int /\ q[N] \in Int
      /\ Sum(h) = r[N]
  <2> HIDE DEF h, r
  <2> QED BY <1>1, <1>2, <1>3, <1>4, SumIs
<1>6. r[N] = p[N] + q[N]
  OBVIOUS
<1> QED BY <1>5, <1>6

\* The sum of one number more.
LEMMA SumAppend ==
    ASSUME NEW N \in Nat, NEW f \in [1..N -> Int], NEW e \in [1..N + 1 -> Int],
           \A n \in 1..N : e[n] = f[n]
    PROVE  /\ Sum(f) \in Int
           /\ Sum(e) = Sum(f) + e[N + 1]
<1>1. PICK q : Adds(q, e, N + 1)
  BY AddsExist
<1> DEFINE p == [n \in 0..N |-> q[n]]
<1>2. Adds(p, f, N)
  <2>1. p \in [0..N -> Int] /\ p[0] = 0
    BY <1>1 DEF Adds
  <2> SUFFICES ASSUME NEW n \in 1..N PROVE p[n] = p[n - 1] + f[n]
      BY <2>1 DEF Adds
  <2>2. n \in 0..N /\ n - 1 \in 0..N /\ n \in 1..N + 1
    OBVIOUS
  <2>3. q[n] = q[n - 1] + e[n]
    BY <1>1, <2>2 DEF Adds
  <2> QED BY <2>2, <2>3
<1>3. Sum(f) = p[N] /\ p[N] \in Int /\ Sum(e) = q[N + 1]
  <2> HIDE DEF p
  <2>1. N + 1 \in Nat
    OBVIOUS
  <2> QED BY <1>1, <1>2, <2>1, SumIs
<1>4. q[N + 1] = q[N] + e[N + 1] /\ p[N] = q[N]
  <2>1. N + 1 \in 1..N + 1 /\ (N + 1) - 1 = N
    OBVIOUS
  <2> QED BY <1>1, <2>1 DEF Adds
<1> QED BY <1>3, <1>4

-----------------------------------------------------------------------------
(* Income: whole days.                                                     *)

\* A positive multiple of d is at least d.
LEMMA Product ==
    ASSUME NEW x \in Nat, NEW d \in Nat, x >= 1
    PROVE  x * d >= d
OBVIOUS

\* A number is its whole units and less than one more.
LEMMA Parts ==
    ASSUME NEW d \in Nat \ {0}, NEW a \in Int
    PROVE  a \div d \in Int /\ (a \div d) * d <= a /\ a < (a \div d) * d + d
OBVIOUS

\* Only one number of whole units is so.
LEMMA Quotient ==
    ASSUME NEW d \in Nat \ {0}, NEW a \in Int, NEW q \in Int, q * d <= a, a < q * d + d
    PROVE  a \div d = q
<1> PICK p : p = a \div d
    OBVIOUS
<1>1. p \in Int /\ p * d <= a /\ a < p * d + d
  BY Parts
<1>2. CASE p > q
  <2>1. (p - q) \in Nat /\ p - q >= 1
    BY <1>1, <1>2
  <2>2. (p - q) * d >= d
    BY <2>1, Product
  <2>3. (p - q) * d = p * d - q * d
    BY <1>1
  <2>4. p * d \in Int /\ q * d \in Int /\ d \in Int
    BY <1>1
  <2> HIDE <1>2
  <2> QED BY <1>1, <2>2, <2>3, <2>4
<1>3. CASE q > p
  <2>1. (q - p) \in Nat /\ q - p >= 1
    BY <1>1, <1>3
  <2>2. (q - p) * d >= d
    BY <2>1, Product
  <2>3. (q - p) * d = q * d - p * d
    BY <1>1
  <2>4. p * d \in Int /\ q * d \in Int /\ d \in Int
    BY <1>1
  <2> HIDE <1>3
  <2> QED BY <1>1, <2>2, <2>3, <2>4
<1> QED BY <1>1, <1>2, <1>3

\* The whole days between two instants.
Days(from, to) == (to - from) \div Day

\* Whole days up to an instant that is a whole number of days on, and from there:
\* none is lost between them.
LEMMA DaysSplit ==
    ASSUME Day \in Nat \ {0}, NEW b \in Int, NEW l \in Int, NEW t \in Int, b <= l, l <= t,
           l = b + Days(b, l) * Day
    PROVE  Days(b, t) = Days(b, l) + Days(l, t) /\ Days(b, l) \in Nat /\ Days(l, t) \in Nat
<1> PICK m, k : m = Days(b, l) /\ k = Days(l, t)
    OBVIOUS
<1>1. /\ m \in Int /\ m * Day <= l - b /\ l - b < m * Day + Day
      /\ k \in Int /\ k * Day <= t - l /\ t - l < k * Day + Day
  BY Parts DEF Days
<1>2. \A x \in Int : x * Day + Day > 0 => x >= 0
  <2> SUFFICES ASSUME NEW x \in Int, x <= -1 PROVE x * Day + Day <= 0
      OBVIOUS
  <2>1. (-x) \in Nat /\ -x >= 1
    OBVIOUS
  <2>2. (-x) * Day >= Day
    BY <2>1, Product
  <2>3. (-x) * Day = -(x * Day) /\ x * Day \in Int
    OBVIOUS
  <2> QED BY <2>2, <2>3
<1>3. m * Day \in Int /\ k * Day \in Int /\ Day \in Int /\ (m + k) * Day = m * Day + k * Day
  BY <1>1
<1>4. m \in Nat /\ k \in Nat
  <2>1. m * Day + Day > 0 /\ k * Day + Day > 0
    BY <1>1, <1>3
  <2> QED BY <1>1, <1>2, <2>1
<1>5. (m + k) * Day <= t - b /\ t - b < (m + k) * Day + Day
  <2>1. l = b + m * Day
    OBVIOUS
  <2>2. l - b = m * Day
    <3> PICK w \in Int : w = m * Day
        BY <1>3
    <3> QED BY <2>1
  <2> QED BY <1>1, <1>3, <2>2
<1>6. (t - b) \div Day = m + k
  <2>1. m + k \in Int /\ t - b \in Int
    BY <1>4
  <2> QED BY <1>5, <2>1, Quotient
<1> QED BY <1>4, <1>6 DEF Days

\* Paying the second part moves the instant on to another of this kind.
LEMMA DaysCollected ==
    ASSUME Day \in Nat \ {0}, NEW b \in Int, NEW l \in Int, NEW t \in Int, b <= l, l <= t,
           l = b + Days(b, l) * Day, NEW n \in Int, n = l + Days(l, t) * Day
    PROVE  /\ l <= n /\ n <= t /\ Days(b, n) = Days(b, l) + Days(l, t)
           /\ n = b + Days(b, n) * Day
<1> PICK m, k : m = Days(b, l) /\ k = Days(l, t)
    OBVIOUS
<1>1. m \in Nat /\ k \in Nat
  BY DaysSplit
<1>2. k * Day \in Nat /\ m * Day \in Nat /\ (m + k) * Day = m * Day + k * Day
  BY <1>1
<1>3. k * Day <= t - l
  BY Parts DEF Days
<1>4. n - b = (m + k) * Day
  BY <1>2
<1>5. (n - b) \div Day = m + k
  <2>1. m + k \in Int /\ n - b \in Int
    BY <1>1
  <2>2. (m + k) * Day <= n - b /\ n - b < (m + k) * Day + Day
    BY <1>2, <1>4
  <2> QED BY <2>1, <2>2, Quotient
<1>6. Days(b, n) = m + k
  BY <1>5 DEF Days
<1> QED BY <1>2, <1>3, <1>4, <1>6

\* More time is no fewer days.
LEMMA DaysGrow ==
    ASSUME Day \in Nat \ {0}, NEW b \in Int, NEW t \in Int, NEW u \in Int, t <= u
    PROVE  Days(b, t) \in Int /\ Days(b, u) \in Int /\ Days(b, t) <= Days(b, u)
<1> PICK m, n : m = Days(b, t) /\ n = Days(b, u)
    OBVIOUS
<1>1. /\ m \in Int /\ m * Day <= t - b
      /\ n \in Int /\ u - b < n * Day + Day
  BY Parts DEF Days
<1>2. CASE m > n
  <2>1. (m - n) \in Nat /\ m - n >= 1
    BY <1>1, <1>2
  <2>2. (m - n) * Day >= Day
    BY <2>1, Product
  <2>3. (m - n) * Day = m * Day - n * Day /\ m * Day \in Int /\ n * Day \in Int
    BY <1>1
  <2> HIDE <1>2
  <2> QED BY <1>1, <2>2, <2>3
<1> QED BY <1>1, <1>2

-----------------------------------------------------------------------------
(* Income: the invariant.                                                  *)

\* What the days a business was paid for came to.
Settled(i) == businesses[i].income * Days(bought[i], businesses[i].last)

\* A business was last collected a whole number of days after it was bought.
WholeDaysOn(i) == businesses[i].last = bought[i] + Days(bought[i], businesses[i].last) * Day

\* Types, and the instants of a business in their order.
EconomyTyped ==
    /\ time \in 0..MaxTime /\ gold \in Nat
    /\ businesses \in Seq([income : Incomes, last : Int]) /\ bought \in Seq(Nat)
    /\ Len(bought) = Len(businesses) /\ Len(businesses) <= MaxBusinesses
    /\ \A i \in Owned :
        /\ bought[i] <= businesses[i].last /\ businesses[i].last <= time
        /\ WholeDaysOn(i)
    /\ turnInProgress \in BOOLEAN /\ shown \in Nat \cup {-1}

\* The gold is what the days settled came to; less only where a payment met the cap,
\* which one business must then have earned.
GoldIsSettled ==
    /\ gold <= Sum([i \in Owned |-> Settled(i)])
    /\ (\A i \in Owned : Earned(i) <= Cap)
            => gold = Sum([i \in Owned |-> Settled(i)])

\* A frame that shows a sum was drawn after the last job, and the sum is still due.
ShownIsDue ==
    shown # -1 => /\ ~turnInProgress
                  /\ shown = Sum([i \in Owned |-> Preview(businesses[i])])

IncomeInv == EconomyTyped /\ GoldIsSettled /\ ShownIsDue

-----------------------------------------------------------------------------
\* What the types say of each business.
LEMMA Businesses ==
    ASSUME EconomyTyped
    PROVE  /\ Len(businesses) \in Nat /\ Owned = 1..Len(businesses)
           /\ DOMAIN bought = Owned
           /\ \A i \in Owned :
                /\ businesses[i] \in [income : Incomes, last : Int]
                /\ businesses[i].income \in Nat /\ businesses[i].last \in Int
                /\ bought[i] \in Nat
           /\ time \in Nat /\ Day \in Nat \ {0} /\ Cap \in Nat \ {0}
<1>1. time \in Nat /\ Day \in Nat \ {0} /\ Cap \in Nat \ {0} /\ Incomes \subseteq Nat
  BY IncomeAssumption DEF EconomyTyped
<1>2. /\ businesses \in Seq([income : Incomes, last : Int]) /\ bought \in Seq(Nat)
      /\ Len(bought) = Len(businesses)
  BY DEF EconomyTyped
<1>3. /\ Len(businesses) \in Nat /\ DOMAIN businesses = 1..Len(businesses)
      /\ DOMAIN bought = 1..Len(businesses)
  BY <1>2
<1>4. \A i \in DOMAIN businesses : /\ businesses[i] \in [income : Incomes, last : Int]
                                  /\ bought[i] \in Nat
  <2> SUFFICES ASSUME NEW i \in 1..Len(businesses)
               PROVE  businesses[i] \in [income : Incomes, last : Int] /\ bought[i] \in Nat
      BY <1>3
  <2>1. businesses[i] \in [income : Incomes, last : Int]
    <3> DEFINE R == [income : Incomes, last : Int]
    <3>1. businesses \in Seq(R)
      BY <1>2
    <3> HIDE DEF R
    <3>2. businesses[i] \in R
      BY <3>1
    <3> QED BY <3>2 DEF R
  <2>2. bought[i] \in Nat
    BY <1>2
  <2> QED BY <2>1, <2>2
<1> QED BY <1>1, <1>3, <1>4 DEF Owned

\* A business earned what it was paid for and what is outstanding.
LEMMA EarnedIsSettled ==
    ASSUME EconomyTyped, NEW i \in Owned
    PROVE  /\ Settled(i) \in Nat /\ Outstanding(i) \in Nat
           /\ Earned(i) = Settled(i) + Outstanding(i)
<1> PICK m, k : /\ m = Days(bought[i], businesses[i].last)
                /\ k = Days(businesses[i].last, time)
    OBVIOUS
<1>1. Days(bought[i], time) = m + k /\ m \in Nat /\ k \in Nat
  <2>1. /\ bought[i] <= businesses[i].last /\ businesses[i].last <= time
        /\ businesses[i].last = bought[i] + Days(bought[i], businesses[i].last) * Day
    BY DEF EconomyTyped, WholeDaysOn
  <2>2. /\ businesses[i].last \in Int /\ bought[i] \in Int /\ time \in Int
        /\ Day \in Nat \ {0}
    BY Businesses
  <2> QED BY <2>1, <2>2, DaysSplit
<1> PICK c \in Nat : c = businesses[i].income
    BY Businesses
<1>2. c * (m + k) = c * m + c * k /\ c * m \in Nat /\ c * k \in Nat
  BY <1>1
<1> QED BY <1>1, <1>2 DEF Settled, Days, Outstanding, Earned

\* The least of two numbers.
LEMMA Capped ==
    ASSUME NEW c \in Nat, NEW x \in Nat
    PROVE  /\ Min({c, x}) \in Nat /\ Min({c, x}) <= x
           /\ x <= c => Min({c, x}) = x
<1>1. \E z \in {c, x} : \A y \in {c, x} : z <= y
  OBVIOUS
<1>2. Min({c, x}) \in {c, x} /\ \A y \in {c, x} : Min({c, x}) <= y
  BY <1>1 DEF Min
<1> QED BY <1>2

\* What one collection pays, leaves and was promised to pay.
LEMMA OneCollected ==
    ASSUME EconomyTyped, NEW i \in Owned
    PROVE  /\ Pay(businesses[i]) \in Nat
           /\ Pay(businesses[i]) <= Outstanding(i)
           /\ Outstanding(i) <= Cap => Pay(businesses[i]) = Outstanding(i)
           /\ Preview(businesses[i]) = Pay(businesses[i])
           /\ \E l \in Int :
                /\ Collected(businesses[i]) = [income |-> businesses[i].income, last |-> l]
                /\ bought[i] <= l /\ l <= time
                /\ l = bought[i] + Days(bought[i], l) * Day
                /\ businesses[i].income * Days(bought[i], l)
                        = Settled(i) + Outstanding(i)
<1> PICK b : b = businesses[i]
    OBVIOUS
<1> PICK m, k : m = Days(bought[i], b.last) /\ k = Days(b.last, time)
    OBVIOUS
<1>1. /\ b = [income |-> b.income, last |-> b.last]
      /\ b.income \in Nat /\ b.last \in Int /\ bought[i] \in Nat /\ time \in Nat
      /\ Day \in Nat \ {0} /\ Cap \in Nat
  BY Businesses
<1>2. bought[i] <= b.last /\ b.last <= time /\ b.last = bought[i] + m * Day
  BY DEF EconomyTyped, WholeDaysOn
<1>3. m \in Nat /\ k \in Nat
  <2>1. b.last = bought[i] + Days(bought[i], b.last) * Day
    BY <1>2
  <2>2. bought[i] \in Int /\ time \in Int
    BY <1>1
  <2> QED BY <1>1, <1>2, <2>1, <2>2, DaysSplit
<1>4. b.income * k \in Nat /\ Outstanding(i) = b.income * k
  BY <1>1, <1>3 DEF Days, Outstanding
<1>5. ~(time > b.last) => k = 0
  <2> SUFFICES ASSUME ~(time > b.last) PROVE k = 0
      OBVIOUS
  <2>1. time - b.last = 0
    BY <1>1, <1>2
  <2>2. 0 * Day <= 0 /\ 0 < 0 * Day + Day
    BY <1>1
  <2>3. 0 \div Day = 0
    BY <1>1, <2>2, Quotient
  <2> QED BY <2>1, <2>3 DEF Days
<1>6. Due(b) = IF b.income > 0 THEN k ELSE 0
  <2>1. time - b.last > 0 <=> time > b.last
    BY <1>1
  <2> QED BY <1>5, <2>1 DEF Days, Due, WholeDays
<1>7. Due(b) * b.income = b.income * k
  <2>1. b.income > 0 \/ b.income = 0
    BY <1>1
  <2> QED BY <1>1, <1>3, <1>6, <2>1
<1>8. Pay(b) = Min({Cap, b.income * k})
  BY <1>7 DEF Pay
<1>9. /\ Pay(b) \in Nat /\ Pay(b) <= b.income * k
      /\ b.income * k <= Cap => Pay(b) = b.income * k
  BY <1>1, <1>4, <1>8, Capped
<1>10. Preview(b) = Pay(b)
  <2>1. CASE b.income <= 0 \/ time <= b.last
    <3>1. b.income * k = 0
      BY <1>1, <1>3, <1>5, <2>1
    <3> QED BY <1>1, <1>9, <2>1, <3>1 DEF Preview
  <2>2. CASE ~(b.income <= 0 \/ time <= b.last)
    <3>1. k * b.income = b.income * k
      BY <1>1, <1>3
    <3> QED BY <1>8, <2>2, <3>1 DEF Days, Preview
  <2> QED BY <2>1, <2>2
<1>11. \E l \in Int : /\ Collected(b) = [income |-> b.income, last |-> l]
                      /\ bought[i] <= l /\ l <= time
                      /\ l = bought[i] + Days(bought[i], l) * Day
                      /\ b.income * Days(bought[i], l) = b.income * m + b.income * k
  <2> PICK l : l = b.last + Due(b) * Day
      OBVIOUS
  <2>1. Collected(b) = [income |-> b.income, last |-> l]
    BY <1>1 DEF Collected
  <2>2. CASE b.income > 0
    <3>1. l = b.last + k * Day /\ l \in Int
      BY <1>1, <1>3, <1>6, <2>2
    <3>2. /\ b.last <= l /\ l <= time /\ Days(bought[i], l) = m + k
          /\ l = bought[i] + Days(bought[i], l) * Day
      <4>1. b.last = bought[i] + Days(bought[i], b.last) * Day
        BY <1>2
      <4>2. l = b.last + Days(b.last, time) * Day
        BY <3>1
      <4>3. bought[i] \in Int /\ time \in Int
        BY <1>1
      <4>4. /\ bought[i] <= b.last /\ b.last <= time /\ b.last \in Int /\ l \in Int
            /\ Day \in Nat \ {0}
        BY <1>1, <1>2, <3>1
      <4> QED BY <4>1, <4>2, <4>3, <4>4, DaysCollected
    <3>3. b.income * (m + k) = b.income * m + b.income * k
      BY <1>1, <1>3
    <3>4. bought[i] <= l
      BY <1>1, <1>2, <3>1, <3>2
    <3> QED BY <2>1, <3>1, <3>2, <3>3, <3>4
  <2>3. CASE b.income = 0
    <3>1. Due(b) = 0
      BY <1>6, <2>3
    <3>2. l = b.last
      BY <1>1, <3>1
    <3>3. \A x \in Int : 0 * x = 0
      OBVIOUS
    <3>4. b.income * m = 0 /\ b.income * k = 0
      BY <1>3, <2>3, <3>3
    <3> QED BY <1>1, <1>2, <2>1, <3>2, <3>4
  <2>4. b.income > 0 \/ b.income = 0
    BY <1>1
  <2> QED BY <2>2, <2>3, <2>4
<1> QED BY <1>4, <1>9, <1>10, <1>11 DEF Settled

\* A sum of naturals is one.
LEMMA SumNatural ==
    ASSUME NEW N \in Nat, NEW f \in [1..N -> Nat]
    PROVE  Sum(f) \in Nat
<1>1. PICK p : Adds(p, f, N)
  BY AddsExist
<1> DEFINE z == [n \in 0..N |-> 0]
           none == [n \in 1..N |-> 0]
<1>2. none \in [1..N -> Int] /\ f \in [1..N -> Int] /\ z[N] = 0
      /\ \A n \in 1..N : none[n] <= f[n]
  OBVIOUS
<1>3. Adds(z, none, N)
  BY DEF Adds
<1> HIDE DEF z, none
<1>4. Sum(none) = 0
  BY <1>2, <1>3, SumIs
<1>5. Sum(f) \in Int /\ Sum(none) <= Sum(f)
  BY <1>2, SumMonotone
<1> QED BY <1>4, <1>5

\* The invariant holds at the start.
LEMMA InitIncome == IncomeInit => IncomeInv
<1> SUFFICES ASSUME IncomeInit PROVE IncomeInv
    OBVIOUS
<1>1. /\ time = 0 /\ gold = 0 /\ businesses = <<>> /\ bought = <<>>
      /\ turnInProgress = FALSE /\ shown = -1
  BY DEF IncomeInit
<1>2. Owned = {}
  BY <1>1 DEF Owned
<1>3. EconomyTyped
  <2>1. Len(businesses) = 0 /\ Len(bought) = 0 /\ 0 \in 0..MaxTime /\ MaxBusinesses \in Nat
    BY <1>1, IncomeAssumption
  <2>2. businesses \in Seq([income : Incomes, last : Int]) /\ bought \in Seq(Nat)
    BY <1>1
  <2>3. time \in 0..MaxTime /\ gold \in Nat /\ turnInProgress \in BOOLEAN /\ shown \in Nat \cup {-1}
    BY <1>1, <2>1
  <2>4. Len(bought) = Len(businesses) /\ Len(businesses) <= MaxBusinesses
    BY <2>1
  <2> QED BY <1>2, <2>2, <2>3, <2>4 DEF EconomyTyped
<1>4. \A f \in [1..0 -> Int] : Sum(f) = 0
  <2> SUFFICES ASSUME NEW f \in [1..0 -> Int] PROVE Sum(f) = 0
      OBVIOUS
  <2>1. PICK p : Adds(p, f, 0)
    BY AddsExist
  <2>2. Sum(f) = p[0]
    BY <2>1, SumIs
  <2> QED BY <2>1, <2>2 DEF Adds
<1>5. Sum([i \in Owned |-> Settled(i)]) = 0
  <2>1. [i \in Owned |-> Settled(i)] \in [1..0 -> Int]
    BY <1>2
  <2> QED BY <1>4, <2>1
<1>6. GoldIsSettled /\ ShownIsDue
  BY <1>1, <1>5 DEF GoldIsSettled, ShownIsDue
<1> QED BY <1>3, <1>6 DEF IncomeInv

\* The sums over the businesses.
LEMMA BusinessSums ==
    ASSUME EconomyTyped
    PROVE  LET N == Len(businesses)
               settled == [i \in Owned |-> Settled(i)]
               outstanding == [i \in Owned |-> Outstanding(i)]
               earnings == [i \in Owned |-> Earned(i)]
               pay == [i \in Owned |-> Pay(businesses[i])]
           IN /\ settled \in [1..N -> Int] /\ outstanding \in [1..N -> Int]
              /\ pay \in [1..N -> Int]
              /\ Sum(settled) \in Int /\ Sum(outstanding) \in Int
              /\ Sum(earnings) = Sum(settled) + Sum(outstanding)
              /\ Sum(pay) \in Int /\ Sum(pay) <= Sum(outstanding)
              /\ (\A i \in Owned : Outstanding(i) <= Cap)
                    => Sum(pay) = Sum(outstanding)
              /\ Sum(pay)
                    = Sum([i \in Owned |-> Preview(businesses[i])])
<1> DEFINE N == Len(businesses)
           settled == [i \in Owned |-> Settled(i)]
           outstanding == [i \in Owned |-> Outstanding(i)]
           earnings == [i \in Owned |-> Earned(i)]
           pay == [i \in Owned |-> Pay(businesses[i])]
           preview == [i \in Owned |-> Preview(businesses[i])]
<1>1. N \in Nat /\ Owned = 1..N
  BY Businesses
<1>2. \A i \in 1..N : /\ settled[i] = Settled(i) /\ Settled(i) \in Nat
                      /\ outstanding[i] = Outstanding(i) /\ Outstanding(i) \in Nat
                      /\ Earned(i) = settled[i] + outstanding[i]
  BY <1>1, EarnedIsSettled
<1>3. \A i \in 1..N : /\ pay[i] \in Nat /\ pay[i] <= outstanding[i]
                      /\ Outstanding(i) <= Cap => pay[i] = outstanding[i]
                      /\ Preview(businesses[i]) = pay[i]
  BY <1>1, OneCollected
<1>4. settled \in [1..N -> Int] /\ outstanding \in [1..N -> Int] /\ pay \in [1..N -> Int]
  BY <1>1, <1>2, <1>3
<1>5. earnings = [i \in 1..N |-> settled[i] + outstanding[i]]
  BY <1>1, <1>2
<1>6. (\A i \in Owned : Outstanding(i) <= Cap) => pay = outstanding
  BY <1>1, <1>3
<1>7. preview = pay
  BY <1>1, <1>3
<1>8. \A i \in 1..N : pay[i] <= outstanding[i]
  BY <1>3
<1> HIDE DEF N, settled, outstanding, earnings, pay, preview
<1>9. /\ Sum(settled) \in Int /\ Sum(outstanding) \in Int
      /\ Sum(earnings) = Sum(settled) + Sum(outstanding)
  BY <1>1, <1>4, <1>5, SumAdditive
<1>10. Sum(pay) \in Int /\ Sum(pay) <= Sum(outstanding)
  BY <1>1, <1>4, <1>8, SumMonotone
<1> QED BY <1>4, <1>6, <1>7, <1>9, <1>10 DEF N, settled, outstanding, earnings, pay, preview

\* A collection settles what is outstanding.
LEMMA AllCollected ==
    ASSUME EconomyTyped, GoldIsSettled,
           CollectAll, time' = time, bought' = bought, turnInProgress' \in BOOLEAN,
           shown' \in Nat \cup {-1}
    PROVE  EconomyTyped' /\ GoldIsSettled'
<1> DEFINE settled == [i \in Owned |-> Settled(i)]
           outstanding == [i \in Owned |-> Outstanding(i)]
           pay == [i \in Owned |-> Pay(businesses[i])]
           N == Len(businesses)
<1>1. /\ N \in Nat /\ Owned = 1..N /\ DOMAIN bought = 1..N /\ time \in Nat
      /\ \A i \in 1..N : /\ businesses[i].income \in Incomes
                         /\ bought[i] \in Nat
  BY Businesses
<1>2. /\ gold' = gold + Sum(pay)
      /\ businesses' = [i \in 1..N |-> Collected(businesses[i])]
  BY <1>1 DEF CollectAll
<1>3. Len(businesses') = N /\ DOMAIN businesses' = 1..N /\ Owned' = 1..N
  BY <1>1, <1>2 DEF Owned
<1>4. \A i \in 1..N :
        /\ businesses'[i] \in [income : Incomes, last : Int]
        /\ bought[i] <= businesses'[i].last /\ businesses'[i].last <= time
        /\ businesses'[i].last = bought[i] + Days(bought[i], businesses'[i].last) * Day
        /\ businesses'[i].income * Days(bought[i], businesses'[i].last)
                = Settled(i) + Outstanding(i)
        /\ businesses'[i].income = businesses[i].income
  <2> SUFFICES ASSUME NEW i \in 1..N
               PROVE  /\ businesses'[i] \in [income : Incomes, last : Int]
                      /\ bought[i] <= businesses'[i].last /\ businesses'[i].last <= time
                      /\ businesses'[i].last
                            = bought[i] + Days(bought[i], businesses'[i].last) * Day
                      /\ businesses'[i].income * Days(bought[i], businesses'[i].last)
                            = Settled(i) + Outstanding(i)
                      /\ businesses'[i].income = businesses[i].income
      OBVIOUS
  <2>1. i \in Owned /\ businesses[i].income \in Incomes
    BY <1>1
  <2>2. PICK l \in Int :
          /\ Collected(businesses[i]) = [income |-> businesses[i].income, last |-> l]
          /\ bought[i] <= l /\ l <= time /\ l = bought[i] + Days(bought[i], l) * Day
          /\ businesses[i].income * Days(bought[i], l) = Settled(i) + Outstanding(i)
    BY <2>1, OneCollected
  <2>3. businesses'[i] = [income |-> businesses[i].income, last |-> l]
    BY <1>2, <2>2
  <2>4. businesses'[i].income = businesses[i].income /\ businesses'[i].last = l
    BY <2>3
  <2> QED BY <2>1, <2>2, <2>3, <2>4
<1>5. \A i \in 1..N : Settled(i)' = Settled(i) + Outstanding(i)
  BY <1>4 DEF Settled, Days
<1>6. [i \in Owned |-> Settled(i)]' = [i \in 1..N |-> settled[i] + outstanding[i]]
  BY <1>1, <1>3, <1>5
<1>7. /\ settled \in [1..N -> Int] /\ outstanding \in [1..N -> Int]
      /\ Sum(settled) \in Int /\ Sum(outstanding) \in Int
      /\ Sum(pay) \in Int /\ Sum(pay) <= Sum(outstanding)
      /\ (\A i \in Owned : Outstanding(i) <= Cap)
            => Sum(pay) = Sum(outstanding)
  BY BusinessSums
<1>8. Sum([i \in Owned |-> Settled(i)]')
        = Sum(settled) + Sum(outstanding)
  <2> HIDE DEF settled, outstanding, N
  <2> QED BY <1>1, <1>6, <1>7, SumAdditive
<1>9. EconomyTyped'
  <2>1. businesses' \in Seq([income : Incomes, last : Int])
    <3> DEFINE R == [income : Incomes, last : Int]
    <3>1. \A i \in 1..N : businesses'[i] \in R
      BY <1>4
    <3>2. businesses' = [i \in 1..N |-> businesses'[i]]
      BY <1>2
    <3> HIDE DEF R
    <3>3. businesses' \in [1..N -> R]
      BY <3>1, <3>2
    <3>4. businesses' \in Seq(R)
      BY <1>1, <3>3
    <3> QED BY <3>4 DEF R
  <2>2. \A i \in 1..N : WholeDaysOn(i)'
    BY <1>4 DEF WholeDaysOn, Days
  <2>3. gold' \in Nat
    <3>1. \A i \in 1..N : Pay(businesses[i]) \in Nat
      BY <1>1, OneCollected
    <3>2. pay \in [1..N -> Nat]
      BY <1>1, <3>1
    <3> HIDE DEF pay, N
    <3>3. Sum(pay) \in Nat
      BY <1>1, <3>2, SumNatural
    <3> QED BY <1>2, <3>3 DEF EconomyTyped
  <2> QED BY <1>1, <1>3, <1>4, <2>1, <2>2, <2>3 DEF EconomyTyped
<1>10. gold' <= Sum(settled) + Sum(outstanding)
  BY <1>2, <1>7 DEF EconomyTyped, GoldIsSettled
<1>11. ASSUME \A i \in Owned' : Earned(i)' <= Cap
       PROVE  gold' = Sum(settled) + Sum(outstanding)
  <2>1. \A i \in 1..N : Earned(i)' = Earned(i)
    BY <1>4 DEF Earned
  <2>2. \A i \in 1..N : Earned(i) <= Cap /\ Outstanding(i) <= Cap
    <3> SUFFICES ASSUME NEW i \in 1..N
                 PROVE  Earned(i) <= Cap /\ Outstanding(i) <= Cap
        OBVIOUS
    <3>1. Earned(i) <= Cap
      BY <1>3, <1>11, <2>1
    <3>2. /\ Earned(i) = Settled(i) + Outstanding(i)
          /\ Settled(i) \in Nat /\ Outstanding(i) \in Nat
      BY <1>1, EarnedIsSettled
    <3> QED BY <3>1, <3>2, Businesses
  <2>3. gold = Sum(settled) /\ Sum(pay) = Sum(outstanding)
    BY <1>1, <1>7, <2>2 DEF GoldIsSettled
  <2> QED BY <1>2, <2>3
<1>12. GoldIsSettled'
  BY <1>8, <1>10, <1>11 DEF GoldIsSettled
<1> QED BY <1>9, <1>12

\* Time that passes, and a business bought, leave what is settled as it is.
LEMMA TimePasses ==
    ASSUME EconomyTyped, GoldIsSettled, SetLocation
    PROVE  EconomyTyped' /\ GoldIsSettled'
<1>1. /\ UNCHANGED <<gold, businesses, turnInProgress, shown, bought>>
      /\ time \in Nat /\ time' \in 0..MaxTime /\ time <= time'
  <2> PICK minutes \in Advances :
          minutes > 0 /\ time + minutes <= MaxTime /\ time' = time + minutes
      BY DEF SetLocation
  <2>1. minutes \in Int /\ time \in Nat /\ MaxTime \in Nat
    BY IncomeAssumption DEF EconomyTyped
  <2>2. time' \in 0..MaxTime /\ time <= time'
    BY <2>1
  <2> QED BY <2>1, <2>2 DEF SetLocation
<1>2. Owned' = Owned
  BY <1>1 DEF Owned
<1>3. EconomyTyped'
  <2>1. \A i \in Owned : /\ bought[i] <= businesses[i].last /\ businesses[i].last <= time'
                                 /\ WholeDaysOn(i)'
    <3> SUFFICES ASSUME NEW i \in Owned
                 PROVE  /\ bought[i] <= businesses[i].last /\ businesses[i].last <= time'
                        /\ WholeDaysOn(i)'
        OBVIOUS
    <3>1. bought[i] <= businesses[i].last /\ businesses[i].last <= time /\ WholeDaysOn(i)
      BY DEF EconomyTyped
    <3>2. businesses[i].last \in Int /\ time' \in Int /\ time \in Int
      BY <1>1, Businesses
    <3>3. WholeDaysOn(i)'
      BY <1>1, <3>1 DEF WholeDaysOn, Days
    <3> QED BY <1>1, <3>1, <3>2, <3>3
  <2> QED BY <1>1, <1>2, <2>1 DEF EconomyTyped
<1>4. \A i \in Owned : Earned(i)' <= Cap => Earned(i) <= Cap
  <2> SUFFICES ASSUME NEW i \in Owned, Earned(i)' <= Cap
               PROVE  Earned(i) <= Cap
      OBVIOUS
  <2> PICK c \in Nat, b \in Nat : c = businesses[i].income /\ b = bought[i]
      BY Businesses
  <2>1. Earned(i) = c * Days(b, time) /\ Earned(i)' = c * Days(b, time')
    BY <1>1 DEF Earned, Days
  <2>2. Days(b, time) \in Int /\ Days(b, time') \in Int /\ Days(b, time) <= Days(b, time')
    BY <1>1, Businesses, DaysGrow
  <2>3. c * Days(b, time) <= c * Days(b, time')
    <3>1. Days(b, time') - Days(b, time) \in Nat
      BY <2>2
    <3>2. c * (Days(b, time') - Days(b, time)) \in Nat
      BY <3>1
    <3> PICK x \in Int, y \in Int : x = Days(b, time) /\ y = Days(b, time')
        BY <2>2
    <3>3. c * (y - x) = c * y - c * x /\ c * y \in Int /\ c * x \in Int
      OBVIOUS
    <3> QED BY <3>2, <3>3
  <2>4. c * Days(b, time) \in Int /\ c * Days(b, time') \in Int /\ Cap \in Int
    BY <2>2, Businesses
  <2> QED BY <2>1, <2>3, <2>4
<1>5. \A i \in Owned : Settled(i)' = Settled(i)
  BY <1>1 DEF Settled, Days
<1>6. [i \in Owned |-> Settled(i)]' = [i \in Owned |-> Settled(i)]
  BY <1>2, <1>5
<1>7. GoldIsSettled'
  BY <1>1, <1>2, <1>4, <1>6 DEF GoldIsSettled
<1> QED BY <1>3, <1>7

\* A business that is bought has nothing settled.
LEMMA BusinessBought ==
    ASSUME EconomyTyped, GoldIsSettled, AddBusiness
    PROVE  EconomyTyped' /\ GoldIsSettled'
<1> PICK N : N = Len(businesses)
    OBVIOUS
<1> DEFINE settled == [i \in Owned |-> Settled(i)]
<1>1. /\ N \in Nat /\ Owned = 1..N /\ DOMAIN bought = 1..N /\ time \in Nat
      /\ Day \in Nat \ {0}
  BY Businesses
<1> PICK income \in Incomes : businesses' = Append(businesses, [income |-> income, last |-> time])
    BY DEF AddBusiness
<1>2. /\ bought' = Append(bought, time) /\ N < MaxBusinesses
      /\ UNCHANGED <<time, gold, turnInProgress, shown>>
  BY DEF AddBusiness
<1> DEFINE new == [income |-> income, last |-> time]
<1>3. /\ businesses \in Seq([income : Incomes, last : Int]) /\ bought \in Seq(Nat)
      /\ Len(bought) = N
  BY DEF EconomyTyped
<1>4. new \in [income : Incomes, last : Int] /\ income \in Nat
  BY <1>1, IncomeAssumption
<1>5. /\ businesses' \in Seq([income : Incomes, last : Int]) /\ Len(businesses') = N + 1
      /\ businesses'[N + 1] = new /\ \A i \in 1..N : businesses'[i] = businesses[i]
      /\ DOMAIN businesses' = 1..N + 1
  <2> DEFINE R == [income : Incomes, last : Int]
  <2> HIDE DEF R, new
  <2>1. businesses \in Seq(R) /\ new \in R /\ businesses' = Append(businesses, new)
    BY <1>3, <1>4 DEF R, new
  <2>2. /\ businesses' \in Seq(R) /\ Len(businesses') = N + 1
        /\ businesses'[N + 1] = new /\ \A i \in 1..N : businesses'[i] = businesses[i]
        /\ DOMAIN businesses' = 1..N + 1
    BY <1>1, <2>1, AppendProperties
  <2> QED BY <2>2 DEF R
<1>6. /\ bought' \in Seq(Nat) /\ Len(bought') = N + 1
      /\ bought'[N + 1] = time /\ \A i \in 1..N : bought'[i] = bought[i]
  BY <1>1, <1>2, <1>3, AppendProperties
<1>7. /\ Owned' = 1..N + 1 /\ (N + 1) \in 1..N + 1
      /\ \A i \in 1..N + 1 : i = N + 1 \/ i \in 1..N
  BY <1>1, <1>5 DEF Owned
<1>8. Days(time, time) = 0
  <2>1. 0 * Day <= 0 /\ 0 < 0 * Day + Day
    BY <1>1
  <2>2. 0 \div Day = 0
    BY <1>1, <2>1, Quotient
  <2> QED BY <1>1, <2>2 DEF Days
<1> HIDE DEF settled
<1>9. EconomyTyped'
  <2>1. \A i \in 1..N + 1 : /\ bought'[i] <= businesses'[i].last /\ businesses'[i].last <= time
                            /\ businesses'[i].last
                                  = bought'[i] + Days(bought'[i], businesses'[i].last) * Day
    <3> SUFFICES ASSUME NEW i \in 1..N + 1
                 PROVE  /\ bought'[i] <= businesses'[i].last /\ businesses'[i].last <= time
                        /\ businesses'[i].last
                              = bought'[i] + Days(bought'[i], businesses'[i].last) * Day
        OBVIOUS
    <3>1. CASE i \in 1..N
      <4>1. i \in Owned /\ businesses'[i] = businesses[i] /\ bought'[i] = bought[i]
        BY <1>1, <1>5, <1>6, <3>1
      <4>2. bought[i] <= businesses[i].last /\ businesses[i].last <= time /\ WholeDaysOn(i)
        BY <4>1 DEF EconomyTyped
      <4> QED BY <4>1, <4>2 DEF WholeDaysOn
    <3>2. CASE i = N + 1
      <4>1. businesses'[i].last = time /\ bought'[i] = time
        BY <1>5, <1>6, <3>2
      <4>2. 0 * Day = 0
        BY <1>1
      <4>3. Days(bought'[i], businesses'[i].last) = 0 /\ time <= time /\ time = time + 0
        BY <1>1, <1>8, <4>1
      <4> QED BY <4>1, <4>2, <4>3
    <3> QED BY <1>7, <3>1, <3>2
  <2>2. \A i \in 1..N + 1 : WholeDaysOn(i)'
    BY <2>1 DEF WholeDaysOn, Days
  <2>3. N + 1 <= MaxBusinesses
    BY <1>1, <1>2, IncomeAssumption
  <2> QED BY <1>2, <1>5, <1>6, <1>7, <2>1, <2>2, <2>3 DEF EconomyTyped
<1>10. \A i \in 1..N : Settled(i)' = Settled(i)
  BY <1>5, <1>6 DEF Settled, Days
<1>11. Settled(N + 1)' = 0
  <2>1. businesses'[N + 1].income = income /\ businesses'[N + 1].last = time
    BY <1>5
  <2>2. Settled(N + 1)' = income * Days(time, time)
    BY <1>6, <2>1 DEF Settled, Days
  <2> QED BY <1>4, <1>8, <2>2
<1> DEFINE after == [i \in Owned |-> Settled(i)]'
<1>12. Sum(after) = Sum(settled)
  <2>1. settled \in [1..N -> Int] /\ \A i \in 1..N : settled[i] = Settled(i)
    BY <1>1, EarnedIsSettled DEF settled
  <2>2. after = [i \in 1..N + 1 |-> Settled(i)']
    BY <1>7
  <2>3. /\ \A i \in 1..N : after[i] = settled[i]
        /\ after[N + 1] = 0
    BY <1>7, <1>10, <1>11, <2>1, <2>2
  <2>4. after \in [1..N + 1 -> Int]
    <3> HIDE DEF after
    <3>1. \A i \in 1..N : after[i] \in Int
      BY <2>1, <2>3
    <3>2. \A i \in 1..N + 1 : after[i] \in Int
      BY <1>7, <2>3, <3>1
    <3>3. after = [i \in 1..N + 1 |-> after[i]]
      BY <2>2
    <3> QED BY <3>2, <3>3
  <2> HIDE DEF after
  <2>5. Sum(settled) \in Int /\ Sum(after) = Sum(settled) + after[N + 1]
    BY <1>1, <2>1, <2>3, <2>4, SumAppend
  <2> QED BY <2>3, <2>5
<1>13. \A i \in 1..N : Earned(i)' = Earned(i)
  BY <1>2, <1>5, <1>6 DEF Earned
<1>14. GoldIsSettled'
  <2>1. (\A i \in Owned' : Earned(i)' <= Cap)
            => \A i \in Owned : Earned(i) <= Cap
    <3>1. \A i \in Owned : i \in Owned' /\ Earned(i)' = Earned(i)
      BY <1>1, <1>7, <1>13
    <3> QED BY <3>1
  <2> QED BY <1>2, <1>12, <2>1 DEF GoldIsSettled, settled
<1> QED BY <1>9, <1>14

\* What is due is a natural number.
LEMMA DueIsNatural ==
    ASSUME EconomyTyped
    PROVE  Sum([i \in Owned |-> Preview(businesses[i])]) \in Nat
<1> DEFINE preview == [i \in Owned |-> Preview(businesses[i])]
<1> PICK N \in Nat : Owned = 1..N
    BY Businesses
<1>1. \A i \in 1..N : Preview(businesses[i]) \in Nat
  BY OneCollected
<1>2. preview \in [1..N -> Nat]
  BY <1>1
<1> HIDE DEF preview
<1>3. Sum(preview) \in Nat
  BY <1>2, SumNatural
<1> QED BY <1>3 DEF preview

\* A step that leaves the accounts alone.
LEMMA AccountsStay ==
    ASSUME EconomyTyped, GoldIsSettled, UNCHANGED <<time, gold, businesses, bought>>,
           turnInProgress' \in BOOLEAN, shown' \in Nat \cup {-1}
    PROVE  EconomyTyped' /\ GoldIsSettled'
<1>1. Owned' = Owned
  BY DEF Owned
<1>2. \A i : WholeDaysOn(i)' = WholeDaysOn(i) /\ Settled(i)' = Settled(i)
  BY DEF WholeDaysOn, Settled, Days
<1>3. \A i : Earned(i)' = Earned(i)
  BY DEF Earned
<1>4. [i \in Owned |-> Settled(i)]' = [i \in Owned |-> Settled(i)]
  BY <1>1, <1>2
<1>5. EconomyTyped'
  BY <1>1, <1>2 DEF EconomyTyped
<1>6. GoldIsSettled'
  BY <1>1, <1>3, <1>4 DEF GoldIsSettled
<1> QED BY <1>5, <1>6

\* Every step keeps the invariant.
LEMMA IncomeStep ==
    ASSUME IncomeInv, [IncomeNext]_incomeVars
    PROVE  IncomeInv'
<1>1. /\ EconomyTyped /\ GoldIsSettled /\ ShownIsDue
      /\ turnInProgress \in BOOLEAN /\ shown \in Nat \cup {-1}
  BY DEF IncomeInv, EconomyTyped
<1>2. CASE BeginJob
  <2>1. UNCHANGED <<time, gold, businesses, bought>> /\ turnInProgress' = TRUE /\ shown' = -1
    BY <1>2 DEF BeginJob
  <2>2. EconomyTyped' /\ GoldIsSettled'
    BY <1>1, <2>1, AccountsStay
  <2> QED BY <2>1, <2>2 DEF IncomeInv, ShownIsDue
<1>3. CASE SetLocation
  <2>1. turnInProgress /\ shown' = shown
    BY <1>3 DEF SetLocation
  <2>2. EconomyTyped' /\ GoldIsSettled'
    BY <1>1, <1>3, TimePasses
  <2> QED BY <1>1, <2>1, <2>2 DEF IncomeInv, ShownIsDue
<1>4. CASE AddBusiness
  <2>1. turnInProgress /\ shown' = shown
    BY <1>4 DEF AddBusiness
  <2>2. EconomyTyped' /\ GoldIsSettled'
    BY <1>1, <1>4, BusinessBought
  <2> QED BY <1>1, <2>1, <2>2 DEF IncomeInv, ShownIsDue
<1>5. CASE EndTurn
  <2>1. /\ turnInProgress /\ turnInProgress' = FALSE /\ CollectAll
        /\ UNCHANGED <<time, shown, bought>>
    BY <1>5 DEF EndTurn
  <2>2. EconomyTyped' /\ GoldIsSettled'
    BY <1>1, <2>1, AllCollected
  <2> QED BY <1>1, <2>1, <2>2 DEF IncomeInv, ShownIsDue
<1>6. CASE EndOtherJob
  <2>1. /\ turnInProgress /\ turnInProgress' = FALSE
        /\ UNCHANGED <<time, gold, businesses, shown, bought>>
    BY <1>6 DEF EndOtherJob
  <2>2. EconomyTyped' /\ GoldIsSettled'
    BY <1>1, <2>1, AccountsStay
  <2> QED BY <1>1, <2>1, <2>2 DEF IncomeInv, ShownIsDue
<1>7. CASE DrawFrame
  <2> DEFINE due == Sum([i \in Owned |-> Preview(businesses[i])])
  <2>1. /\ shown' = IF turnInProgress THEN -1 ELSE due
        /\ UNCHANGED <<time, gold, businesses, turnInProgress, bought>>
    BY <1>7 DEF DrawFrame
  <2>2. due \in Nat
    BY <1>1, DueIsNatural
  <2>3. EconomyTyped' /\ GoldIsSettled'
    <3> HIDE DEF due
    <3> QED BY <1>1, <2>1, <2>2, AccountsStay
  <2>4. [i \in Owned |-> Preview(businesses[i])]'
            = [i \in Owned |-> Preview(businesses[i])]
    BY <2>1 DEF Owned, Preview
  <2>5. ShownIsDue'
    BY <2>1, <2>4 DEF ShownIsDue
  <2> QED BY <2>3, <2>5 DEF IncomeInv
<1>8. CASE CollectIncome
  <2>1. /\ shown' = -1 /\ UNCHANGED <<time, turnInProgress, bought>>
        /\ IF turnInProgress THEN UNCHANGED <<gold, businesses>> ELSE CollectAll
    BY <1>8 DEF CollectIncome
  <2>2. EconomyTyped' /\ GoldIsSettled'
    BY <1>1, <2>1, AllCollected, AccountsStay
  <2> QED BY <2>1, <2>2 DEF IncomeInv, ShownIsDue
<1>9. CASE UNCHANGED incomeVars
  <2>1. UNCHANGED <<time, gold, businesses, turnInProgress, shown, bought>>
    BY <1>9 DEF incomeVars
  <2>2. EconomyTyped' /\ GoldIsSettled'
    BY <1>1, <2>1, AccountsStay
  <2>3. [i \in Owned |-> Preview(businesses[i])]'
            = [i \in Owned |-> Preview(businesses[i])]
    BY <2>1 DEF Owned, Preview
  <2> QED BY <1>1, <2>1, <2>2, <2>3 DEF IncomeInv, ShownIsDue
<1> QED BY <1>2, <1>3, <1>4, <1>5, <1>6, <1>7, <1>8, <1>9 DEF IncomeNext

\* What the invariant says of the days.
LEMMA IncomeInvPaysDays ==
    ASSUME IncomeInv
    PROVE  DaysPaidOnce
<1> DEFINE settled == Sum([i \in Owned |-> Settled(i)])
           outstanding == Sum([i \in Owned |-> Outstanding(i)])
           earnings == Sum([i \in Owned |-> Earned(i)])
<1>1. settled \in Int /\ outstanding \in Int /\ earnings = settled + outstanding
  BY BusinessSums DEF IncomeInv
<1>2. /\ gold \in Nat /\ gold <= settled
      /\ (\A i \in Owned : Earned(i) <= Cap) => gold = settled
  BY DEF IncomeInv, EconomyTyped, GoldIsSettled
<1>3. DaysPaidOnce <=>
        /\ gold + outstanding <= earnings
        /\ (\A i \in Owned : Earned(i) <= Cap) => gold + outstanding = earnings
  BY DEF DaysPaidOnce
<1> HIDE DEF settled, outstanding, earnings
<1> QED BY <1>1, <1>2, <1>3

\* What it says of the types.
LEMMA IncomeInvTypes ==
    ASSUME IncomeInv
    PROVE  IncomeTypeOK
<1>1. EconomyTyped
  BY DEF IncomeInv
<1>2. \A i \in Owned :
        businesses[i].income \in Incomes /\ businesses[i].last \in bought[i]..time
  <2> SUFFICES ASSUME NEW i \in Owned
               PROVE  businesses[i].income \in Incomes /\ businesses[i].last \in bought[i]..time
      OBVIOUS
  <2>1. /\ businesses[i] \in [income : Incomes, last : Int] /\ businesses[i].last \in Int
        /\ bought[i] \in Nat /\ time \in Nat
    BY <1>1, Businesses
  <2>2. bought[i] <= businesses[i].last /\ businesses[i].last <= time
    BY <1>1 DEF EconomyTyped
  <2> QED BY <2>1, <2>2
<1> QED BY <1>1, <1>2 DEF EconomyTyped, IncomeTypeOK

\* What it says of a click.
LEMMA ClickPaysShown ==
    ASSUME IncomeInv, CollectIncome
    PROVE  gold' = gold + shown
<1>1. shown > 0 /\ IF turnInProgress THEN UNCHANGED <<gold, businesses>> ELSE CollectAll
  BY DEF CollectIncome
<1>2. ~turnInProgress
      /\ shown = Sum([i \in Owned |-> Preview(businesses[i])])
  BY <1>1 DEF IncomeInv, ShownIsDue
<1>3. gold' = gold + Sum([i \in Owned |-> Pay(businesses[i])])
  BY <1>1, <1>2 DEF CollectAll
<1>4. EconomyTyped
  BY DEF IncomeInv
<1>5. Sum([i \in Owned |-> Pay(businesses[i])])
        = Sum([i \in Owned |-> Preview(businesses[i])])
  BY <1>4, BusinessSums
<1> QED BY <1>2, <1>3, <1>5

-----------------------------------------------------------------------------
\* Collecting at the end of a turn and at a click, time that a tool adds and a business
\* bought at any minute keep the invariant (Engine::collect_income, rules/world).
THEOREM IncomeInvariance == IncomeSpec => []IncomeInv
<1>1. IncomeInit => IncomeInv
  BY InitIncome
<1>2. IncomeInv /\ [IncomeNext]_incomeVars => IncomeInv'
  BY IncomeStep
<1> QED BY <1>1, <1>2, PTL DEF IncomeSpec

\* Every whole day a business was owned is paid once or still due, and a day is lost only
\* where the cap was met (collect_business_income, called by Engine::run_turn and by
\* Engine::collect_income).
THEOREM DaysArePaidOnce == IncomeSpec => []DaysPaidOnce
<1>1. IncomeInv => DaysPaidOnce
  BY IncomeInvPaysDays
<1>2. IncomeSpec => []IncomeInv
  BY IncomeInvariance
<1> QED BY <1>1, <1>2, PTL

\* Types: among them, that no collection sets last_collected beyond the present.
THEOREM IncomeTypeCorrect == IncomeSpec => []IncomeTypeOK
<1>1. IncomeInv => IncomeTypeOK
  BY IncomeInvTypes
<1>2. IncomeSpec => []IncomeInv
  BY IncomeInvariance
<1> QED BY <1>1, <1>2, PTL

\* A click on the assets window pays what its frame showed: pending_business_income and
\* collect_business_income agree, and no collection comes between frame and click.
THEOREM PreviewIsWhatIsPaid == IncomeSpec => PreviewIsPaid
<1>1. IncomeInv /\ [IncomeNext]_incomeVars
        => [CollectIncome => gold' = gold + shown]_incomeVars
  BY ClickPaysShown
<1>2. IncomeSpec => []IncomeInv
  BY IncomeInvariance
<1> QED BY <1>1, <1>2, PTL DEF IncomeSpec, PreviewIsPaid
=============================================================================
