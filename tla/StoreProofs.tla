----------------------------- MODULE StoreProofs ----------------------------
(***************************************************************************)
(* The two backends agree and serve, for any ids, owners and texts and any *)
(* number of messages: theorems about Store.                               *)
(*                                                                         *)
(* Rows: an array is written in place and shrinks by moving rows, a table  *)
(* is a set; Kept ties the one to the other.  Transcripts: an array that   *)
(* all campaigns share, and rows that are numbered in each campaign.  Both *)
(* are listed in the order of numbers, so the lemma they need is that the  *)
(* listing of numbers grows at its end by one larger than all of them.     *)
(***************************************************************************)
EXTENDS Store, FiniteSetTheorems, SequenceTheorems, TLAPS

-----------------------------------------------------------------------------
(* The inductive invariant.                                                *)

CharRows == [id : CharIds, json : Texts]
CampRows == [id : CampIds, parent : Owners, json : Texts]
Said == [campaign : CampIds, content : Texts]

\* The array holds what the table holds, one row of an id.
Kept(rows, table, S) ==
    /\ rows \in Seq(S) /\ ToSet(rows) = table
    /\ \A i, j \in DOMAIN rows : rows[i].id = rows[j].id => i = j

\* A campaign's rows have numbers of their own, fewer than messages were appended.
OwnNumbers ==
    /\ IsFiniteSet(sqMsgs)
    /\ sqMsgs \subseteq [campaign : CampIds, content : Texts, idx : 0..Len(memMsgs) - 1]
    /\ \A x, y \in sqMsgs : x.campaign = y.campaign /\ x.idx = y.idx => x = y

StoreInv ==
    /\ Kept(memChars, sqChars, CharRows) /\ Kept(memCamps, sqCamps, CampRows)
    /\ memMsgs \in Seq(Said) /\ Len(memMsgs) <= MaxMessages /\ OwnNumbers
    /\ \A c \in CampIds : MemMessages(memMsgs, c) = SqMessages(sqMsgs, c)

-----------------------------------------------------------------------------
(* Listings.                                                               *)

Below(T, i) == {j \in T : j < i}

\* Each number of a finite set has a place of its own, and each place a number.
LEMMA Places ==
    ASSUME NEW T, T \subseteq Int, IsFiniteSet(T)
    PROVE  /\ Cardinality(T) \in Nat
           /\ \A i \in T : \A k : Cardinality(Below(T, i)) = k - 1 => Nth(T, k) = i
           /\ \A k \in 1..Cardinality(T) :
                 Nth(T, k) \in T /\ Cardinality(Below(T, Nth(T, k))) = k - 1
           /\ \A i \in T : \E k \in 1..Cardinality(T) : Nth(T, k) = i
<1> DEFINE n == Cardinality(T)
           below(i) == {j \in T : j < i}
           rank(i) == Cardinality(below(i))
<1>1. n \in Nat
  BY FS_CardinalityType
<1>2. ASSUME NEW i \in T
      PROVE  IsFiniteSet(below(i)) /\ rank(i) \in Nat /\ rank(i) <= n - 1
  <2>1. IsFiniteSet(T \ {i}) /\ Cardinality(T \ {i}) = n - 1
    BY FS_RemoveElement
  <2>2. below(i) \subseteq T \ {i}
    OBVIOUS
  <2> HIDE DEF below, n
  <2>3. IsFiniteSet(below(i)) /\ rank(i) <= Cardinality(T \ {i})
    BY <2>1, <2>2, FS_Subset
  <2> QED BY <2>1, <2>3, FS_CardinalityType
<1>3. ASSUME NEW i \in T, NEW j \in T, i < j PROVE rank(i) < rank(j)
  <2>1. below(i) \subseteq below(j) /\ i \in below(j) /\ i \notin below(i)
    <3>1. \A x \in T : x < i => x < j
      BY <1>3
    <3>2. ~(i < i)
      OBVIOUS
    <3> QED BY <1>3, <3>1, <3>2
  <2> HIDE DEF below
  <2>2. rank(i) <= rank(j) /\ (rank(j) = rank(i) => below(j) = below(i))
    BY <1>2, <2>1, FS_Subset
  <2>3. rank(i) # rank(j)
    BY <2>1, <2>2
  <2>4. rank(i) \in Nat /\ rank(j) \in Nat
    BY <1>2
  <2> HIDE DEF rank
  <2> QED BY <2>2, <2>3, <2>4
<1>4. \A i, j \in T : rank(i) = rank(j) => i = j
  <2> SUFFICES ASSUME NEW i \in T, NEW j \in T, rank(i) = rank(j) PROVE i = j
      OBVIOUS
  <2>1. rank(i) \in Nat /\ ~(rank(i) < rank(j)) /\ ~(rank(j) < rank(i))
    <3>1. rank(i) \in Nat /\ rank(j) \in Nat
      BY <1>2
    <3> HIDE DEF rank
    <3> QED BY <3>1
  <2>2. ~(i < j) /\ ~(j < i)
    BY <1>3, <2>1
  <2> QED BY <2>2
<1> HIDE DEF rank, n
<1> DEFINE f == [i \in T |-> rank(i) + 1]
<1>5. f \in [T -> 1..n] /\ \A i \in T : f[i] = rank(i) + 1
  <2>1. \A r \in Nat : r <= n - 1 => r + 1 \in 1..n
    BY <1>1
  <2>2. \A i \in T : rank(i) + 1 \in 1..n
    BY <1>2, <2>1
  <2> QED BY <2>2
<1>6. f \in Injection(T, 1..n)
  <2>1. \A i, j \in T : f[i] = f[j] => i = j
    <3> SUFFICES ASSUME NEW i \in T, NEW j \in T, f[i] = f[j] PROVE i = j
        OBVIOUS
    <3>1. rank(i) \in Nat /\ rank(j) \in Nat /\ rank(i) + 1 = rank(j) + 1
      BY <1>2, <1>5
    <3>2. rank(i) = rank(j)
      BY <3>1
    <3> QED BY <1>4, <3>2
  <2> HIDE DEF f
  <2> QED BY <1>5, <2>1 DEF Injection, IsInjective
<1> HIDE DEF f
<1>7. f \in Surjection(T, 1..n)
  <2>1. IsFiniteSet(1..n) /\ Cardinality(1..n) = n
    BY <1>1, FS_Interval
  <2>2. Cardinality(T) = Cardinality(1..n)
    BY <2>1 DEF n
  <2> QED BY <1>6, <2>1, <2>2, FS_Injection
<1>8. \A k \in 1..n : \E i \in T : rank(i) = k - 1
  <2> SUFFICES ASSUME NEW k \in 1..n PROVE \E i \in T : rank(i) = k - 1
      OBVIOUS
  <2>1. PICK i \in T : f[i] = k
    BY <1>7 DEF Surjection
  <2>2. rank(i) \in Nat /\ rank(i) + 1 = k
    BY <1>2, <1>5, <2>1
  <2> QED BY <2>2
<1>9. ASSUME NEW i \in T, NEW k, rank(i) = k - 1 PROVE Nth(T, k) = i
  <2>1. Nth(T, k) \in T /\ rank(Nth(T, k)) = k - 1
    BY <1>9 DEF Nth, rank
  <2> QED BY <1>4, <1>9, <2>1
<1>10. ASSUME NEW k \in 1..n PROVE Nth(T, k) \in T /\ rank(Nth(T, k)) = k - 1
  BY <1>8, <1>9
<1>11. ASSUME NEW i \in T PROVE \E k \in 1..n : Nth(T, k) = i
  <2>1. PICK k \in 1..n : f[i] = k
    BY <1>5
  <2>2. rank(i) = k - 1
    <3>1. rank(i) \in Nat /\ rank(i) + 1 = k
      BY <1>2, <1>5, <2>1
    <3> QED BY <3>1
  <2> QED BY <1>9, <2>2
<1> QED BY <1>1, <1>9, <1>10, <1>11 DEF rank, n, Below

\* The number that has k - 1 below it is the k-th.
LEMMA Placed ==
    ASSUME NEW T, T \subseteq Int, IsFiniteSet(T), NEW i \in T, NEW k \in Int,
           Cardinality(Below(T, i)) = k - 1
    PROVE  Nth(T, k) = i
BY Places

\* A listing lists everything.
LEMMA ListsAll ==
    ASSUME NEW f, DOMAIN f \subseteq Int, IsFiniteSet(DOMAIN f)
    PROVE  ToSet(InOrder(f)) = {f[i] : i \in DOMAIN f}
<1> PICK T, n : T = DOMAIN f /\ n = Cardinality(T)
    OBVIOUS
<1>1. DOMAIN InOrder(f) = 1..n /\ \A k \in 1..n : InOrder(f)[k] = f[Nth(T, k)]
  BY DEF InOrder
<1>2. /\ \A k \in 1..n : Nth(T, k) \in T
      /\ \A i \in T : \E k \in 1..n : Nth(T, k) = i
  BY Places
<1> QED BY <1>1, <1>2 DEF ToSet

\* A number larger than all of the set takes the place behind them.
LEMMA PlaceAdded ==
    ASSUME NEW T, T \subseteq Int, IsFiniteSet(T), NEW x \in Int, \A i \in T : i < x
    PROVE  /\ Cardinality(T) \in Nat /\ Cardinality(T \cup {x}) = Cardinality(T) + 1
           /\ Nth(T \cup {x}, Cardinality(T) + 1) = x
           /\ \A k \in 1..Cardinality(T) :
                 Nth(T \cup {x}, k) = Nth(T, k) /\ Nth(T, k) \in T
<1> PICK n, U : n = Cardinality(T) /\ U = T \cup {x}
    OBVIOUS
<1>1. /\ x \notin T /\ U \subseteq Int /\ ~(x < x)
      /\ \A i \in T : ~(x < i)
  OBVIOUS
<1>2. IsFiniteSet(U) /\ n \in Nat /\ Cardinality(U) = n + 1
  BY <1>1, FS_AddElement, FS_CardinalityType
<1>3. \A k \in 1..n : Nth(T, k) \in T /\ Cardinality(Below(T, Nth(T, k))) = k - 1
  BY Places
<1>4. ASSUME NEW k \in 1..n PROVE Nth(U, k) = Nth(T, k)
  <2>1. PICK i \in T : i = Nth(T, k) /\ Cardinality(Below(T, i)) = k - 1
    BY <1>3
  <2>2. Below(U, i) = Below(T, i)
    BY <1>1 DEF Below
  <2>3. i \in U /\ k \in Int /\ Cardinality(Below(U, i)) = k - 1
    BY <2>1, <2>2
  <2> QED BY <1>1, <1>2, <2>1, <2>3, Placed
<1>5. Nth(U, n + 1) = x
  <2>1. Below(U, x) = T
    BY <1>1 DEF Below
  <2>2. x \in U /\ n + 1 \in Int /\ Cardinality(Below(U, x)) = (n + 1) - 1
    BY <1>2, <2>1
  <2> QED BY <1>1, <1>2, <2>2, Placed
<1> QED BY <1>2, <1>3, <1>4, <1>5

\* What is kept under numbers, finitely many, and is listed; and one more of it.
Listed(f, S) == DOMAIN f \subseteq Int /\ IsFiniteSet(DOMAIN f) /\ \A i \in DOMAIN f : f[i] \in S
Above(x, f) == x \in Int /\ \A i \in DOMAIN f : i < x
Grown(f, x, v) == [i \in DOMAIN f \cup {x} |-> IF i = x THEN v ELSE f[i]]

\* A listing grows at its end by what has a larger number.
LEMMA ListGrows ==
    ASSUME NEW f, NEW S, Listed(f, S), NEW x, Above(x, f), NEW v \in S
    PROVE  InOrder(f) \in Seq(S) /\ InOrder(Grown(f, x, v)) = Append(InOrder(f), v)
<1> PICK T, n, U, s, t, g : /\ T = DOMAIN f /\ n = Cardinality(T) /\ U = T \cup {x}
                            /\ g = Grown(f, x, v) /\ s = InOrder(f) /\ t = InOrder(g)
    OBVIOUS
<1>1. /\ n \in Nat /\ Cardinality(U) = n + 1 /\ Nth(U, n + 1) = x
      /\ \A k \in 1..n : Nth(U, k) = Nth(T, k) /\ Nth(T, k) \in T
  <2>1. T \subseteq Int /\ IsFiniteSet(T) /\ x \in Int /\ \A i \in T : i < x
    BY DEF Listed, Above
  <2>2. /\ Cardinality(T) \in Nat /\ Cardinality(T \cup {x}) = Cardinality(T) + 1
        /\ Nth(T \cup {x}, Cardinality(T) + 1) = x
        /\ \A k \in 1..Cardinality(T) : Nth(T \cup {x}, k) = Nth(T, k) /\ Nth(T, k) \in T
    BY <2>1, PlaceAdded
  <2> QED BY <2>2
<1>2. x \notin T
  <2>1. x \in Int /\ \A i \in T : i < x
    BY DEF Above
  <2>2. ~(x < x)
    BY <2>1
  <2> QED BY <2>1, <2>2
<1>3. DOMAIN g = U /\ g[x] = v /\ \A i \in T : g[i] = f[i] /\ f[i] \in S
  BY <1>2 DEF Grown, Listed
<1>4. s = [k \in 1..n |-> f[Nth(T, k)]]
  BY DEF InOrder
<1>5. t = [k \in 1..n + 1 |-> g[Nth(U, k)]]
  BY <1>1, <1>3 DEF InOrder
<1>6. s \in [1..n -> S]
  BY <1>1, <1>3, <1>4
<1>7. s \in Seq(S) /\ Len(s) = n
  <2>1. s \in Seq(S)
    BY <1>1, <1>6, SeqDef
  <2> QED BY <1>1, <1>6, <2>1, LenProperties
<1>8. /\ Append(s, v) \in Seq(S) /\ Len(Append(s, v)) = n + 1 /\ Append(s, v)[n + 1] = v
      /\ \A k \in 1..n : Append(s, v)[k] = s[k]
  BY <1>7
<1>9. \A k \in 1..n + 1 : t[k] = Append(s, v)[k]
  <2>1. n + 1 \in 1..n + 1 /\ \A k \in 1..n + 1 : k \in 1..n \/ k = n + 1
    BY <1>1
  <2>2. t[n + 1] = v
    <3>1. t[n + 1] = g[Nth(U, n + 1)]
      BY <1>5, <2>1
    <3> QED BY <1>1, <1>3, <3>1
  <2>3. \A k \in 1..n : t[k] = s[k]
    <3> SUFFICES ASSUME NEW k \in 1..n PROVE t[k] = s[k]
        OBVIOUS
    <3>1. k \in 1..n + 1
      BY <1>1
    <3>2. t[k] = g[Nth(T, k)] /\ s[k] = f[Nth(T, k)]
      BY <1>1, <1>4, <1>5, <3>1
    <3> QED BY <1>1, <1>3, <3>2
  <2> QED BY <1>8, <2>1, <2>2, <2>3
<1>10. Append(s, v) \in [1..n + 1 -> S]
  BY <1>8, LenProperties
<1> QED BY <1>5, <1>7, <1>9, <1>10

\* What a function of a finite domain takes as values is finite.
LEMMA FiniteRange ==
    ASSUME NEW f, IsFiniteSet(DOMAIN f), f = [x \in DOMAIN f |-> f[x]]
    PROVE  IsFiniteSet({f[x] : x \in DOMAIN f})
<1> PICK T : T = {f[x] : x \in DOMAIN f}
    OBVIOUS
<1>1. f \in Surjection(DOMAIN f, T)
  BY DEF Surjection
<1>2. IsFiniteSet(T)
  BY <1>1, FS_Surjection
<1> QED BY <1>2

-----------------------------------------------------------------------------
(* Rows.                                                                   *)

\* The row of an id is found if there is one.
LEMMA RowFound ==
    ASSUME NEW rows, NEW table, NEW S, Kept(rows, table, S), NEW id
    PROVE  \/ RowOf(rows, id) = 0 /\ \A i \in DOMAIN rows : rows[i].id # id
           \/ RowOf(rows, id) \in DOMAIN rows /\ rows[RowOf(rows, id)].id = id
<1> DEFINE I == {i \in 1..Len(rows) : rows[i].id = id}
<1>1. DOMAIN rows = 1..Len(rows) /\ Len(rows) \in Nat
  BY DEF Kept
<1>2. RowOf(rows, id) = IF I # {} THEN Min(I) ELSE 0
  BY DEF RowOf, SelectInSeq
<1>3. CASE I = {}
  BY <1>1, <1>2, <1>3
<1>4. CASE I # {}
  <2>1. PICK i \in I : TRUE
    BY <1>4
  <2>2. I = {i} /\ i \in Int
    BY <1>1, <2>1 DEF Kept
  <2>3. Min({i}) = i
    <3>1. \E x \in {i} : \A y \in {i} : x <= y
      BY <2>2
    <3> QED BY <3>1 DEF Min
  <2>4. RowOf(rows, id) = i
    BY <1>2, <1>4, <2>2, <2>3
  <2> QED BY <1>1, <2>1, <2>4
<1> QED BY <1>3, <1>4

\* What is found by its id is the row of the table.
LEMMA RowLoaded ==
    ASSUME NEW rows, NEW table, NEW S, Kept(rows, table, S)
    PROVE  /\ ToSet(MemList(rows)) = {r.id : r \in table}
           /\ \A r \in table : Loaded(rows, r.id) = r
<1>1. DOMAIN MemList(rows) = DOMAIN rows /\ \A i \in DOMAIN rows : MemList(rows)[i] = rows[i].id
  BY DEF MemList
<1>2. table = {rows[i] : i \in DOMAIN rows}
  BY DEF Kept, ToSet
<1>3. ToSet(MemList(rows)) = {r.id : r \in table}
  BY <1>1, <1>2 DEF ToSet
<1>4. ASSUME NEW r \in table PROVE Loaded(rows, r.id) = r
  <2>1. PICK i \in DOMAIN rows : rows[i] = r
    BY <1>2
  <2>2. PICK id : id = r.id
    OBVIOUS
  <2>3. RowOf(rows, id) \in DOMAIN rows /\ rows[RowOf(rows, id)].id = id
    BY <2>1, <2>2, RowFound
  <2>4. RowOf(rows, id) = i
    BY <2>1, <2>2, <2>3 DEF Kept
  <2> QED BY <2>1, <2>2, <2>4 DEF Loaded
<1> QED BY <1>3, <1>4

\* A write replaces the row of its id or adds one, in both.
LEMMA UpsertKept ==
    ASSUME NEW rows, NEW table, NEW S, Kept(rows, table, S), NEW row \in S
    PROVE  Kept(MemUpsert(rows, row), SqUpsert(table, row), S)
<1>1. /\ rows \in Seq(S) /\ DOMAIN rows = 1..Len(rows) /\ Len(rows) \in Nat
      /\ \A i, j \in DOMAIN rows : rows[i].id = rows[j].id => i = j
      /\ table = {rows[i] : i \in DOMAIN rows}
  BY DEF Kept, ToSet
<1> PICK n, at, new, set : /\ n = Len(rows) /\ at = RowOf(rows, row.id)
                           /\ new = MemUpsert(rows, row) /\ set = SqUpsert(table, row)
    OBVIOUS
<1>2. set = {r \in table : r.id # row.id} \cup {row}
  BY DEF SqUpsert
<1>3. CASE at = 0 /\ \A i \in DOMAIN rows : rows[i].id # row.id
  <2>1. new = Append(rows, row)
    BY <1>3 DEF MemUpsert
  <2>2. /\ new \in Seq(S) /\ DOMAIN new = 1..n + 1 /\ new[n + 1] = row
        /\ \A i \in 1..n : new[i] = rows[i]
    BY <1>1, <2>1
  <2>3. \A i \in DOMAIN new : (i \in DOMAIN rows /\ new[i] = rows[i]) \/ (i = n + 1 /\ new[i] = row)
    BY <1>1, <2>2
  <2>4. n + 1 \in DOMAIN new /\ \A i \in DOMAIN rows : i \in DOMAIN new /\ new[i] = rows[i]
    BY <1>1, <2>2
  <2>5. {new[i] : i \in DOMAIN new} = set
    BY <1>1, <1>2, <1>3, <2>2, <2>3, <2>4
  <2>6. \A i, j \in DOMAIN new : new[i].id = new[j].id => i = j
    BY <1>1, <1>3, <2>3
  <2> QED BY <2>2, <2>5, <2>6 DEF Kept, ToSet
<1>4. CASE at \in DOMAIN rows /\ rows[at].id = row.id
  <2>1. new = [rows EXCEPT ![at] = row]
    BY <1>1, <1>4 DEF MemUpsert
  <2>2. new \in Seq(S) /\ DOMAIN new = DOMAIN rows /\ new[at] = row
        /\ \A i \in DOMAIN rows : i # at => new[i] = rows[i]
    BY <1>1, <1>4, <2>1, ExceptSeq
  <2>3. {new[i] : i \in DOMAIN new} = set
    BY <1>1, <1>2, <1>4, <2>2
  <2>4. \A i, j \in DOMAIN new : new[i].id = new[j].id => i = j
    BY <1>1, <1>4, <2>2
  <2> QED BY <2>2, <2>3, <2>4 DEF Kept, ToSet
<1> QED BY <1>1, <1>3, <1>4, RowFound

\* A delete takes away the row of its id, although the last one moves.
LEMMA DeleteKept ==
    ASSUME NEW rows, NEW table, NEW S, Kept(rows, table, S), NEW id
    PROVE  Kept(MemDelete(rows, id), SqDelete(table, id), S)
<1>1. /\ rows \in Seq(S) /\ DOMAIN rows = 1..Len(rows) /\ Len(rows) \in Nat
      /\ \A i, j \in DOMAIN rows : rows[i].id = rows[j].id => i = j
      /\ table = {rows[i] : i \in DOMAIN rows}
  BY DEF Kept, ToSet
<1> PICK n, at, new, set : /\ n = Len(rows) /\ at = RowOf(rows, id)
                           /\ new = MemDelete(rows, id) /\ set = SqDelete(table, id)
    OBVIOUS
<1>2. set = {r \in table : r.id # id}
  BY DEF SqDelete
<1>3. CASE at = 0 /\ \A i \in DOMAIN rows : rows[i].id # id
  <2>1. new = rows
    BY <1>3 DEF MemDelete
  <2>2. set = table
    BY <1>1, <1>2, <1>3
  <2> QED BY <2>1, <2>2
<1>4. CASE at \in DOMAIN rows /\ rows[at].id = id
  <2>1. PICK moved : moved = [rows EXCEPT ![at] = rows[n]]
    OBVIOUS
  <2>2. at \in Nat /\ at >= 1 /\ at <= n /\ n >= 1 /\ n \in DOMAIN rows /\ rows[n] \in S
    BY <1>1, <1>4
  <2>3. moved \in Seq(S) /\ Len(moved) = n /\ moved[at] = rows[n]
        /\ \A i \in 1..n : i # at => moved[i] = rows[i]
    BY <1>1, <1>4, <2>1, <2>2, ExceptSeq
  <2>4. new = SubSeq(moved, 1, n - 1)
    BY <1>1, <1>4, <2>1, <2>3 DEF MemDelete, Front, Last
  <2>5. \A i \in 1..n - 1 : i \in 1..n /\ moved[i] \in S
    BY <2>2, <2>3
  <2>6. /\ new \in Seq(S) /\ Len(new) = IF 1 <= n - 1 THEN (n - 1) - 1 + 1 ELSE 0
        /\ \A i \in 1..(n - 1) - 1 + 1 : new[i] = moved[1 + i - 1]
    BY <2>2, <2>4, <2>5, SubSeqProperties
  <2>7. DOMAIN new = 1..n - 1 /\ \A i \in 1..n - 1 : new[i] = moved[i]
    <3>1. Len(new) = n - 1 /\ \A i \in 1..n - 1 : new[i] = moved[i]
      BY <2>2, <2>6
    <3> QED BY <2>6, <3>1
  <2>8. \A i \in DOMAIN new : \/ i = at /\ at # n /\ new[i] = rows[n]
                              \/ i # at /\ i # n /\ i \in DOMAIN rows /\ new[i] = rows[i]
    BY <1>1, <2>2, <2>3, <2>5, <2>7
  <2>9. \A i \in DOMAIN rows : i # at => \/ i = n /\ at \in DOMAIN new /\ new[at] = rows[i]
                                         \/ i \in DOMAIN new /\ new[i] = rows[i]
    BY <1>1, <2>2, <2>3, <2>7
  <2>10. {new[i] : i \in DOMAIN new} = {rows[i] : i \in DOMAIN rows \ {at}}
    BY <2>2, <2>8, <2>9
  <2>11. set = {rows[i] : i \in DOMAIN rows \ {at}}
    BY <1>1, <1>2, <1>4
  <2>12. \A i, j \in DOMAIN new : new[i].id = new[j].id => i = j
    BY <1>1, <2>2, <2>8
  <2>13. ToSet(new) = set
    BY <2>10, <2>11 DEF ToSet
  <2>14. Kept(new, set, S)
    BY <2>6, <2>12, <2>13 DEF Kept
  <2> QED BY <2>14
<1> QED BY <1>1, <1>3, <1>4, RowFound

-----------------------------------------------------------------------------
(* Transcripts.                                                            *)

\* A finite set of numbers that is not empty has a largest.
LEMMA Largest ==
    ASSUME NEW T, T \subseteq Int, IsFiniteSet(T), T # {}
    PROVE  Max(T) \in T /\ \A i \in T : i <= Max(T)
<1> PICK n : n = Cardinality(T)
    OBVIOUS
<1>1. n \in Nat /\ n # 0
  BY FS_CardinalityType, FS_EmptySet
<1>2. PICK x \in T : x = Nth(T, n) /\ Cardinality(Below(T, x)) = n - 1
  <2>1. n \in 1..n
    BY <1>1
  <2> QED BY <2>1, Places
<1>3. IsFiniteSet(T \ {x}) /\ Cardinality(T \ {x}) = n - 1
  BY FS_RemoveElement
<1>4. Below(T, x) \subseteq T \ {x}
  BY DEF Below
<1>5. Below(T, x) = T \ {x}
  BY <1>2, <1>3, <1>4, FS_Subset
<1>6. \A i \in T : i <= x
  <2>1. \A i \in T \ {x} : i < x
    BY <1>5 DEF Below
  <2> QED BY <2>1
<1> QED BY <1>6 DEF Max

\* In the array, a message comes behind those of its campaign and leaves the others alone.
LEMMA MemGrows ==
    ASSUME NEW msgs \in Seq(Said), NEW id \in CampIds, NEW text \in Texts, NEW c \in CampIds
    PROVE  /\ MemMessages(msgs, c) \in Seq(Texts)
           /\ MemMessages(MemAppend(msgs, id, text), c) =
                IF c = id THEN Append(MemMessages(msgs, c), text) ELSE MemMessages(msgs, c)
<1> PICK n, new, own : /\ n = Len(msgs) /\ new = MemAppend(msgs, id, text)
                       /\ own = {j \in DOMAIN msgs : msgs[j].campaign = c}
    OBVIOUS
<1>1. /\ n \in Nat /\ DOMAIN msgs = 1..n /\ DOMAIN new = 1..n + 1
      /\ new[n + 1] = [campaign |-> id, content |-> text] /\ \A i \in 1..n : new[i] = msgs[i]
  BY DEF MemAppend, Said
<1>2. /\ own \subseteq 1..n /\ own \subseteq Int /\ n + 1 \notin own /\ n + 1 \in Int
      /\ \A i \in own : i < n + 1 /\ msgs[i].content \in Texts
  <2>1. \A i \in 1..n : msgs[i] \in Said /\ i < n + 1 /\ i \in Int
    BY <1>1, ElementOfSeq
  <2>2. own \subseteq 1..n /\ n + 1 \in Int /\ n + 1 \notin 1..n
    BY <1>1
  <2>3. \A m \in Said : m.content \in Texts
    BY DEF Said
  <2> QED BY <2>1, <2>2, <2>3
<1>3. IsFiniteSet(own)
  <2>1. IsFiniteSet(1..n)
    BY <1>1, FS_Interval
  <2> QED BY <1>2, <2>1, FS_Subset
<1> DEFINE f == [i \in own |-> msgs[i].content]
           g == Grown(f, n + 1, text)
<1>4. DOMAIN f = own /\ Listed(f, Texts) /\ MemMessages(msgs, c) = InOrder(f)
  BY <1>2, <1>3 DEF Listed, MemMessages
<1>5. InOrder(f) \in Seq(Texts) /\ InOrder(g) = Append(InOrder(f), text)
  <2>1. Above(n + 1, f)
    BY <1>2, <1>4 DEF Above
  <2> HIDE DEF f
  <2> QED BY <1>4, <2>1, ListGrows
<1>6. CASE c = id
  <2>1. {j \in DOMAIN new : new[j].campaign = c} = own \cup {n + 1}
    BY <1>1, <1>6
  <2>2. g = [i \in own \cup {n + 1} |-> new[i].content]
    <3>1. \A i \in own : i # n + 1 /\ f[i] = new[i].content
      BY <1>1, <1>2
    <3>2. text = new[n + 1].content
      BY <1>1
    <3> QED BY <3>1, <3>2 DEF Grown
  <2>3. MemMessages(new, c) = InOrder(g)
    BY <2>1, <2>2 DEF MemMessages
  <2> QED BY <1>4, <1>5, <1>6, <2>3
<1>7. CASE c # id
  <2>1. {j \in DOMAIN new : new[j].campaign = c} = own
    BY <1>1, <1>7
  <2>2. f = [i \in own |-> new[i].content]
    BY <1>1, <1>2
  <2>3. MemMessages(new, c) = InOrder(f)
    BY <2>1, <2>2 DEF MemMessages
  <2> QED BY <1>4, <1>5, <1>7, <2>3
<1> QED BY <1>6, <1>7

\* In the table, a message gets the next number of its campaign.
LEMMA SqGrows ==
    ASSUME OwnNumbers, memMsgs \in Seq(Said), NEW id \in CampIds, NEW text \in Texts
    PROVE  \E x \in 0..Len(memMsgs) :
              /\ SqAppend(sqMsgs, id, text) =
                    sqMsgs \cup {[campaign |-> id, content |-> text, idx |-> x]}
              /\ \A m \in sqMsgs : m.campaign = id => m.idx < x
<1> PICK n, numbers : n = Len(memMsgs) /\ numbers = {m.idx : m \in OfCampaign(sqMsgs, id)}
    OBVIOUS
<1>1. n \in Nat /\ numbers \subseteq 0..n - 1 /\ \A m \in sqMsgs : m.campaign = id => m.idx \in numbers
  BY DEF OwnNumbers, OfCampaign
<1>2. IsFiniteSet(numbers)
  <2>1. IsFiniteSet(0..n - 1)
    BY <1>1, FS_Interval
  <2> QED BY <1>1, <2>1, FS_Subset
<1> PICK T : T = {-1} \cup numbers
    OBVIOUS
<1>3. IsFiniteSet(T) /\ T \subseteq Int /\ -1 \in T /\ \A i \in T : i <= n - 1 /\ i >= -1
  <2>1. T = numbers \cup {-1} /\ -1 \in Int
    OBVIOUS
  <2>2. IsFiniteSet(T)
    BY <1>2, <2>1, FS_AddElement
  <2>3. \A i \in numbers : i \in Int /\ i <= n - 1 /\ i >= -1
    <3>1. \A i \in 0..n - 1 : i \in Int /\ i <= n - 1 /\ i >= -1
      BY <1>1
    <3> QED BY <1>1, <3>1
  <2>4. -1 <= n - 1 /\ -1 >= -1
    <3>1. n >= 0 /\ n \in Int
      BY <1>1
    <3> QED BY <3>1
  <2> QED BY <2>1, <2>2, <2>3, <2>4
<1>4. Max(T) \in T /\ \A i \in T : i <= Max(T)
  BY <1>3, Largest
<1> PICK x : x = Max(T) + 1
    OBVIOUS
<1>5. x \in 0..n /\ \A i \in numbers : i < x
  <2> PICK q : q = Max(T)
      OBVIOUS
  <2>1. q \in Int /\ q <= n - 1 /\ q >= -1 /\ x = q + 1
    BY <1>3, <1>4
  <2>2. \A i \in numbers : i \in Int /\ i <= q
    BY <1>3, <1>4
  <2>3. \A i \in Int : i <= q => i < x
    BY <2>1
  <2>4. x \in 0..n
    <3>1. n \in Nat
      BY <1>1
    <3> QED BY <2>1, <3>1
  <2> QED BY <2>2, <2>3, <2>4
<1>6. SqAppend(sqMsgs, id, text) = sqMsgs \cup {[campaign |-> id, content |-> text, idx |-> x]}
  BY DEF SqAppend
<1> QED BY <1>1, <1>5, <1>6

\* What a table with one row more lists of a campaign.
LEMMA SqListed ==
    ASSUME OwnNumbers, NEW id \in CampIds, NEW text \in Texts, NEW x \in Nat, NEW c \in CampIds,
           \A m \in sqMsgs : m.campaign = id => m.idx < x,
           NEW new, new = sqMsgs \cup {[campaign |-> id, content |-> text, idx |-> x]}
    PROVE  SqMessages(new, c) =
             IF c = id THEN Append(SqMessages(sqMsgs, c), text) ELSE SqMessages(sqMsgs, c)
<1> PICK own, keys, row : /\ own = OfCampaign(sqMsgs, c) /\ keys = {m.idx : m \in own}
                          /\ row = [campaign |-> id, content |-> text, idx |-> x]
    OBVIOUS
<1>1. /\ own \subseteq sqMsgs /\ IsFiniteSet(own) /\ keys \subseteq Int
      /\ \A m \in own : m.campaign = c /\ m.content \in Texts /\ m.idx \in keys
      /\ \A k, m \in own : k.idx = m.idx => k = m
  <2>1. own \subseteq sqMsgs
    BY DEF OfCampaign
  <2>2. IsFiniteSet(own)
    BY <2>1, FS_Subset DEF OwnNumbers
  <2> QED BY <2>1, <2>2 DEF OwnNumbers, OfCampaign
<1> PICK h : h = [m \in own |-> m.idx]
    OBVIOUS
<1>2. IsFiniteSet(keys)
  <2>1. h = [m \in DOMAIN h |-> h[m]] /\ IsFiniteSet(DOMAIN h) /\ keys = {h[m] : m \in DOMAIN h}
    BY <1>1
  <2> QED BY <2>1, FiniteRange
<1> DEFINE f == [i \in keys |-> Numbered(own, i).content]
<1>3. DOMAIN f = keys /\ \A m \in own : f[m.idx] = m.content
  <2>1. \A m \in own : Numbered(own, m.idx) = m
    BY <1>1 DEF Numbered
  <2> QED BY <1>1, <2>1
<1>4. SqMessages(sqMsgs, c) = InOrder(f)
  BY DEF SqMessages
<1> HIDE DEF f
<1>5. Listed(f, Texts)
  BY <1>1, <1>2, <1>3 DEF Listed
<1>6. CASE c # id
  <2>1. OfCampaign(new, c) = own
    BY <1>6 DEF OfCampaign
  <2> QED BY <1>4, <1>6, <2>1 DEF SqMessages
<1>7. CASE c = id
  <2>1. OfCampaign(new, c) = own \cup {row} /\ row.idx = x /\ row.content = text
    BY <1>7 DEF OfCampaign
  <2>2. \A i \in keys : i < x
    BY <1>1, <1>7
  <2>3. x \notin keys
    BY <1>1, <2>2
  <2> PICK all : all = own \cup {row}
      OBVIOUS
  <2>4. {m.idx : m \in all} = keys \cup {x}
    BY <2>1
  <2>5. \A k, m \in all : k.idx = m.idx => k = m
    BY <1>1, <2>1, <2>3
  <2> PICK g : g = Grown(f, x, text)
      OBVIOUS
  <2>6. \A m \in all : Numbered(all, m.idx) = m
    BY <2>5 DEF Numbered
  <2>7. g = [i \in keys \cup {x} |-> Numbered(all, i).content]
    <3>1. \A m \in all : g[m.idx] = m.content
      BY <1>1, <1>3, <2>1, <2>3 DEF Grown
    <3>2. \A i \in keys \cup {x} : g[i] = Numbered(all, i).content
      <4> SUFFICES ASSUME NEW i \in keys \cup {x} PROVE g[i] = Numbered(all, i).content
          OBVIOUS
      <4>1. PICK m \in all : m.idx = i
        BY <2>4
      <4>2. Numbered(all, i) = m
        BY <2>6, <4>1
      <4> QED BY <3>1, <4>1, <4>2
    <3>3. g = [i \in keys \cup {x} |-> g[i]]
      BY <1>3 DEF Grown
    <3> QED BY <3>2, <3>3
  <2>8. SqMessages(new, c) = InOrder(g)
    BY <2>1, <2>4, <2>7 DEF SqMessages
  <2>9. InOrder(g) = Append(InOrder(f), text)
    <3>1. Above(x, f)
      BY <1>3, <2>2 DEF Above
    <3> QED BY <1>5, <3>1, ListGrows
  <2> QED BY <1>4, <1>7, <2>8, <2>9
<1> QED BY <1>6, <1>7
-----------------------------------------------------------------------------
(* The invariant holds.                                                    *)

LEMMA InitStore == Init => StoreInv
<1> SUFFICES ASSUME Init PROVE StoreInv
    OBVIOUS
<1>1. DOMAIN <<>> = {} /\ Len(<<>>) = 0 /\ \A S : <<>> \in Seq(S)
  <2>1. \A S : <<>> \in Seq(S) /\ Len(<<>>) = 0
    OBVIOUS
  <2> QED BY <2>1
<1>2. Kept(memChars, sqChars, CharRows) /\ Kept(memCamps, sqCamps, CampRows)
  BY <1>1 DEF Init, Kept, ToSet
<1>3. IsFiniteSet(sqMsgs) /\ sqMsgs = {}
  BY FS_EmptySet DEF Init
<1>4. OwnNumbers
  BY <1>3 DEF OwnNumbers
<1>5. memMsgs \in Seq(Said) /\ Len(memMsgs) <= MaxMessages
  <2>1. 0 <= MaxMessages
    BY StoreAssumption
  <2> QED BY <1>1, <2>1 DEF Init
<1>6. ASSUME NEW c \in CampIds PROVE MemMessages(memMsgs, c) = SqMessages(sqMsgs, c)
  <2>1. {j \in DOMAIN memMsgs : memMsgs[j].campaign = c} = {}
    BY <1>1 DEF Init
  <2>2. OfCampaign(sqMsgs, c) = {} /\ {m.idx : m \in OfCampaign(sqMsgs, c)} = {}
    BY <1>3 DEF OfCampaign
  <2>3. [i \in {} |-> memMsgs[i].content] = [i \in {} |-> Numbered({}, i).content]
    OBVIOUS
  <2> QED BY <2>1, <2>2, <2>3 DEF MemMessages, SqMessages
<1> QED BY <1>2, <1>4, <1>5, <1>6 DEF StoreInv

\* A message appended to both.
LEMMA AppendKept ==
    ASSUME StoreInv, NEW id \in CampIds, NEW text \in Texts, MsgAppend(id, text)
    PROVE  /\ memMsgs' \in Seq(Said) /\ Len(memMsgs') <= MaxMessages /\ OwnNumbers'
           /\ \A c \in CampIds : MemMessages(memMsgs', c) = SqMessages(sqMsgs', c)
<1> PICK n, row : n = Len(memMsgs) /\ row = [campaign |-> id, content |-> text]
    OBVIOUS
<1>1. /\ memMsgs \in Seq(Said) /\ n \in Nat /\ n < MaxMessages /\ OwnNumbers
      /\ row \in Said /\ memMsgs' = MemAppend(memMsgs, id, text)
      /\ sqMsgs' = SqAppend(sqMsgs, id, text) /\ memMsgs' = Append(memMsgs, row)
  BY DEF StoreInv, MsgAppend, MemAppend, Said
<1>2. memMsgs' \in Seq(Said) /\ Len(memMsgs') = n + 1
  BY <1>1, AppendProperties
<1>3. Len(memMsgs') <= MaxMessages
  BY <1>1, <1>2, StoreAssumption
<1> PICK x \in 0..n : /\ SqAppend(sqMsgs, id, text) =
                             sqMsgs \cup {[campaign |-> id, content |-> text, idx |-> x]}
                      /\ \A m \in sqMsgs : m.campaign = id => m.idx < x
  BY <1>1, SqGrows
<1> PICK new, added : /\ new = sqMsgs \cup {added}
                      /\ added = [campaign |-> id, content |-> text, idx |-> x]
    OBVIOUS
<1>4. sqMsgs' = new /\ x \in Nat /\ x \in 0..n + 1 - 1
  BY <1>1
<1>5. OwnNumbers'
  <2>1. IsFiniteSet(new)
    BY <1>1, FS_AddElement DEF OwnNumbers
  <2>2. \A i \in 0..n - 1 : i \in 0..n + 1 - 1
    BY <1>1
  <2> PICK k : k = n + 1
      OBVIOUS
  <2>3. new \subseteq [campaign : CampIds, content : Texts, idx : 0..k - 1]
    <3>1. \A m \in sqMsgs : m \in [campaign : CampIds, content : Texts, idx : 0..n - 1]
      BY <1>1 DEF OwnNumbers
    <3> QED BY <1>4, <2>2, <3>1
  <2>4. \A l, m \in new : l.campaign = m.campaign /\ l.idx = m.idx => l = m
    <3>1. \A m \in sqMsgs : m.campaign = id => m.idx # x
      <4>1. ~(x < x)
        BY <1>4
      <4> QED BY <4>1
    <3> QED BY <1>1, <3>1 DEF OwnNumbers
  <2>5. Len(memMsgs') = k
    BY <1>2
  <2> QED BY <1>4, <2>1, <2>3, <2>4, <2>5 DEF OwnNumbers
<1>6. ASSUME NEW c \in CampIds PROVE MemMessages(memMsgs', c) = SqMessages(sqMsgs', c)
  <2> PICK all : all = MemAppend(memMsgs, id, text)
      OBVIOUS
  <2>1. MemMessages(all, c) =
          IF c = id THEN Append(MemMessages(memMsgs, c), text) ELSE MemMessages(memMsgs, c)
    <3>1. memMsgs \in Seq(Said)
      BY <1>1
    <3> QED BY <3>1, MemGrows
  <2>2. SqMessages(new, c) =
          IF c = id THEN Append(SqMessages(sqMsgs, c), text) ELSE SqMessages(sqMsgs, c)
    <3>1. OwnNumbers /\ x \in Nat /\ new = sqMsgs \cup {[campaign |-> id, content |-> text, idx |-> x]}
      BY <1>1, <1>4
    <3>2. \A m \in sqMsgs : m.campaign = id => m.idx < x
      OBVIOUS
    <3> QED BY <3>1, <3>2, SqListed
  <2>3. MemMessages(memMsgs, c) = SqMessages(sqMsgs, c)
    BY DEF StoreInv
  <2> QED BY <1>1, <1>4, <2>1, <2>2, <2>3
<1> QED BY <1>2, <1>3, <1>5, <1>6

LEMMA StepStore == StoreInv /\ [Next]_vars => StoreInv'
<1> SUFFICES ASSUME StoreInv, [Next]_vars PROVE StoreInv'
    OBVIOUS
<1>1. ASSUME NEW id \in CharIds, NEW text \in Texts, CharUpsert(id, text) PROVE StoreInv'
  <2>1. [id |-> id, json |-> text] \in CharRows
    BY DEF CharRows
  <2>2. Kept(memChars', sqChars', CharRows)
    BY <1>1, <2>1, UpsertKept DEF StoreInv, CharUpsert
  <2> QED BY <1>1, <2>2 DEF StoreInv, CharUpsert, OwnNumbers
<1>2. ASSUME NEW id \in CampIds, NEW owner \in Owners, NEW text \in Texts,
             CampaignUpsert(id, owner, text)
      PROVE  StoreInv'
  <2>1. [id |-> id, parent |-> owner, json |-> text] \in CampRows
    BY DEF CampRows
  <2>2. Kept(memCamps', sqCamps', CampRows)
    BY <1>2, <2>1, UpsertKept DEF StoreInv, CampaignUpsert
  <2> QED BY <1>2, <2>2 DEF StoreInv, CampaignUpsert, OwnNumbers
<1>3. ASSUME NEW id \in CharIds, CharDelete(id) PROVE StoreInv'
  <2>1. Kept(memChars', sqChars', CharRows)
    BY <1>3, DeleteKept DEF StoreInv, CharDelete
  <2> QED BY <1>3, <2>1 DEF StoreInv, CharDelete, OwnNumbers
<1>4. ASSUME NEW id \in CampIds, CampaignDelete(id) PROVE StoreInv'
  <2>1. Kept(memCamps', sqCamps', CampRows)
    BY <1>4, DeleteKept DEF StoreInv, CampaignDelete
  <2> QED BY <1>4, <2>1 DEF StoreInv, CampaignDelete, OwnNumbers
<1>5. ASSUME NEW id \in CampIds, NEW text \in Texts, MsgAppend(id, text) PROVE StoreInv'
  BY <1>5, AppendKept DEF StoreInv, MsgAppend
<1>6. CASE UNCHANGED vars
  BY <1>6 DEF StoreInv, vars, OwnNumbers
<1> QED BY <1>1, <1>2, <1>3, <1>4, <1>5, <1>6 DEF Next

\* Arrays and tables hold the same rows, and the two list each campaign's messages alike.
THEOREM StoreInvariance == Spec => []StoreInv
<1> QED BY InitStore, StepStore, PTL DEF Spec
-----------------------------------------------------------------------------
(* What the two say.                                                       *)

\* The table lists the ids of its rows, or of some of them.
LEMMA SqListsIds ==
    ASSUME NEW rows, NEW table, NEW S, Kept(rows, table, S), \A r \in S : r.id \in Nat,
           NEW part, part \subseteq table
    PROVE  ToSet(SqList(part)) = {r.id : r \in part}
<1> PICK l, ids, own, f : /\ l = MemList(rows) /\ ids = {r.id : r \in table}
                          /\ own = {r.id : r \in part} /\ f = [id \in own |-> id]
    OBVIOUS
<1>1. /\ DOMAIN rows = 1..Len(rows) /\ Len(rows) \in Nat /\ table = {rows[i] : i \in DOMAIN rows}
      /\ \A i \in DOMAIN rows : rows[i] \in S
  <2>1. rows \in Seq(S)
    BY DEF Kept
  <2>2. \A i \in 1..Len(rows) : rows[i] \in S
    BY <2>1, ElementOfSeq
  <2> QED BY <2>1, <2>2 DEF Kept, ToSet
<1>2. DOMAIN l = DOMAIN rows /\ l = [i \in DOMAIN l |-> l[i]] /\ ids = {l[i] : i \in DOMAIN l}
  BY <1>1 DEF MemList
<1>3. IsFiniteSet(DOMAIN l)
  BY <1>1, <1>2, FS_Interval
<1>4. IsFiniteSet(ids)
  BY <1>2, <1>3, FiniteRange
<1>5. own \subseteq ids /\ ids \subseteq Int
  BY <1>1
<1>6. IsFiniteSet(own)
  BY <1>4, <1>5, FS_Subset
<1>7. DOMAIN f = own /\ {f[i] : i \in DOMAIN f} = own /\ SqList(part) = InOrder(f)
  BY DEF SqList
<1>8. DOMAIN f \subseteq Int /\ IsFiniteSet(DOMAIN f)
  BY <1>5, <1>6, <1>7
<1>9. ToSet(InOrder(f)) = {f[i] : i \in DOMAIN f}
  BY <1>8, ListsAll
<1> QED BY <1>7, <1>9

\* The array lists the ids of an owner's rows.
LEMMA MemListsIds ==
    ASSUME NEW rows, NEW table, NEW S, Kept(rows, table, S), NEW owner
    PROVE  ToSet(MemListOf(rows, owner)) = {r.id : r \in {x \in table : x.parent = owner}}
<1> PICK own, f : /\ own = {j \in DOMAIN rows : rows[j].parent = owner}
                  /\ f = [i \in own |-> rows[i].id]
    OBVIOUS
<1>1. DOMAIN rows = 1..Len(rows) /\ Len(rows) \in Nat /\ table = {rows[i] : i \in DOMAIN rows}
  BY DEF Kept, ToSet
<1>2. IsFiniteSet(DOMAIN rows) /\ own \subseteq DOMAIN rows /\ own \subseteq Int
  BY <1>1, FS_Interval
<1>3. IsFiniteSet(own)
  BY <1>2, FS_Subset
<1>4. DOMAIN f = own /\ MemListOf(rows, owner) = InOrder(f)
  BY DEF MemListOf
<1>5. ToSet(InOrder(f)) = {f[i] : i \in DOMAIN f}
  BY <1>2, <1>3, <1>4, ListsAll
<1>6. {f[i] : i \in DOMAIN f} = {r.id : r \in {x \in table : x.parent = owner}}
  BY <1>1, <1>4
<1> QED BY <1>4, <1>5, <1>6

\* The two backends hold and list the same after any calls (oce_store.c:417-573).
THEOREM BackendsAgree == Spec => []BackendsHoldTheSame
<1>1. StoreInv => BackendsHoldTheSame
  <2> SUFFICES ASSUME StoreInv PROVE BackendsHoldTheSame
      OBVIOUS
  <2>1. Kept(memChars, sqChars, CharRows) /\ Kept(memCamps, sqCamps, CampRows)
    BY DEF StoreInv
  <2>2. IsInjective(MemList(memChars)) /\ IsInjective(MemList(memCamps))
    BY <2>1 DEF Kept, MemList, IsInjective
  <2>3. ToSet(memChars) = sqChars /\ ToSet(memCamps) = sqCamps
    BY <2>1 DEF Kept
  <2>4. (\A r \in CharRows : r.id \in Nat) /\ (\A r \in CampRows : r.id \in Nat)
    BY StoreAssumption DEF CharRows, CampRows
  <2>5. ToSet(MemList(memChars)) = ToSet(SqList(sqChars))
    <3>1. ToSet(MemList(memChars)) = {r.id : r \in sqChars}
      BY <2>1, RowLoaded
    <3>2. ToSet(SqList(sqChars)) = {r.id : r \in sqChars}
      BY <2>1, <2>4, SqListsIds
    <3> QED BY <3>1, <3>2
  <2>6. ASSUME NEW owner \in Owners
        PROVE  ToSet(MemListOf(memCamps, owner)) = ToSet(SqListOf(sqCamps, owner))
    <3> PICK part : part = {r \in sqCamps : r.parent = owner}
        OBVIOUS
    <3>1. ToSet(MemListOf(memCamps, owner)) = {r.id : r \in part}
      BY <2>1, MemListsIds
    <3>2. part \subseteq sqCamps
      OBVIOUS
    <3>3. ToSet(SqList(part)) = {r.id : r \in part}
      BY <2>1, <2>4, <3>2, SqListsIds
    <3> QED BY <3>1, <3>3 DEF SqListOf
  <2> QED BY <2>2, <2>3, <2>5, <2>6 DEF BackendsHoldTheSame, StoreInv
<1> QED BY <1>1, StoreInvariance, PTL

\* Type correctness.
THEOREM TypeCorrect == Spec => []TypeOK
<1>1. StoreInv => TypeOK
  <2> SUFFICES ASSUME StoreInv PROVE TypeOK
      OBVIOUS
  <2>1. /\ \A i \in DOMAIN memChars : memChars[i] \in sqChars
        /\ \A i \in DOMAIN memCamps : memCamps[i] \in sqCamps
    BY DEF StoreInv, Kept, ToSet
  <2>2. sqChars \subseteq CharRows
    <3>1. memChars \in Seq(CharRows) /\ sqChars = {memChars[i] : i \in DOMAIN memChars}
      BY DEF StoreInv, Kept, ToSet
    <3> QED BY <3>1, ElementOfSeq
  <2>3. sqCamps \subseteq CampRows
    <3>1. memCamps \in Seq(CampRows) /\ sqCamps = {memCamps[i] : i \in DOMAIN memCamps}
      BY DEF StoreInv, Kept, ToSet
    <3> QED BY <3>1, ElementOfSeq
  <2>4. \A i \in 0..Len(memMsgs) - 1 : i \in 0..MaxMessages - 1
    <3>1. Len(memMsgs) \in Nat /\ Len(memMsgs) <= MaxMessages /\ MaxMessages \in Nat
      BY StoreAssumption DEF StoreInv
    <3> QED BY <3>1
  <2>5. \A m \in sqMsgs : m.campaign \in CampIds /\ m.content \in Texts /\ m.idx \in 0..MaxMessages - 1
    BY <2>4 DEF StoreInv, OwnNumbers
  <2> QED BY <2>1, <2>2, <2>3, <2>5 DEF TypeOK, CharRows, CampRows
<1> QED BY <1>1, StoreInvariance, PTL

-----------------------------------------------------------------------------
(* The arrays are a repository.                                            *)

\* What is found by its id after a write.
LEMMA UpsertShown ==
    ASSUME NEW rows, NEW table, NEW S, Kept(rows, table, S), NEW row \in S
    PROVE  /\ ToSet(MemList(MemUpsert(rows, row))) = ToSet(MemList(rows)) \cup {row.id}
           /\ Loaded(MemUpsert(rows, row), row.id) = row
           /\ \A i \in ToSet(MemList(rows)) :
                 i # row.id => Loaded(MemUpsert(rows, row), i) = Loaded(rows, i)
<1> PICK new, set : new = MemUpsert(rows, row) /\ set = SqUpsert(table, row)
    OBVIOUS
<1>1. set = {r \in table : r.id # row.id} \cup {row}
  BY DEF SqUpsert
<1>2. /\ ToSet(MemList(rows)) = {r.id : r \in table}
      /\ \A r \in table : Loaded(rows, r.id) = r
  BY RowLoaded
<1>3. /\ ToSet(MemList(new)) = {r.id : r \in set}
      /\ \A r \in set : Loaded(new, r.id) = r
  <2>1. Kept(new, set, S)
    BY UpsertKept
  <2> QED BY <2>1, RowLoaded
<1>4. {r.id : r \in set} = {r.id : r \in table} \cup {row.id}
  BY <1>1
<1>5. ASSUME NEW i \in ToSet(MemList(rows)), i # row.id PROVE Loaded(new, i) = Loaded(rows, i)
  <2>1. PICK r \in table : r.id = i
    BY <1>2
  <2> QED BY <1>1, <1>2, <1>3, <1>5, <2>1
<1> QED BY <1>1, <1>2, <1>3, <1>4, <1>5

\* What is found by its id after a delete.
LEMMA DeleteShown ==
    ASSUME NEW rows, NEW table, NEW S, Kept(rows, table, S), NEW id
    PROVE  /\ ToSet(MemList(MemDelete(rows, id))) = ToSet(MemList(rows)) \ {id}
           /\ \A i \in ToSet(MemList(rows)) :
                 i # id => Loaded(MemDelete(rows, id), i) = Loaded(rows, i)
<1> PICK new, set : new = MemDelete(rows, id) /\ set = SqDelete(table, id)
    OBVIOUS
<1>1. set = {r \in table : r.id # id}
  BY DEF SqDelete
<1>2. /\ ToSet(MemList(rows)) = {r.id : r \in table}
      /\ \A r \in table : Loaded(rows, r.id) = r
  BY RowLoaded
<1>3. /\ ToSet(MemList(new)) = {r.id : r \in set}
      /\ \A r \in set : Loaded(new, r.id) = r
  <2>1. Kept(new, set, S)
    BY DeleteKept
  <2> QED BY <2>1, RowLoaded
<1>4. {r.id : r \in set} = {r.id : r \in table} \ {id}
  BY <1>1
<1>5. ASSUME NEW i \in ToSet(MemList(rows)), i # id PROVE Loaded(new, i) = Loaded(rows, i)
  <2>1. PICK r \in table : r.id = i
    BY <1>2
  <2> QED BY <1>1, <1>2, <1>3, <1>5, <2>1
<1> QED BY <1>2, <1>3, <1>4, <1>5

\* What the repository is read from.
ShownCharacters(rows) == [id \in ToSet(MemList(rows)) |-> Loaded(rows, id).json]
ShownCampaigns(rows) ==
    [id \in ToSet(MemList(rows)) |-> [parent |-> Loaded(rows, id).parent, json |-> Loaded(rows, id).json]]
ShownTranscripts(msgs) == [c \in CampIds |-> MemMessages(msgs, c)]

\* A write of a character puts its row.
LEMMA CharacterWritten ==
    ASSUME StoreInv, NEW id \in CharIds, NEW text \in Texts, CharUpsert(id, text)
    PROVE  MemRepository!WriteCharacter(id, text)
<1> PICK rows, new, row : /\ rows = memChars /\ row = [id |-> id, json |-> text]
                          /\ new = MemUpsert(rows, row)
    OBVIOUS
<1>1. /\ ToSet(MemList(new)) = ToSet(MemList(rows)) \cup {id} /\ Loaded(new, id) = row
      /\ \A i \in ToSet(MemList(rows)) : i # id => Loaded(new, i) = Loaded(rows, i)
  <2>1. Kept(rows, sqChars, CharRows) /\ row \in CharRows /\ row.id = id
    BY DEF StoreInv, CharRows
  <2> QED BY <2>1, UpsertShown
<1>2. ShownCharacters(new) = MemRepository!Put(ShownCharacters(rows), id, text)
  BY <1>1 DEF ShownCharacters, MemRepository!Put
<1>3. memChars' = new
  BY DEF CharUpsert
<1> QED BY <1>2, <1>3 DEF CharUpsert, MemRepository!WriteCharacter, ShownCharacters

\* A write of a campaign puts its row.
LEMMA CampaignWritten ==
    ASSUME StoreInv, NEW id \in CampIds, NEW owner \in Owners, NEW text \in Texts,
           CampaignUpsert(id, owner, text)
    PROVE  MemRepository!WriteCampaign(id, owner, text)
<1> PICK rows, new, row : /\ rows = memCamps /\ row = [id |-> id, parent |-> owner, json |-> text]
                          /\ new = MemUpsert(rows, row)
    OBVIOUS
<1>1. /\ ToSet(MemList(new)) = ToSet(MemList(rows)) \cup {id} /\ Loaded(new, id) = row
      /\ \A i \in ToSet(MemList(rows)) : i # id => Loaded(new, i) = Loaded(rows, i)
  <2>1. Kept(rows, sqCamps, CampRows) /\ row \in CampRows /\ row.id = id
    BY DEF StoreInv, CampRows
  <2> QED BY <2>1, UpsertShown
<1>2. ShownCampaigns(new) =
        MemRepository!Put(ShownCampaigns(rows), id, [parent |-> owner, json |-> text])
  BY <1>1 DEF ShownCampaigns, MemRepository!Put
<1>3. memCamps' = new
  BY DEF CampaignUpsert
<1> QED BY <1>2, <1>3 DEF CampaignUpsert, MemRepository!WriteCampaign, ShownCampaigns

\* A delete of a character takes its row away.
LEMMA CharacterDropped ==
    ASSUME StoreInv, NEW id \in CharIds, CharDelete(id)
    PROVE  MemRepository!DropCharacter(id)
<1> PICK rows, new : rows = memChars /\ new = MemDelete(rows, id)
    OBVIOUS
<1>1. /\ ToSet(MemList(new)) = ToSet(MemList(rows)) \ {id}
      /\ \A i \in ToSet(MemList(rows)) : i # id => Loaded(new, i) = Loaded(rows, i)
  BY DeleteShown DEF StoreInv
<1>2. ShownCharacters(new) = MemRepository!Without(ShownCharacters(rows), id)
  BY <1>1 DEF ShownCharacters, MemRepository!Without
<1>3. memChars' = new
  BY DEF CharDelete
<1> QED BY <1>2, <1>3 DEF CharDelete, MemRepository!DropCharacter, ShownCharacters

\* A delete of a campaign takes its row away.
LEMMA CampaignDropped ==
    ASSUME StoreInv, NEW id \in CampIds, CampaignDelete(id)
    PROVE  MemRepository!DropCampaign(id)
<1> PICK rows, new : rows = memCamps /\ new = MemDelete(rows, id)
    OBVIOUS
<1>1. /\ ToSet(MemList(new)) = ToSet(MemList(rows)) \ {id}
      /\ \A i \in ToSet(MemList(rows)) : i # id => Loaded(new, i) = Loaded(rows, i)
  BY DeleteShown DEF StoreInv
<1>2. ShownCampaigns(new) = MemRepository!Without(ShownCampaigns(rows), id)
  BY <1>1 DEF ShownCampaigns, MemRepository!Without
<1>3. memCamps' = new
  BY DEF CampaignDelete
<1> QED BY <1>2, <1>3 DEF CampaignDelete, MemRepository!DropCampaign, ShownCampaigns

\* What is appended is said in its campaign and in no other.
LEMMA MessageSaid ==
    ASSUME StoreInv, NEW id \in CampIds, NEW text \in Texts, MsgAppend(id, text)
    PROVE  MemRepository!Say(id, text)
<1> PICK msgs, new : msgs = memMsgs /\ new = MemAppend(msgs, id, text)
    OBVIOUS
<1>1. \A c \in CampIds : MemMessages(new, c) =
         IF c = id THEN Append(MemMessages(msgs, c), text) ELSE MemMessages(msgs, c)
  BY MemGrows DEF StoreInv
<1>2. ShownTranscripts(new) = [ShownTranscripts(msgs) EXCEPT ![id] = Append(@, text)]
  BY <1>1 DEF ShownTranscripts
<1>3. memMsgs' = new
  BY DEF MsgAppend
<1> QED BY <1>2, <1>3 DEF MsgAppend, MemRepository!Say, ShownTranscripts

\* The arrays, read through the calls that list and find, are a repository of
\* which each call asks one thing (oce_store.c:417-512, 527-573).
THEOREM Refinement == Spec => MemoryServes
<1> DEFINE Serves ==
      /\ \A id \in CharIds, text \in Texts :
            CharUpsert(id, text) => MemRepository!WriteCharacter(id, text)
      /\ \A id \in CampIds, owner \in Owners, text \in Texts :
            CampaignUpsert(id, owner, text) => MemRepository!WriteCampaign(id, owner, text)
      /\ \A id \in CharIds : CharDelete(id) => MemRepository!DropCharacter(id)
      /\ \A id \in CampIds : CampaignDelete(id) => MemRepository!DropCampaign(id)
      /\ \A id \in CampIds, text \in Texts :
            MsgAppend(id, text) => MemRepository!Say(id, text)
<1>1. Init => MemRepository!Init
  <2> SUFFICES ASSUME Init PROVE MemRepository!Init
      OBVIOUS
  <2>1. ToSet(MemList(memChars)) = {} /\ ToSet(MemList(memCamps)) = {}
    <3>1. Kept(memChars, sqChars, CharRows) /\ Kept(memCamps, sqCamps, CampRows)
      BY InitStore DEF StoreInv
    <3>2. sqChars = {} /\ sqCamps = {}
      BY DEF Init
    <3>3. /\ ToSet(MemList(memChars)) = {r.id : r \in sqChars}
          /\ ToSet(MemList(memCamps)) = {r.id : r \in sqCamps}
      BY <3>1, RowLoaded
    <3> QED BY <3>2, <3>3
  <2>2. ASSUME NEW c \in CampIds PROVE MemMessages(memMsgs, c) = <<>>
    <3> PICK f : f = [i \in {} |-> memMsgs[i].content]
        OBVIOUS
    <3>1. {j \in DOMAIN memMsgs : memMsgs[j].campaign = c} = {}
      BY DEF Init
    <3>2. DOMAIN f = {} /\ Cardinality(DOMAIN f) = 0 /\ MemMessages(memMsgs, c) = InOrder(f)
      BY <3>1, FS_EmptySet DEF MemMessages
    <3>3. InOrder(f) \in Seq({}) /\ Len(InOrder(f)) = 0
      BY <3>2 DEF InOrder
    <3> QED BY <3>2, <3>3, EmptySeq
  <2> QED BY <2>1, <2>2 DEF MemRepository!Init, MemRepository!NoRows
<1>2. StoreInv => Serves
  BY CharacterWritten, CampaignWritten, CharacterDropped, CampaignDropped, MessageSaid
<1>3. StoreInv /\ Serves /\ [Next]_vars => [MemRepository!Next]_(MemRepository!vars)
  <2> SUFFICES ASSUME StoreInv, Serves, [Next]_vars
               PROVE  [MemRepository!Next]_(MemRepository!vars)
      OBVIOUS
  <2>1. CASE Next
    BY <2>1 DEF Next, MemRepository!Next
  <2>2. CASE UNCHANGED vars
    BY <2>2 DEF vars, MemRepository!vars
  <2> QED BY <2>1, <2>2
<1>4. StoreInv /\ [Next]_vars => [MemRepository!Next]_(MemRepository!vars) /\ [Serves]_vars
  BY <1>2, <1>3
<1> HIDE DEF Serves
<1>5. Spec => MemRepository!Spec /\ [][Serves]_vars
  BY <1>1, <1>4, StoreInvariance, PTL DEF Spec, MemRepository!Spec
<1> QED BY <1>5 DEF MemoryServes, Serves
=============================================================================
