--------------------- MODULE ConfigurationManagerProofs ---------------------
(***************************************************************************)
(* Theorems about the configuration manager, for tables of any size.       *)
(*                                                                         *)
(* The first part is about the tables alone: which slot a loop finds for   *)
(* an item (SlotForFacts), that no two items get the same one, that there  *)
(* is one for every item if the items fit beside what is still to be       *)
(* released (RoomSuffices), and what the table holds after the loop        *)
(* (RefilledFacts).  The second lifts this to Rebuild: the views stay good *)
(* (RebuildGood), a program of the new configuration keeps its slot        *)
(* (RebuildKeeps), and with room for everything the configuration is in    *)
(* force (RebuildShows).  The third is about steps: every change but the   *)
(* check of a handler replaces the configuration by an Edit, which only    *)
(* adds or only removes items, so that there is room for it and for the    *)
(* way back (CandidateViews).                                              *)
(*                                                                         *)
(* ManagerInv is the inductive invariant.  An early return of the rebuild  *)
(* leaves slots used that nobody has, hence "settled": nothing of that     *)
(* kind is left, or something is missing.  A start can come between the    *)
(* check of a handler and its change, but only through the entry of a      *)
(* schedule, so that the program is referenced and cannot be deleted.      *)
(***************************************************************************)
EXTENDS ConfigurationManager, FiniteSetTheorems, SequenceTheorems, TLAPS

IdsOf(items) == {items[i].id : i \in DOMAIN items}

\* A table with n slots in which no id has two.
IsTable(table, n) ==
    /\ n \in Nat
    /\ DOMAIN table = 1..n
    /\ \A s, r \in 1..n :
          table[s].used /\ table[r].used /\ table[s].id = table[r].id => s = r

\* The items of a configuration.
IsItems(items) ==
    /\ Len(items) \in Nat
    /\ DOMAIN items = 1..Len(items)
    /\ HasDistinctIds(items)

\* The first of one slot.
LEMMA FirstOfOne == ASSUME NEW s \in Nat PROVE First({s}) = s
<1>1. Min({s}) = s
  BY DEF Min
<1>. QED  BY <1>1 DEF First

\* The slot found for an id is used for it, and is the only one.
LEMMA SlotOfFacts ==
    ASSUME NEW table, NEW n, IsTable(table, n), NEW id
    PROVE  /\ SlotOf(table, id) # NoSlot
                 => /\ SlotOf(table, id) \in 1..n
                    /\ table[SlotOf(table, id)].used
                    /\ table[SlotOf(table, id)].id = id
           /\ \A s \in 1..n : table[s].used /\ table[s].id = id => SlotOf(table, id) = s
<1>. DEFINE S == {s \in DOMAIN table : table[s].used /\ table[s].id = id}
<1>0. SlotOf(table, id) = First(S)
  BY DEF SlotOf
<1>1. CASE S = {}
  <2>1. SlotOf(table, id) = NoSlot
    BY <1>0, <1>1 DEF First
  <2>. QED  BY <2>1, <1>1 DEF IsTable
<1>2. ASSUME NEW s \in S PROVE SlotOf(table, id) = s
  <2>1. S = {s}
    BY <1>2 DEF IsTable
  <2>2. s \in 1..n /\ s \in Nat
    BY <1>2 DEF IsTable
  <2>. QED  BY <2>1, <2>2, <1>0, FirstOfOne
<1>3. CASE S # {}
  <2>1. PICK s \in S : TRUE
    BY <1>3
  <2>2. SlotOf(table, id) = s /\ s \in 1..n /\ table[s].used /\ table[s].id = id
    BY <1>2 DEF IsTable
  <2>3. \A r \in 1..n : table[r].used /\ table[r].id = id => r = s
    BY <2>2 DEF IsTable
  <2>. QED  BY <2>2, <2>3
<1>. QED  BY <1>1, <1>3

\* Of two numbers the smaller one has fewer members of the set before it.
LEMMA RankGrows ==
    ASSUME NEW n \in Nat, NEW S \in SUBSET (1..n), NEW x \in S, NEW y \in Nat, x < y
    PROVE  /\ Rank(S, x) \in Nat /\ Rank(S, y) \in Nat
           /\ Rank(S, x) < Rank(S, y)
<1>. DEFINE X == {z \in S : z < x}
            Y == {z \in S : z < y}
<1>1. IsFiniteSet(Y) /\ Y \subseteq 1..n
  <2>1. IsFiniteSet(1..n)
    BY FS_Interval
  <2>. QED  BY <2>1, FS_Subset
<1>2. X \in SUBSET Y /\ x \in Y /\ x \notin X
  <2>1. \A z \in S : z \in Nat
    OBVIOUS
  <2>2. \A z \in X : z \in Y
    BY <2>1
  <2>3. x \in Y /\ x \notin X
    BY <2>1
  <2>. QED  BY <2>2, <2>3
<1>3. IsFiniteSet(X)
  BY <1>1, <1>2, FS_Subset
<1>4. Cardinality(X) <= Cardinality(Y) /\ Cardinality(X) # Cardinality(Y)
  BY <1>1, <1>2, FS_Subset
<1>5. Cardinality(X) \in Nat /\ Cardinality(Y) \in Nat
  BY <1>1, <1>3, FS_CardinalityType
<1>. QED  BY <1>4, <1>5 DEF Rank

\* No two members have the same rank.
LEMMA RankInjective ==
    ASSUME NEW n \in Nat, NEW S \in SUBSET (1..n), NEW x \in S, NEW y \in S,
           Rank(S, x) = Rank(S, y)
    PROVE  x = y
<1>1. ASSUME NEW s \in S, NEW r \in S, s < r PROVE Rank(S, s) # Rank(S, r)
  <2>1. r \in Nat
    OBVIOUS
  <2>2. Rank(S, s) \in Nat /\ Rank(S, r) \in Nat /\ Rank(S, s) < Rank(S, r)
    BY <1>1, <2>1, RankGrows
  <2>. QED  BY <2>2
<1>2. x < y \/ y < x \/ x = y
  OBVIOUS
<1>. QED  BY <1>1, <1>2

\* A rank is below the size of the set.
LEMMA RankBelowSize ==
    ASSUME NEW n \in Nat, NEW S \in SUBSET (1..n), NEW x \in S
    PROVE  /\ IsFiniteSet(S) /\ Cardinality(S) \in Nat
           /\ Rank(S, x) \in 0..(Cardinality(S) - 1)
<1>. DEFINE X == {z \in S : z < x}
<1>1. IsFiniteSet(S)
  <2>1. IsFiniteSet(1..n)
    BY FS_Interval
  <2>. QED  BY <2>1, FS_Subset
<1>2. X \in SUBSET S /\ x \notin X
  <2>1. x \in Nat /\ ~(x < x)
    OBVIOUS
  <2>. QED  BY <2>1
<1>3. Cardinality(X) <= Cardinality(S) /\ Cardinality(X) # Cardinality(S)
  BY <1>1, <1>2, FS_Subset
<1>4. Cardinality(X) \in Nat /\ Cardinality(S) \in Nat
  BY <1>1, <1>2, FS_Subset, FS_CardinalityType
<1>. QED  BY <1>1, <1>3, <1>4 DEF Rank

\* Every number below the size of a set is the rank of a member.
LEMMA RankExists ==
    ASSUME NEW n \in Nat, NEW S \in SUBSET (1..n), NEW k \in Nat, k < Cardinality(S)
    PROVE  \E s \in S : Rank(S, s) = k
<1>. DEFINE c == Cardinality(S)
            f == [s \in S |-> Rank(S, s)]
<1>1. IsFiniteSet(S) /\ c \in Nat
  <2>1. IsFiniteSet(1..n)
    BY FS_Interval
  <2>. QED  BY <2>1, FS_Subset, FS_CardinalityType
<1>2. \A s \in S : Rank(S, s) \in 0..(c-1)
  BY RankBelowSize
<1>3. \A s, r \in S : Rank(S, s) = Rank(S, r) => s = r
  BY RankInjective
<1>4. f \in Injection(S, 0..(c-1))
  BY <1>2, <1>3 DEF Injection, IsInjective
<1>5. IsFiniteSet(0..(c-1)) /\ Cardinality(0..(c-1)) = c
  <2>. HIDE DEF c
  <2>1. c - 1 \in Int /\ 0 \in Int
    BY <1>1
  <2>2. /\ IsFiniteSet(0..(c-1))
        /\ Cardinality(0..(c-1)) = IF 0 > c - 1 THEN 0 ELSE (c - 1) - 0 + 1
    BY <2>1, FS_Interval
  <2>. QED  BY <1>1, <2>2
<1>6. f \in Surjection(S, 0..(c-1))
  BY <1>4, <1>5, FS_Injection
<1>7. \A t \in 0..(c-1) : \E s \in S : f[s] = t
  BY <1>6 DEF Surjection
<1>8. k \in 0..(c-1)
  BY <1>1
<1>. QED  BY <1>7, <1>8

\* A new item gets a slot that is not used, of its own rank.
LEMMA UnusedSlotForFacts ==
    ASSUME NEW table, NEW n, IsTable(table, n), NEW items, NEW i,
           NEW slot, slot = UnusedSlotFor(table, items, i)
    PROVE  /\ slot # NoSlot
                 => /\ slot \in UnusedSlots(table)
                    /\ Rank(UnusedSlots(table), slot) = Rank(NewItems(table, items), i)
           /\ \A s \in UnusedSlots(table) :
                 Rank(UnusedSlots(table), s) = Rank(NewItems(table, items), i) => slot = s
<1>. DEFINE U == UnusedSlots(table)
            k == Rank(NewItems(table, items), i)
            S == {s \in U : Rank(U, s) = k}
<1>0. slot = First(S)
  BY DEF UnusedSlotFor
<1>1. U \in SUBSET (1..n) /\ n \in Nat
  BY DEF IsTable, UnusedSlots
<1>2. ASSUME NEW s \in S PROVE slot = s
  <2>1. S = {s}
    BY <1>1, <1>2, RankInjective
  <2>2. s \in Nat
    BY <1>1, <1>2
  <2>. QED  BY <2>1, <2>2, <1>0, FirstOfOne
<1>3. S = {} => slot = NoSlot
  BY <1>0 DEF First
<1>4. slot # NoSlot => slot \in S
  BY <1>2, <1>3
<1>. QED  BY <1>2, <1>4

\* The slot a loop finds for an item: its own, or else an unused one of its rank.
LEMMA SlotForFacts ==
    ASSUME NEW table, NEW n, IsTable(table, n), NEW items, NEW i \in DOMAIN items,
           NEW slot, slot = SlotFor(table, items, i)
    PROVE  /\ slot # NoSlot => slot \in 1..n
           /\ slot # NoSlot /\ table[slot].used => table[slot].id = items[i].id
           /\ slot # NoSlot /\ ~table[slot].used
                 => /\ i \in NewItems(table, items)
                    /\ slot \in UnusedSlots(table)
                    /\ Rank(UnusedSlots(table), slot) = Rank(NewItems(table, items), i)
           /\ \A s \in 1..n : table[s].used /\ table[s].id = items[i].id => slot = s
           /\ i \notin NewItems(table, items) => slot # NoSlot
<1>. DEFINE own == SlotOf(table, items[i].id)
<1>1. CASE own # NoSlot
  <2>1. slot = own
    BY <1>1 DEF SlotFor
  <2>. QED  BY <1>1, <2>1, SlotOfFacts
<1>2. CASE own = NoSlot
  <2>1. slot = UnusedSlotFor(table, items, i)
    BY <1>2 DEF SlotFor
  <2>2. i \in NewItems(table, items)
    BY <1>2 DEF NewItems
  <2>3. \A s \in 1..n : ~(table[s].used /\ table[s].id = items[i].id)
    BY <1>2, SlotOfFacts DEF NoSlot
  <2>4. \A s \in UnusedSlots(table) : s \in 1..n /\ ~table[s].used
    BY DEF UnusedSlots, IsTable
  <2>. QED  BY <2>1, <2>2, <2>3, <2>4, UnusedSlotForFacts
<1>. QED  BY <1>1, <1>2

\* No two items get the same slot.
LEMMA SlotForInjective ==
    ASSUME NEW table, NEW n, IsTable(table, n), NEW items, IsItems(items),
           NEW i \in DOMAIN items, NEW j \in DOMAIN items,
           SlotFor(table, items, i) # NoSlot,
           SlotFor(table, items, i) = SlotFor(table, items, j)
    PROVE  i = j
<1>. DEFINE slot == SlotFor(table, items, i)
<1>1. CASE table[slot].used
  <2>1. items[i].id = items[j].id
    BY <1>1, SlotForFacts
  <2>. QED  BY <2>1 DEF IsItems, HasDistinctIds
<1>2. CASE ~table[slot].used
  <2>. DEFINE New == NewItems(table, items)
  <2>1. i \in New /\ j \in New /\ Rank(New, i) = Rank(New, j)
    BY <1>2, SlotForFacts
  <2>2. New \in SUBSET (1..Len(items)) /\ Len(items) \in Nat
    BY DEF NewItems, IsItems
  <2>. HIDE DEF New
  <2>. QED  BY <2>1, <2>2, RankInjective
<1>. QED  BY <1>1, <1>2

\* The used slots whose id no item has: what a complete loop releases.
Dropped(table, items) ==
    {s \in DOMAIN table : table[s].used /\ table[s].id \notin IdsOf(items)}

\* If the items fit in the table beside the slots that are still to be released
\* every one gets a slot.
LEMMA RoomSuffices ==
    ASSUME NEW table, NEW n, IsTable(table, n), NEW items, IsItems(items),
           Len(items) + Cardinality(Dropped(table, items)) <= n,
           NEW i \in DOMAIN items
    PROVE  SlotFor(table, items, i) # NoSlot
<1>. DEFINE D == Dropped(table, items)
            U == UnusedSlots(table)
            New == NewItems(table, items)
            L == 1..Len(items)
            Known == L \ New
            Kept == {s \in 1..n : table[s].used /\ table[s].id \in IdsOf(items)}
            f == [s \in Kept |-> CHOOSE j \in L : items[j].id = table[s].id]
<1>1. n \in Nat /\ Len(items) \in Nat /\ DOMAIN items = L /\ DOMAIN table = 1..n
  BY DEF IsTable, IsItems
<1>2. IsFiniteSet(1..n) /\ Cardinality(1..n) = n
  BY <1>1, FS_Interval
<1>3. IsFiniteSet(L) /\ Cardinality(L) = Len(items)
  <2>. DEFINE l == Len(items)
  <2>1. l \in Nat
    BY <1>1
  <2>. HIDE DEF l
  <2>2. IsFiniteSet(1..l) /\ Cardinality(1..l) = l
    BY <2>1, FS_Interval
  <2>. QED  BY <2>2 DEF l
<1>4. \A s \in Kept : f[s] \in L /\ items[f[s]].id = table[s].id
  BY <1>1 DEF IdsOf
<1>5. \A s \in Kept : f[s] \in Known
  <2>. SUFFICES ASSUME NEW s \in Kept PROVE f[s] \in Known
    OBVIOUS
  <2>1. f[s] \in L /\ items[f[s]].id = table[s].id
    BY <1>4
  <2>2. SlotOf(table, items[f[s]].id) = s /\ s # NoSlot
    BY <2>1, <1>1, SlotOfFacts DEF NoSlot
  <2>3. f[s] \notin New
    <3>. HIDE DEF f
    <3>. QED  BY <2>2 DEF NewItems
  <2>. QED  BY <2>1, <2>3
<1>6. \A s, r \in Kept : f[s] = f[r] => s = r
  <2>. HIDE DEF f
  <2>. QED  BY <1>4 DEF IsTable
<1>7. f \in Injection(Kept, Known)
  <2>. HIDE DEF Known, Kept
  <2>. QED  BY <1>5, <1>6 DEF Injection, IsInjective
<1>8. IsFiniteSet(Known) /\ Cardinality(Known) = Len(items) - Cardinality(L \cap New)
  BY <1>3, FS_Difference
<1>9. IsFiniteSet(Kept) /\ Cardinality(Kept) <= Cardinality(Known)
  <2>. HIDE DEF Kept, Known, f
  <2>. QED  BY <1>7, <1>8, FS_Injection
<1>10. IsFiniteSet(D) /\ D \in SUBSET (1..n)
  BY <1>1, <1>2, FS_Subset DEF Dropped
<1>11. /\ IsFiniteSet(D \cup Kept)
       /\ Cardinality(D \cup Kept) = Cardinality(D) + Cardinality(Kept) - Cardinality(D \cap Kept)
  BY <1>9, <1>10, FS_Union
<1>12. Cardinality(D \cap Kept) \in Nat /\ Cardinality(D) \in Nat /\ Cardinality(Kept) \in Nat
  BY <1>9, <1>10, FS_Intersection, FS_CardinalityType
<1>13. U = (1..n) \ (D \cup Kept) /\ (1..n) \cap (D \cup Kept) = D \cup Kept
  BY <1>1 DEF UnusedSlots, Dropped
<1>14. IsFiniteSet(U) /\ Cardinality(U) = n - Cardinality(D \cup Kept)
  <2>. DEFINE X == D \cup Kept
              N == 1..n
  <2>. HIDE DEF X, N
  <2>1. IsFiniteSet(N \ X) /\ Cardinality(N \ X) = Cardinality(N) - Cardinality(N \cap X)
    BY <1>2, FS_Difference DEF N
  <2>. HIDE DEF D, Kept, U
  <2>2. U = N \ X /\ N \cap X = X
    BY <1>13 DEF N, X
  <2>. QED  BY <2>1, <2>2, <1>2 DEF N, X
<1>15. L \cap New = New /\ New \in SUBSET L
  BY <1>1 DEF NewItems
<1>16. IsFiniteSet(New) /\ Cardinality(New) \in Nat /\ Cardinality(Known) \in Nat
       /\ Cardinality(U) \in Nat
  <2>. HIDE DEF Known, New, U, L
  <2>1. IsFiniteSet(New)
    BY <1>3, <1>15, FS_Subset
  <2>. QED  BY <2>1, <1>8, <1>14, FS_CardinalityType
<1>17. Cardinality(New) <= Cardinality(U)
  <2>. HIDE DEF D, U, New, L, Known, Kept
  <2>1. Len(items) + Cardinality(D) <= n
    BY DEF D
  <2>2. Cardinality(Known) = Len(items) - Cardinality(New)
    BY <1>8, <1>15
  <2>3. Cardinality(U) = n - (Cardinality(D) + Cardinality(Kept) - Cardinality(D \cap Kept))
    BY <1>11, <1>14
  <2>. QED  BY <2>1, <2>2, <2>3, <1>1, <1>9, <1>12, <1>16
<1>18. CASE i \notin New
  BY <1>18, SlotForFacts
<1>19. CASE i \in New
  <2>. HIDE DEF D, L, Known, Kept
  <2>1. New \in SUBSET (1..Len(items)) /\ U \in SUBSET (1..n)
    BY <1>13, <1>15 DEF L
  <2>. HIDE DEF New, U
  <2>2. Rank(New, i) \in 0..(Cardinality(New) - 1)
    BY <2>1, <1>1, <1>19, RankBelowSize DEF New
  <2>3. Rank(New, i) \in Nat /\ Rank(New, i) < Cardinality(U)
    BY <2>2, <1>16, <1>17
  <2>4. PICK s \in U : Rank(U, s) = Rank(New, i)
    BY <2>1, <2>3, <1>1, RankExists
  <2>5. SlotFor(table, items, i) = UnusedSlotFor(table, items, i)
    BY <1>19 DEF SlotFor, NewItems, New
  <2>6. UnusedSlotFor(table, items, i) = s
    BY <2>4, UnusedSlotForFacts DEF U, New
  <2>7. s # NoSlot
    BY <2>1 DEF NoSlot
  <2>. QED  BY <2>5, <2>6, <2>7
<1>. QED  BY <1>18, <1>19

\* What a loop over the items makes of a table, viewed being the items it got to.
Refilled(table, new, items, viewed) ==
    /\ DOMAIN new = DOMAIN table
    /\ viewed \subseteq DOMAIN items
    /\ \A i \in viewed :
          /\ SlotFor(table, items, i) # NoSlot
          /\ new[SlotFor(table, items, i)].used
          /\ new[SlotFor(table, items, i)].id = items[i].id
    /\ \A s \in DOMAIN table : (\A i \in viewed : SlotFor(table, items, i) # s) =>
          /\ new[s].id = table[s].id
          /\ new[s].used <=> (table[s].used /\ viewed # DOMAIN items)

\* The table of programs after the first loop is of its type, and refilled.
LEMMA ProgramTableRefills ==
    ASSUME NEW table \in [1..MaxPrograms -> [used : BOOLEAN, id : ProgramIds, content : Contents]],
           IsTable(table, MaxPrograms),
           NEW programs, IsItems(programs),
           \A i \in DOMAIN programs :
              programs[i].id \in ProgramIds /\ programs[i].content \in Contents
    PROVE  /\ ProgramTable(table, programs)
                 \in [1..MaxPrograms -> [used : BOOLEAN, id : ProgramIds, content : Contents]]
           /\ Refilled(table, ProgramTable(table, programs), programs,
                       ViewedPrograms(table, programs))
           /\ \A i \in ViewedPrograms(table, programs) :
                 ProgramTable(table, programs)[SlotFor(table, programs, i)].content
                    = programs[i].content
<1>. DEFINE viewed == ViewedPrograms(table, programs)
            new == ProgramTable(table, programs)
            slot(i) == SlotFor(table, programs, i)
            chosen(s) == CHOOSE i \in viewed : slot(i) = s
<1>1. /\ MaxPrograms \in Nat /\ DOMAIN table = 1..MaxPrograms
      /\ viewed \subseteq DOMAIN programs /\ DOMAIN programs = 1..Len(programs)
      /\ Len(programs) \in Nat
  BY DEF IsTable, IsItems, ViewedPrograms
<1>2. \A i \in viewed : slot(i) # NoSlot
  BY <1>1 DEF ViewedPrograms
<1>3. \A i \in viewed : slot(i) \in 1..MaxPrograms
  BY <1>1, <1>2, SlotForFacts
<1>4. \A i, j \in viewed : slot(i) = slot(j) => i = j
  BY <1>1, <1>2, SlotForInjective
<1>5. /\ DOMAIN new = 1..MaxPrograms
      /\ \A s \in 1..MaxPrograms :
            new[s] = IF s \in {slot(i) : i \in viewed}
                     THEN [used |-> TRUE, id |-> programs[chosen(s)].id,
                           content |-> programs[chosen(s)].content]
                     ELSE [table[s] EXCEPT !.used = @ /\ viewed # DOMAIN programs]
  BY <1>1 DEF ProgramTable, Left
<1>. HIDE DEF slot, viewed, new
<1>6. \A i \in viewed :
         new[slot(i)] = [used |-> TRUE, id |-> programs[i].id, content |-> programs[i].content]
  <2>. SUFFICES ASSUME NEW i \in viewed
                PROVE  new[slot(i)] = [used |-> TRUE, id |-> programs[i].id,
                                       content |-> programs[i].content]
    OBVIOUS
  <2>1. chosen(slot(i)) \in viewed /\ slot(chosen(slot(i))) = slot(i)
    <3>1. \E j \in viewed : slot(j) = slot(i)
      OBVIOUS
    <3>. QED  BY <3>1
  <2>. HIDE DEF chosen
  <2>2. chosen(slot(i)) = i
    BY <2>1, <1>4
  <2>3. slot(i) \in 1..MaxPrograms /\ slot(i) \in {slot(j) : j \in viewed}
    BY <1>3
  <2>. QED  BY <2>2, <2>3, <1>5
<1>7. ASSUME NEW s \in 1..MaxPrograms, \A i \in viewed : slot(i) # s
      PROVE  /\ new[s].id = table[s].id
             /\ new[s].used <=> (table[s].used /\ viewed # DOMAIN programs)
             /\ new[s] \in [used : BOOLEAN, id : ProgramIds, content : Contents]
  <2>1. new[s] = [table[s] EXCEPT !.used = @ /\ viewed # DOMAIN programs]
    <3>1. s \notin {slot(i) : i \in viewed}
      BY <1>7
    <3>. QED  BY <3>1, <1>5
  <2>2. table[s] \in [used : BOOLEAN, id : ProgramIds, content : Contents]
    OBVIOUS
  <2>. QED  BY <2>1, <2>2
<1>8. new \in [1..MaxPrograms -> [used : BOOLEAN, id : ProgramIds, content : Contents]]
  <2>1. ASSUME NEW s \in 1..MaxPrograms
        PROVE  new[s] \in [used : BOOLEAN, id : ProgramIds, content : Contents]
    <3>1. CASE \E i \in viewed : slot(i) = s
      <4>1. PICK i \in viewed : slot(i) = s
        BY <3>1
      <4>2. new[s] = [used |-> TRUE, id |-> programs[i].id, content |-> programs[i].content]
        BY <4>1, <1>6
      <4>3. programs[i].id \in ProgramIds /\ programs[i].content \in Contents
        BY <1>1
      <4>. QED  BY <4>2, <4>3
    <3>2. CASE \A i \in viewed : slot(i) # s
      BY <3>2, <1>7
    <3>. QED  BY <3>1, <3>2
  <2>2. new = [s \in 1..MaxPrograms |-> new[s]]
    BY <1>1 DEF ProgramTable, new
  <2>. QED  BY <2>1, <2>2
<1>9. \A i \in viewed : /\ new[slot(i)].used
                       /\ new[slot(i)].id = programs[i].id
                       /\ new[slot(i)].content = programs[i].content
  <2>. SUFFICES ASSUME NEW i \in viewed
                PROVE  /\ new[slot(i)].used
                       /\ new[slot(i)].id = programs[i].id
                       /\ new[slot(i)].content = programs[i].content
    OBVIOUS
  <2>. DEFINE cell == new[slot(i)]
  <2>1. cell = [used |-> TRUE, id |-> programs[i].id, content |-> programs[i].content]
    BY <1>6
  <2>. HIDE DEF cell
  <2>2. cell.used /\ cell.id = programs[i].id /\ cell.content = programs[i].content
    BY <2>1
  <2>. QED  BY <2>2 DEF cell
<1>10. Refilled(table, new, programs, viewed)
  <2>1. \A s \in 1..MaxPrograms : (\A i \in viewed : slot(i) # s) =>
           /\ new[s].id = table[s].id
           /\ new[s].used <=> (table[s].used /\ viewed # DOMAIN programs)
    BY <1>7
  <2>2. DOMAIN new = DOMAIN table
    BY <1>1, <1>5
  <2>. QED  BY <2>1, <2>2, <1>1, <1>2, <1>9, Zenon DEF Refilled, slot
<1>. QED  BY <1>8, <1>9, <1>10 DEF slot, viewed, new

\* The same of the table of schedules after the second loop.
LEMMA ScheduleTableRefills ==
    ASSUME NEW table \in [1..MaxSchedules -> [used : BOOLEAN, id : ScheduleIds]],
           IsTable(table, MaxSchedules), NEW programTable,
           NEW schedules, IsItems(schedules),
           \A i \in DOMAIN schedules : schedules[i].id \in ScheduleIds
    PROVE  /\ ScheduleTable(table, programTable, schedules)
                 \in [1..MaxSchedules -> [used : BOOLEAN, id : ScheduleIds]]
           /\ Refilled(table, ScheduleTable(table, programTable, schedules), schedules,
                       ViewedSchedules(table, programTable, schedules))
<1>. DEFINE viewed == ViewedSchedules(table, programTable, schedules)
            new == ScheduleTable(table, programTable, schedules)
            slot(i) == SlotFor(table, schedules, i)
            chosen(s) == CHOOSE i \in viewed : slot(i) = s
<1>1. /\ MaxSchedules \in Nat /\ DOMAIN table = 1..MaxSchedules
      /\ viewed \subseteq DOMAIN schedules /\ DOMAIN schedules = 1..Len(schedules)
      /\ Len(schedules) \in Nat
  BY DEF IsTable, IsItems, ViewedSchedules
<1>2. \A i \in viewed : slot(i) # NoSlot
  BY <1>1 DEF ViewedSchedules
<1>3. \A i \in viewed : slot(i) \in 1..MaxSchedules
  BY <1>1, <1>2, SlotForFacts
<1>4. \A i, j \in viewed : slot(i) = slot(j) => i = j
  BY <1>1, <1>2, SlotForInjective
<1>5. /\ DOMAIN new = 1..MaxSchedules
      /\ \A s \in 1..MaxSchedules :
            new[s] = IF s \in {slot(i) : i \in viewed}
                     THEN [used |-> TRUE, id |-> schedules[chosen(s)].id]
                     ELSE [table[s] EXCEPT !.used = @ /\ viewed # DOMAIN schedules]
  BY <1>1 DEF ScheduleTable, Left
<1>. HIDE DEF slot, viewed, new
<1>6. \A i \in viewed : new[slot(i)] = [used |-> TRUE, id |-> schedules[i].id]
  <2>. SUFFICES ASSUME NEW i \in viewed
                PROVE  new[slot(i)] = [used |-> TRUE, id |-> schedules[i].id]
    OBVIOUS
  <2>1. chosen(slot(i)) \in viewed /\ slot(chosen(slot(i))) = slot(i)
    <3>1. \E j \in viewed : slot(j) = slot(i)
      OBVIOUS
    <3>. QED  BY <3>1
  <2>. HIDE DEF chosen
  <2>2. chosen(slot(i)) = i
    BY <2>1, <1>4
  <2>3. slot(i) \in 1..MaxSchedules /\ slot(i) \in {slot(j) : j \in viewed}
    BY <1>3
  <2>. QED  BY <2>2, <2>3, <1>5
<1>7. ASSUME NEW s \in 1..MaxSchedules, \A i \in viewed : slot(i) # s
      PROVE  /\ new[s].id = table[s].id
             /\ new[s].used <=> (table[s].used /\ viewed # DOMAIN schedules)
             /\ new[s] \in [used : BOOLEAN, id : ScheduleIds]
  <2>1. new[s] = [table[s] EXCEPT !.used = @ /\ viewed # DOMAIN schedules]
    <3>1. s \notin {slot(i) : i \in viewed}
      BY <1>7
    <3>. QED  BY <3>1, <1>5
  <2>2. table[s] \in [used : BOOLEAN, id : ScheduleIds]
    OBVIOUS
  <2>. QED  BY <2>1, <2>2
<1>8. new \in [1..MaxSchedules -> [used : BOOLEAN, id : ScheduleIds]]
  <2>1. ASSUME NEW s \in 1..MaxSchedules PROVE new[s] \in [used : BOOLEAN, id : ScheduleIds]
    <3>1. CASE \E i \in viewed : slot(i) = s
      <4>1. PICK i \in viewed : slot(i) = s
        BY <3>1
      <4>2. new[s] = [used |-> TRUE, id |-> schedules[i].id]
        BY <4>1, <1>6
      <4>3. schedules[i].id \in ScheduleIds
        BY <1>1
      <4>. QED  BY <4>2, <4>3
    <3>2. CASE \A i \in viewed : slot(i) # s
      BY <3>2, <1>7
    <3>. QED  BY <3>1, <3>2
  <2>2. new = [s \in 1..MaxSchedules |-> new[s]]
    BY <1>1 DEF ScheduleTable, new
  <2>. QED  BY <2>1, <2>2
<1>9. \A i \in viewed : new[slot(i)].used /\ new[slot(i)].id = schedules[i].id
  <2>. SUFFICES ASSUME NEW i \in viewed
                PROVE  /\ new[slot(i)].used
                       /\ new[slot(i)].id = schedules[i].id
    OBVIOUS
  <2>. DEFINE cell == new[slot(i)]
  <2>1. cell = [used |-> TRUE, id |-> schedules[i].id]
    BY <1>6
  <2>. HIDE DEF cell
  <2>2. cell.used /\ cell.id = schedules[i].id
    BY <2>1
  <2>. QED  BY <2>2 DEF cell
<1>10. Refilled(table, new, schedules, viewed)
  <2>1. \A s \in 1..MaxSchedules : (\A i \in viewed : slot(i) # s) =>
           /\ new[s].id = table[s].id
           /\ new[s].used <=> (table[s].used /\ viewed # DOMAIN schedules)
    BY <1>7
  <2>2. DOMAIN new = DOMAIN table
    BY <1>1, <1>5
  <2>. QED  BY <2>1, <2>2, <1>1, <1>2, <1>9, Zenon DEF Refilled, slot
<1>. QED  BY <1>8, <1>9, <1>10 DEF slot, viewed, new

\* What a refilled table keeps and what it holds, for either of the two tables.
LEMMA RefilledFacts ==
    ASSUME NEW table, NEW n, IsTable(table, n), NEW items, IsItems(items),
           NEW new, NEW viewed, Refilled(table, new, items, viewed)
    PROVE  /\ IsTable(new, n)
           /\ \A s \in 1..n :
                 table[s].used /\ (viewed # DOMAIN items \/ table[s].id \in IdsOf(items))
                    => new[s].used /\ new[s].id = table[s].id
           /\ viewed = DOMAIN items =>
                 /\ \A s \in 1..n : new[s].used => new[s].id \in IdsOf(items)
                 /\ \A i \in DOMAIN items : SlotOf(new, items[i].id) = SlotFor(table, items, i)
           /\ \A i \in DOMAIN items :
                 SlotFor(table, items, i) = NoSlot => SlotOf(new, items[i].id) = NoSlot
<1>. DEFINE slot(i) == SlotFor(table, items, i)
<1>1. /\ n \in Nat /\ DOMAIN table = 1..n /\ DOMAIN new = 1..n
      /\ viewed \subseteq DOMAIN items
  BY DEF IsTable, Refilled
<1>2. \A i \in viewed :
         slot(i) \in 1..n /\ slot(i) # NoSlot /\ new[slot(i)].used /\ new[slot(i)].id = items[i].id
  BY <1>1, SlotForFacts DEF Refilled
<1>3. \A i \in DOMAIN items, s \in 1..n :
         table[s].used /\ table[s].id = items[i].id => slot(i) = s
  BY <1>1, SlotForFacts
<1>4. \A i, j \in DOMAIN items : items[i].id = items[j].id => i = j
  BY DEF IsItems, HasDistinctIds
<1>5. \A s \in 1..n : \/ \E i \in viewed : slot(i) = s
                      \/ /\ \A i \in viewed : slot(i) # s
                         /\ new[s].id = table[s].id
                         /\ new[s].used <=> (table[s].used /\ viewed # DOMAIN items)
  BY <1>1 DEF Refilled
<1>. HIDE DEF slot
<1>6. IsTable(new, n)
  <2>. SUFFICES ASSUME NEW s \in 1..n, NEW r \in 1..n,
                       new[s].used, new[r].used, new[s].id = new[r].id
                PROVE  s = r
    BY <1>1 DEF IsTable
  <2>1. ASSUME NEW i \in viewed, slot(i) = s, NEW j \in viewed, slot(j) = r
        PROVE  s = r
    BY <2>1, <1>1, <1>2, <1>4
  <2>2. ASSUME NEW x \in 1..n, NEW y \in 1..n, new[y].used, new[x].id = new[y].id,
               NEW i \in viewed, slot(i) = x, \A j \in viewed : slot(j) # y
        PROVE  FALSE
    <3>1. new[y].id = table[y].id /\ table[y].used
      BY <2>2, <1>5
    <3>2. table[y].id = items[i].id
      BY <3>1, <2>2, <1>2
    <3>. QED  BY <3>1, <3>2, <2>2, <1>1, <1>3
  <2>3. ASSUME \A i \in viewed : slot(i) # s, \A i \in viewed : slot(i) # r
        PROVE  s = r
    BY <2>3, <1>5 DEF IsTable
  <2>. QED  BY <2>1, <2>2, <2>3
<1>7. ASSUME NEW s \in 1..n, table[s].used,
             viewed # DOMAIN items \/ table[s].id \in IdsOf(items)
      PROVE  new[s].used /\ new[s].id = table[s].id
  <2>1. CASE \E i \in viewed : slot(i) = s
    <3>1. PICK i \in viewed : slot(i) = s
      BY <2>1
    <3>2. table[s].id = items[i].id
      BY <3>1, <1>1, <1>2, <1>7, SlotForFacts DEF slot
    <3>. QED  BY <3>1, <3>2, <1>2
  <2>2. CASE \A i \in viewed : slot(i) # s
    <3>1. viewed # DOMAIN items
      BY <2>2, <1>3, <1>7 DEF IdsOf
    <3>. QED  BY <2>2, <3>1, <1>5, <1>7
  <2>. QED  BY <2>1, <2>2
<1>8. ASSUME viewed = DOMAIN items
      PROVE  /\ \A s \in 1..n : new[s].used => new[s].id \in IdsOf(items)
             /\ \A i \in DOMAIN items : SlotOf(new, items[i].id) = slot(i)
  <2>1. \A s \in 1..n : new[s].used => new[s].id \in IdsOf(items)
    BY <1>8, <1>2, <1>5 DEF IdsOf
  <2>2. \A i \in DOMAIN items : SlotOf(new, items[i].id) = slot(i)
    BY <1>8, <1>2, <1>6, SlotOfFacts
  <2>. QED  BY <2>1, <2>2
<1>9. ASSUME NEW i \in DOMAIN items, slot(i) = NoSlot
      PROVE  SlotOf(new, items[i].id) = NoSlot
  <2>1. ASSUME NEW s \in 1..n, new[s].used, new[s].id = items[i].id
        PROVE  FALSE
    <3>1. CASE \E j \in viewed : slot(j) = s
      BY <3>1, <2>1, <1>1, <1>2, <1>4, <1>9
    <3>2. CASE \A j \in viewed : slot(j) # s
      <4>1. table[s].used /\ table[s].id = items[i].id
        BY <3>2, <2>1, <1>5
      <4>2. slot(i) = s
        BY <4>1, <1>3
      <4>. QED  BY <4>2, <1>9 DEF NoSlot
    <3>. QED  BY <3>1, <3>2
  <2>. QED  BY <2>1, <1>6, SlotOfFacts
<1>. QED  BY <1>6, <1>7, <1>8, <1>9 DEF slot

-----------------------------------------------------------------------------

HasSlot(table, id) == SlotOf(table, id) # NoSlot

UsedIds(table) == {table[s].id : s \in {r \in DOMAIN table : table[r].used}}

\* A loop released what is not configured, unless it did not get to its end.
ProgramsSettled(table, programs) ==
    \/ UsedIds(table) \subseteq IdsOf(programs)
    \/ \E id \in IdsOf(programs) : ~HasSlot(table, id)

SchedulesSettled(v, c) ==
    \/ UsedIds(v.schedules) \subseteq IdsOf(c.schedules)
    \/ \E id \in IdsOf(c.schedules) : ~HasSlot(v.schedules, id)
    \/ \E id \in IdsOf(c.programs) : ~HasSlot(v.programs, id)

\* What the views are in every state, for the configuration c.
GoodViews(v, c) ==
    /\ v \in Views
    /\ IsTable(v.programs, MaxPrograms) /\ IsTable(v.schedules, MaxSchedules)
    /\ ProgramsSettled(v.programs, c.programs)
    /\ SchedulesSettled(v, c)

\* The inductive invariant.
ManagerInv ==
    /\ ManagerTypeOK
    /\ Valid(configuration) /\ Valid(saved.configuration)
    /\ GoodViews(views, configuration)
    /\ phase = "boot" => running = NoSlot /\ httpPc = "idle"
    /\ httpPc = "checked" /\ running # NoSlot /\ InForce => IsReferenced(runningId)

\* What irrigation_configuration_validate gives: items in sequences that fit, with ids
\* of their own, and schedules of programs that are there.
LEMMA ConfigurationFacts ==
    ASSUME NEW c \in Configurations, Valid(c)
    PROVE  /\ IsItems(c.programs) /\ IsItems(c.schedules)
           /\ c.programs \in Seq([id : ProgramIds, content : Contents])
           /\ Len(c.programs) \in 0..MaxPrograms /\ Len(c.schedules) \in 0..MaxSchedules
           /\ \A i \in DOMAIN c.programs :
                 c.programs[i].id \in ProgramIds /\ c.programs[i].content \in Contents
           /\ \A i \in DOMAIN c.schedules :
                 /\ c.schedules[i].id \in ScheduleIds /\ c.schedules[i].program \in ProgramIds
                 /\ c.schedules[i].enabled \in BOOLEAN /\ c.schedules[i].time \in Times
                 /\ c.schedules[i].program \in IdsOf(c.programs)
<1>. DEFINE P == [id : ProgramIds, content : Contents]
            S == [id : ScheduleIds, program : ProgramIds, enabled : BOOLEAN, time : Times]
<1>1. c.programs \in Seq(P) /\ c.schedules \in Seq(S)
  BY DEF Configurations
<1>2. /\ Len(c.programs) \in Nat /\ DOMAIN c.programs = 1..Len(c.programs)
      /\ Len(c.schedules) \in Nat /\ DOMAIN c.schedules = 1..Len(c.schedules)
  <2>. HIDE DEF P, S
  <2>. QED  BY <1>1, LenProperties
<1>3. Len(c.programs) <= MaxPrograms /\ Len(c.schedules) <= MaxSchedules
  BY DEF Valid
<1>4. IsItems(c.programs) /\ IsItems(c.schedules)
  BY <1>2 DEF Valid, IsItems
<1>5. \A i \in DOMAIN c.programs : c.programs[i] \in P
  <2>. HIDE DEF P
  <2>. QED  BY <1>1, <1>2, ElementOfSeq
<1>6. \A i \in DOMAIN c.schedules : c.schedules[i] \in S
  <2>. HIDE DEF S
  <2>. QED  BY <1>1, <1>2, ElementOfSeq
<1>7. \A i \in DOMAIN c.programs :
         c.programs[i].id \in ProgramIds /\ c.programs[i].content \in Contents
  <2>. SUFFICES ASSUME NEW i \in DOMAIN c.programs
                PROVE  c.programs[i].id \in ProgramIds /\ c.programs[i].content \in Contents
    OBVIOUS
  <2>1. c.programs[i] \in P
    BY <1>5
  <2>. QED  BY <2>1
<1>8. \A i \in DOMAIN c.schedules :
         /\ c.schedules[i].id \in ScheduleIds /\ c.schedules[i].program \in ProgramIds
         /\ c.schedules[i].enabled \in BOOLEAN /\ c.schedules[i].time \in Times
  <2>. SUFFICES ASSUME NEW i \in DOMAIN c.schedules
                PROVE  /\ c.schedules[i].id \in ScheduleIds
                       /\ c.schedules[i].program \in ProgramIds
                       /\ c.schedules[i].enabled \in BOOLEAN /\ c.schedules[i].time \in Times
    OBVIOUS
  <2>1. c.schedules[i] \in S
    BY <1>6
  <2>. QED  BY <2>1
<1>9. \A i \in DOMAIN c.schedules : c.schedules[i].program \in IdsOf(c.programs)
  BY DEF Valid, ToSet, IdsOf
<1>10. Len(c.programs) \in 0..MaxPrograms /\ Len(c.schedules) \in 0..MaxSchedules
  BY <1>2, <1>3, ManagerAssumption
<1>. QED  BY <1>1, <1>4, <1>7, <1>8, <1>9, <1>10

\* The types of the three tables.
LEMMA ViewsFacts ==
    ASSUME NEW v \in Views
    PROVE  /\ v.programs \in [1..MaxPrograms
                                -> [used : BOOLEAN, id : ProgramIds, content : Contents]]
           /\ v.schedules \in [1..MaxSchedules -> [used : BOOLEAN, id : ScheduleIds]]
           /\ v.entries \in [1..MaxSchedules -> Entries]
BY DEF Views, ProgramSlots, ScheduleSlots

\* Every entry the second loop writes has slots of the two tables.
LEMMA EntryTableType ==
    ASSUME NEW v \in Views, IsTable(v.schedules, MaxSchedules),
           NEW programTable, IsTable(programTable, MaxPrograms),
           NEW c \in Configurations, Valid(c)
    PROVE  EntryTable(v, programTable, c.schedules) \in [ScheduleSlots -> Entries]
<1>. DEFINE viewed == ViewedSchedules(v.schedules, programTable, c.schedules)
            entry(i) == IF i \in viewed
                        THEN [id      |-> SlotFor(v.schedules, c.schedules, i),
                              program |-> SlotOf(programTable, c.schedules[i].program),
                              enabled |-> c.schedules[i].enabled,
                              time    |-> c.schedules[i].time]
                        ELSE v.entries[i]
<1>1. EntryTable(v, programTable, c.schedules) = [i \in ScheduleSlots |-> entry(i)]
  BY DEF EntryTable
<1>2. ASSUME NEW i \in ScheduleSlots PROVE entry(i) \in Entries
  <2>1. CASE i \in viewed
    <3>1. i \in DOMAIN c.schedules
      BY <2>1 DEF ViewedSchedules
    <3>2. SlotFor(v.schedules, c.schedules, i) \in ScheduleSlots \cup {NoSlot}
      BY <3>1, SlotForFacts DEF ScheduleSlots
    <3>3. SlotOf(programTable, c.schedules[i].program) \in ProgramSlots \cup {NoSlot}
      BY SlotOfFacts DEF ProgramSlots
    <3>4. c.schedules[i].enabled \in BOOLEAN /\ c.schedules[i].time \in Times
      BY <3>1, ConfigurationFacts
    <3>. QED  BY <2>1, <3>2, <3>3, <3>4 DEF Entries
  <2>2. CASE i \notin viewed
    <3>1. v.entries \in [ScheduleSlots -> Entries]
      BY DEF Views
    <3>. QED  BY <2>2, <3>1
  <2>. QED  BY <2>1, <2>2
<1>. HIDE DEF entry
<1>. QED  BY <1>1, <1>2

\* What the two loops make of the tables of good views.
LEMMA ProgramsRefilled ==
    ASSUME NEW v \in Views, IsTable(v.programs, MaxPrograms),
           NEW c \in Configurations, Valid(c),
           NEW new, new = ProgramTable(v.programs, c.programs),
           NEW viewed, viewed = ViewedPrograms(v.programs, c.programs)
    PROVE  /\ new \in [1..MaxPrograms
                         -> [used : BOOLEAN, id : ProgramIds, content : Contents]]
           /\ Refilled(v.programs, new, c.programs, viewed)
           /\ \A i \in viewed : new[SlotFor(v.programs, c.programs, i)].content
                                   = c.programs[i].content
<1>. DEFINE table == v.programs
            programs == c.programs
<1>1. /\ IsItems(programs)
      /\ \A i \in DOMAIN programs :
            programs[i].id \in ProgramIds /\ programs[i].content \in Contents
  BY ConfigurationFacts
<1>2. /\ table \in [1..MaxPrograms -> [used : BOOLEAN, id : ProgramIds, content : Contents]]
      /\ IsTable(table, MaxPrograms)
  BY ViewsFacts
<1>3. new = ProgramTable(table, programs) /\ viewed = ViewedPrograms(table, programs)
  OBVIOUS
<1>. HIDE DEF table, programs
<1>4. /\ new \in [1..MaxPrograms -> [used : BOOLEAN, id : ProgramIds, content : Contents]]
      /\ Refilled(table, new, programs, viewed)
      /\ \A i \in viewed : new[SlotFor(table, programs, i)].content = programs[i].content
  BY <1>1, <1>2, <1>3, ProgramTableRefills
<1>. QED  BY <1>4 DEF table, programs

\* The same of the schedules.
LEMMA SchedulesRefilled ==
    ASSUME NEW v \in Views, IsTable(v.schedules, MaxSchedules),
           NEW c \in Configurations, Valid(c), NEW programTable,
           NEW new, new = ScheduleTable(v.schedules, programTable, c.schedules),
           NEW viewed, viewed = ViewedSchedules(v.schedules, programTable, c.schedules)
    PROVE  /\ new \in [1..MaxSchedules -> [used : BOOLEAN, id : ScheduleIds]]
           /\ Refilled(v.schedules, new, c.schedules, viewed)
<1>. DEFINE table == v.schedules
            schedules == c.schedules
<1>1. IsItems(schedules) /\ \A i \in DOMAIN schedules : schedules[i].id \in ScheduleIds
  BY ConfigurationFacts
<1>2. /\ table \in [1..MaxSchedules -> [used : BOOLEAN, id : ScheduleIds]]
      /\ IsTable(table, MaxSchedules)
  BY ViewsFacts
<1>3. /\ new = ScheduleTable(table, programTable, schedules)
      /\ viewed = ViewedSchedules(table, programTable, schedules)
  OBVIOUS
<1>. HIDE DEF table, schedules
<1>4. /\ new \in [1..MaxSchedules -> [used : BOOLEAN, id : ScheduleIds]]
      /\ Refilled(table, new, schedules, viewed)
  BY <1>1, <1>2, <1>3, ScheduleTableRefills
<1>. QED  BY <1>4 DEF table, schedules

\* The loop over the schedules, whatever table of programs it is given.
LEMMA ScheduleLoop ==
    ASSUME NEW v \in Views, IsTable(v.schedules, MaxSchedules),
           NEW programTable
              \in [ProgramSlots -> [used : BOOLEAN, id : ProgramIds, content : Contents]],
           IsTable(programTable, MaxPrograms),
           NEW c \in Configurations, Valid(c),
           ProgramsSettled(programTable, c.programs)
    PROVE  GoodViews(RebuildSchedules(v, programTable, c.schedules), c)
<1>. DEFINE w == RebuildSchedules(v, programTable, c.schedules)
            table == ScheduleTable(v.schedules, programTable, c.schedules)
            entries == EntryTable(v, programTable, c.schedules)
            viewed == ViewedSchedules(v.schedules, programTable, c.schedules)
<1>1. w = [programs |-> programTable, schedules |-> table, entries |-> entries]
  BY DEF RebuildSchedules
<1>2. /\ IsItems(c.schedules)
      /\ \A i \in DOMAIN c.schedules : c.schedules[i].id \in ScheduleIds
      /\ \A i \in DOMAIN c.schedules : c.schedules[i].program \in IdsOf(c.programs)
      /\ DOMAIN c.schedules = 1..Len(c.schedules)
  BY ConfigurationFacts DEF IsItems
<1>3. /\ table \in [1..MaxSchedules -> [used : BOOLEAN, id : ScheduleIds]]
      /\ Refilled(v.schedules, table, c.schedules, viewed)
  BY SchedulesRefilled
<1>4. entries \in [ScheduleSlots -> Entries]
  BY EntryTableType
<1>. HIDE DEF w, table, entries, viewed
<1>5. w \in Views
  BY <1>1, <1>3, <1>4 DEF Views, ScheduleSlots
<1>6. IsTable(table, MaxSchedules)
  BY <1>2, <1>3, RefilledFacts
<1>7. SchedulesSettled(w, c)
  <2>1. CASE viewed = DOMAIN c.schedules
    <3>1. \A s \in 1..MaxSchedules : table[s].used => table[s].id \in IdsOf(c.schedules)
      BY <1>2, <1>3, <2>1, RefilledFacts
    <3>2. UsedIds(table) \subseteq IdsOf(c.schedules)
      BY <3>1, <1>6 DEF UsedIds, IsTable
    <3>. QED  BY <3>2, <1>1 DEF SchedulesSettled
  <2>2. CASE viewed # DOMAIN c.schedules
    <3>1. PICK i \in DOMAIN c.schedules :
             \E j \in 1..i : \/ SlotFor(v.schedules, c.schedules, j) = NoSlot
                            \/ SlotOf(programTable, c.schedules[j].program) = NoSlot
      BY <2>2 DEF ViewedSchedules, viewed
    <3>2. PICK j \in 1..i : \/ SlotFor(v.schedules, c.schedules, j) = NoSlot
                            \/ SlotOf(programTable, c.schedules[j].program) = NoSlot
      BY <3>1
    <3>3. j \in DOMAIN c.schedules
      BY <1>2 DEF IsItems
    <3>4. CASE SlotFor(v.schedules, c.schedules, j) = NoSlot
      <4>1. SlotOf(table, c.schedules[j].id) = NoSlot
        BY <1>2, <1>3, <3>3, <3>4, RefilledFacts
      <4>. QED  BY <4>1, <3>3, <1>1 DEF SchedulesSettled, HasSlot, IdsOf
    <3>5. CASE SlotOf(programTable, c.schedules[j].program) = NoSlot
      BY <3>3, <3>5, <1>1, <1>2 DEF SchedulesSettled, HasSlot
    <3>. QED  BY <3>2, <3>4, <3>5
  <2>. QED  BY <2>1, <2>2
<1>8. w.programs = programTable /\ w.schedules = table
  BY <1>1
<1>. QED  BY <1>5, <1>6, <1>7, <1>8 DEF GoodViews, w

\* The loop over the programs.
LEMMA ProgramLoop ==
    ASSUME NEW v \in Views, IsTable(v.programs, MaxPrograms),
           NEW c \in Configurations, Valid(c),
           NEW table, table = ProgramTable(v.programs, c.programs)
    PROVE  /\ table \in [ProgramSlots -> [used : BOOLEAN, id : ProgramIds, content : Contents]]
           /\ IsTable(table, MaxPrograms)
           /\ ProgramsSettled(table, c.programs)
           /\ ViewedPrograms(v.programs, c.programs) # DOMAIN c.programs
                 => \E id \in IdsOf(c.programs) : ~HasSlot(table, id)
<1>. DEFINE viewed == ViewedPrograms(v.programs, c.programs)
<1>1. /\ IsItems(c.programs)
      /\ \A i \in DOMAIN c.programs :
            c.programs[i].id \in ProgramIds /\ c.programs[i].content \in Contents
      /\ DOMAIN c.programs = 1..Len(c.programs)
  BY ConfigurationFacts DEF IsItems
<1>2. /\ table \in [1..MaxPrograms -> [used : BOOLEAN, id : ProgramIds, content : Contents]]
      /\ Refilled(v.programs, table, c.programs, viewed)
  BY ProgramsRefilled
<1>3. IsTable(table, MaxPrograms)
  BY <1>1, <1>2, RefilledFacts
<1>4. ASSUME viewed = DOMAIN c.programs PROVE UsedIds(table) \subseteq IdsOf(c.programs)
  <2>1. \A s \in 1..MaxPrograms : table[s].used => table[s].id \in IdsOf(c.programs)
    BY <1>1, <1>2, <1>4, RefilledFacts
  <2>. QED  BY <2>1, <1>3 DEF UsedIds, IsTable
<1>5. ASSUME viewed # DOMAIN c.programs
      PROVE  \E id \in IdsOf(c.programs) : ~HasSlot(table, id)
  <2>1. PICK i \in DOMAIN c.programs :
           \E j \in 1..i : SlotFor(v.programs, c.programs, j) = NoSlot
    BY <1>5 DEF ViewedPrograms
  <2>2. PICK j \in 1..i : SlotFor(v.programs, c.programs, j) = NoSlot
    BY <2>1
  <2>3. j \in DOMAIN c.programs
    BY <1>1 DEF IsItems
  <2>4. SlotOf(table, c.programs[j].id) = NoSlot
    BY <1>1, <1>2, <2>2, <2>3, RefilledFacts
  <2>. QED  BY <2>3, <2>4 DEF HasSlot, IdsOf
<1>. QED  BY <1>2, <1>3, <1>4, <1>5 DEF ProgramsSettled, ProgramSlots

\* The views stay good, whatever they are built from.
LEMMA RebuildGood ==
    ASSUME NEW v \in Views,
           IsTable(v.programs, MaxPrograms), IsTable(v.schedules, MaxSchedules),
           NEW c \in Configurations, Valid(c), NEW rebuildPrograms \in BOOLEAN,
           rebuildPrograms \/ ProgramsSettled(v.programs, c.programs)
    PROVE  GoodViews(Rebuild(v, c, rebuildPrograms), c)
<1>. DEFINE table == ProgramTable(v.programs, c.programs)
<1>1. CASE ~rebuildPrograms
  <2>1. Rebuild(v, c, rebuildPrograms) = RebuildSchedules(v, v.programs, c.schedules)
    BY <1>1 DEF Rebuild
  <2>2. v.programs \in [ProgramSlots -> [used : BOOLEAN, id : ProgramIds, content : Contents]]
    BY ViewsFacts DEF ProgramSlots
  <2>. QED  BY <1>1, <2>1, <2>2, ScheduleLoop
<1>2. CASE rebuildPrograms /\ ViewedPrograms(v.programs, c.programs) = DOMAIN c.programs
  <2>1. Rebuild(v, c, rebuildPrograms) = RebuildSchedules(v, table, c.schedules)
    BY <1>2 DEF Rebuild
  <2>2. /\ table \in [ProgramSlots -> [used : BOOLEAN, id : ProgramIds, content : Contents]]
        /\ IsTable(table, MaxPrograms) /\ ProgramsSettled(table, c.programs)
    BY ProgramLoop
  <2>. QED  BY <2>1, <2>2, ScheduleLoop
<1>3. CASE rebuildPrograms /\ ViewedPrograms(v.programs, c.programs) # DOMAIN c.programs
  <2>. DEFINE w == [v EXCEPT !.programs = table]
  <2>1. Rebuild(v, c, rebuildPrograms) = w
    BY <1>3 DEF Rebuild
  <2>2. /\ table \in [ProgramSlots -> [used : BOOLEAN, id : ProgramIds, content : Contents]]
        /\ IsTable(table, MaxPrograms) /\ ProgramsSettled(table, c.programs)
        /\ \E id \in IdsOf(c.programs) : ~HasSlot(table, id)
    BY <1>3, ProgramLoop
  <2>. HIDE DEF table
  <2>3. w \in Views /\ w.programs = table /\ w.schedules = v.schedules
    BY <2>2 DEF Views
  <2>. HIDE DEF w
  <2>. QED  BY <2>1, <2>2, <2>3 DEF GoodViews, SchedulesSettled
<1>. QED  BY <1>1, <1>2, <1>3

\* The slot of a program the new configuration has stays the program's.
LEMMA RebuildKeeps ==
    ASSUME NEW v \in Views, IsTable(v.programs, MaxPrograms),
           NEW c \in Configurations, Valid(c), NEW rebuildPrograms \in BOOLEAN,
           NEW s \in ProgramSlots, v.programs[s].used,
           rebuildPrograms => v.programs[s].id \in IdsOf(c.programs),
           NEW w, w = Rebuild(v, c, rebuildPrograms)
    PROVE  w.programs[s].used /\ w.programs[s].id = v.programs[s].id
<1>. DEFINE table == ProgramTable(v.programs, c.programs)
            viewed == ViewedPrograms(v.programs, c.programs)
<1>1. CASE ~rebuildPrograms
  <2>1. w.programs = v.programs
    BY <1>1 DEF Rebuild, RebuildSchedules
  <2>. QED  BY <2>1
<1>2. CASE rebuildPrograms
  <2>1. w.programs = table
    <3>. HIDE DEF table
    <3>1. [v EXCEPT !.programs = table].programs = table
      BY DEF Views
    <3>. QED  BY <1>2, <3>1 DEF Rebuild, RebuildSchedules, table
  <2>2. /\ IsItems(c.programs)
        /\ \A i \in DOMAIN c.programs :
              c.programs[i].id \in ProgramIds /\ c.programs[i].content \in Contents
    BY ConfigurationFacts
  <2>3. Refilled(v.programs, table, c.programs, viewed)
    BY ProgramsRefilled
  <2>4. table[s].used /\ table[s].id = v.programs[s].id
    <3>. HIDE DEF table, viewed
    <3>. QED  BY <1>2, <2>2, <2>3, RefilledFacts DEF ProgramSlots
  <2>. QED  BY <2>1, <2>4
<1>. QED  BY <1>1, <1>2

-----------------------------------------------------------------------------

\* A program that is shown has a slot.
LEMMA ShownHasSlot ==
    ASSUME NEW table, IsTable(table, MaxPrograms), NEW programs,
           ProgramsShown(table, programs), NEW id \in IdsOf(programs)
    PROVE  SlotOf(table, id) # NoSlot
<1>1. PICK i \in DOMAIN programs : programs[i].id = id
  BY DEF IdsOf
<1>2. PICK s \in ProgramSlots :
         table[s] = [used |-> TRUE, id |-> programs[i].id, content |-> programs[i].content]
  BY DEF ProgramsShown
<1>3. s \in 1..MaxPrograms /\ table[s].used /\ table[s].id = id /\ s # NoSlot
  BY <1>1, <1>2, ManagerAssumption DEF ProgramSlots, NoSlot
<1>. QED  BY <1>3, SlotOfFacts

\* The entries given to the scheduler are the first ones of the views.
LEMMA EntriesOfFacts ==
    ASSUME NEW v \in Views, NEW n \in 0..MaxSchedules
    PROVE  /\ EntriesOf(v, n) \in Seq(Entries) /\ Len(EntriesOf(v, n)) = n
           /\ DOMAIN EntriesOf(v, n) = 1..n
           /\ \A i \in 1..n : EntriesOf(v, n)[i] = v.entries[i]
<1>1. \A i \in 1..n : v.entries[i] \in Entries
  BY ViewsFacts, ManagerAssumption
<1>2. 1 \in Int /\ n \in Int /\ n \in Nat /\ n - 1 + 1 = n
  BY ManagerAssumption
<1>3. /\ SubSeq(v.entries, 1, n) \in Seq(Entries)
      /\ Len(SubSeq(v.entries, 1, n)) = IF 1 <= n THEN n - 1 + 1 ELSE 0
      /\ \A i \in 1..(n - 1 + 1) : SubSeq(v.entries, 1, n)[i] = v.entries[1 + i - 1]
  BY <1>1, <1>2, SubSeqProperties
<1>4. Len(EntriesOf(v, n)) = n
  BY <1>2, <1>3 DEF EntriesOf
<1>5. DOMAIN EntriesOf(v, n) = 1..n
  BY <1>3, <1>4, LenProperties DEF EntriesOf
<1>6. \A i \in 1..n : EntriesOf(v, n)[i] = v.entries[i]
  BY <1>2, <1>3 DEF EntriesOf
<1>. QED  BY <1>3, <1>4, <1>5, <1>6 DEF EntriesOf

\* A rebuild that finds a slot for everything puts the configuration in force.
LEMMA RebuildShows ==
    ASSUME NEW v \in Views,
           IsTable(v.programs, MaxPrograms), IsTable(v.schedules, MaxSchedules),
           NEW c \in Configurations, Valid(c), NEW rebuildPrograms \in BOOLEAN,
           IF rebuildPrograms
           THEN \A i \in DOMAIN c.programs : SlotFor(v.programs, c.programs, i) # NoSlot
           ELSE ProgramsShown(v.programs, c.programs) /\ ProgramsSettled(v.programs, c.programs),
           \A i \in DOMAIN c.schedules : SlotFor(v.schedules, c.schedules, i) # NoSlot,
           NEW w, w = Rebuild(v, c, rebuildPrograms),
           NEW n, n = Len(c.schedules)
    PROVE  Accepts(w, n) /\ InForceWith(w, EntriesOf(w, n), c)
<1>. DEFINE pt == IF rebuildPrograms THEN ProgramTable(v.programs, c.programs) ELSE v.programs
            st == ScheduleTable(v.schedules, pt, c.schedules)
            slot(i) == SlotFor(v.schedules, c.schedules, i)
            entry(i) == [id      |-> slot(i),
                         program |-> SlotOf(pt, c.schedules[i].program),
                         enabled |-> c.schedules[i].enabled,
                         time    |-> c.schedules[i].time]
<1>1. /\ IsItems(c.programs) /\ IsItems(c.schedules)
      /\ DOMAIN c.schedules = 1..n /\ n \in 0..MaxSchedules
      /\ DOMAIN c.programs = 1..Len(c.programs) /\ Len(c.programs) \in Nat
  BY ConfigurationFacts DEF IsItems
<1>2. /\ \A i \in DOMAIN c.programs :
            c.programs[i].id \in ProgramIds /\ c.programs[i].content \in Contents
      /\ \A i \in DOMAIN c.schedules : c.schedules[i].id \in ScheduleIds
      /\ \A i \in DOMAIN c.schedules : c.schedules[i].program \in IdsOf(c.programs)
  BY ConfigurationFacts
<1>3. IsTable(pt, MaxPrograms) /\ ProgramsShown(pt, c.programs)
  <2>1. CASE ~rebuildPrograms
    BY <2>1
  <2>2. CASE rebuildPrograms
    <3>. DEFINE new == ProgramTable(v.programs, c.programs)
                viewed == ViewedPrograms(v.programs, c.programs)
    <3>1. viewed = DOMAIN c.programs
      <4>1. \A i \in DOMAIN c.programs : \A j \in 1..i : j \in DOMAIN c.programs
        BY <1>1
      <4>. QED  BY <2>2, <4>1 DEF ViewedPrograms
    <3>2. /\ new \in [1..MaxPrograms
                       -> [used : BOOLEAN, id : ProgramIds, content : Contents]]
          /\ Refilled(v.programs, new, c.programs, viewed)
          /\ \A i \in viewed : new[SlotFor(v.programs, c.programs, i)].content
                                  = c.programs[i].content
      BY ProgramsRefilled
    <3>3. IsTable(new, MaxPrograms)
      <4>. HIDE DEF new, viewed
      <4>. QED  BY <1>1, <3>2, RefilledFacts
    <3>4. ProgramsShown(new, c.programs)
      <4>. HIDE DEF new, viewed
      <4>. SUFFICES ASSUME NEW i \in DOMAIN c.programs
                    PROVE  \E s \in ProgramSlots :
                              new[s] = [used |-> TRUE, id |-> c.programs[i].id,
                                        content |-> c.programs[i].content]
        BY DEF ProgramsShown
      <4>. DEFINE s == SlotFor(v.programs, c.programs, i)
      <4>1. s \in ProgramSlots
        BY <2>2, SlotForFacts DEF ProgramSlots
      <4>2. new[s].used /\ new[s].id = c.programs[i].id
            /\ new[s].content = c.programs[i].content
        BY <3>1, <3>2 DEF Refilled
      <4>3. new[s] \in [used : BOOLEAN, id : ProgramIds, content : Contents]
        BY <3>2, <4>1 DEF ProgramSlots
      <4>. HIDE DEF s
      <4>4. new[s] = [used |-> TRUE, id |-> c.programs[i].id,
                      content |-> c.programs[i].content]
        BY <4>2, <4>3
      <4>. QED  BY <4>1, <4>4
    <3>. QED  BY <2>2, <3>3, <3>4
  <2>. QED  BY <2>1, <2>2
<1>4. w = RebuildSchedules(v, pt, c.schedules)
  <2>1. CASE ~rebuildPrograms
    BY <2>1 DEF Rebuild
  <2>2. CASE rebuildPrograms
    <3>1. ViewedPrograms(v.programs, c.programs) = DOMAIN c.programs
      <4>1. \A i \in DOMAIN c.programs : \A j \in 1..i : j \in DOMAIN c.programs
        BY <1>1
      <4>. QED  BY <2>2, <4>1 DEF ViewedPrograms
    <3>. QED  BY <2>2, <3>1 DEF Rebuild
  <2>. QED  BY <2>1, <2>2
<1>. HIDE DEF pt
<1>5. \A i \in 1..n : SlotOf(pt, c.schedules[i].program) # NoSlot
  BY <1>1, <1>2, <1>3, ShownHasSlot
<1>6. ViewedSchedules(v.schedules, pt, c.schedules) = 1..n
  <2>1. \A i \in 1..n : \A j \in 1..i : j \in 1..n
    BY <1>1
  <2>. QED  BY <1>1, <1>5, <2>1 DEF ViewedSchedules
<1>7. /\ st \in [1..MaxSchedules -> [used : BOOLEAN, id : ScheduleIds]]
      /\ Refilled(v.schedules, st, c.schedules, 1..n)
  BY <1>6, SchedulesRefilled
<1>8. w.programs = pt /\ w.schedules = st /\ w.entries = EntryTable(v, pt, c.schedules)
  BY <1>4 DEF RebuildSchedules
<1>. HIDE DEF st
<1>9. \A i \in 1..n : w.entries[i] = entry(i)
  BY <1>1, <1>6, <1>8, ManagerAssumption DEF EntryTable, ScheduleSlots
<1>10. \A i \in 1..n : st[slot(i)] = [used |-> TRUE, id |-> c.schedules[i].id]
  <2>. SUFFICES ASSUME NEW i \in 1..n
                PROVE  st[slot(i)] = [used |-> TRUE, id |-> c.schedules[i].id]
    OBVIOUS
  <2>1. slot(i) \in 1..MaxSchedules
    BY <1>1, SlotForFacts
  <2>2. st[slot(i)].used /\ st[slot(i)].id = c.schedules[i].id
    BY <1>7 DEF Refilled
  <2>. DEFINE cell == st[slot(i)]
  <2>3. cell \in [used : BOOLEAN, id : ScheduleIds]
    BY <1>7, <2>1
  <2>4. cell.used /\ cell.id = c.schedules[i].id
    BY <2>2
  <2>. HIDE DEF cell
  <2>5. cell = [used |-> TRUE, id |-> c.schedules[i].id]
    BY <2>3, <2>4
  <2>. QED  BY <2>5 DEF cell
<1>11. w \in Views
  BY RebuildGood DEF GoodViews
<1>. DEFINE entries == EntriesOf(w, n)
<1>12. /\ Len(entries) = n /\ DOMAIN entries = 1..n
       /\ \A i \in 1..n : entries[i] = entry(i)
  BY <1>1, <1>9, <1>11, EntriesOfFacts
<1>. HIDE DEF entries
<1>13. ASSUME NEW i \in 1..n
       PROVE  /\ entries[i].id = slot(i)
              /\ entries[i].program = SlotOf(pt, c.schedules[i].program)
              /\ entries[i].enabled = c.schedules[i].enabled
              /\ entries[i].time = c.schedules[i].time
  <2>1. entries[i] = entry(i)
    BY <1>12
  <2>. QED  BY <2>1
<1>14. \A i \in 1..n : Shows(w, entries[i], c.schedules[i])
  BY <1>1, <1>5, <1>8, <1>10, <1>13 DEF Shows
<1>15. InForceWith(w, entries, c)
  BY <1>3, <1>8, <1>12, <1>14 DEF InForceWith
<1>16. \A i \in 1..n : entries[i].id # NoSlot /\ entries[i].program # NoSlot
  BY <1>14 DEF Shows
<1>17. \A i, j \in 1..n : w.schedules[entries[i].id].id = w.schedules[entries[j].id].id => i = j
  <2>. SUFFICES ASSUME NEW i \in 1..n, NEW j \in 1..n,
                       w.schedules[entries[i].id].id = w.schedules[entries[j].id].id
                PROVE  i = j
    OBVIOUS
  <2>. DEFINE x == w.schedules[entries[i].id]
              y == w.schedules[entries[j].id]
  <2>1. /\ x = [used |-> TRUE, id |-> c.schedules[i].id]
        /\ y = [used |-> TRUE, id |-> c.schedules[j].id]
    BY <1>14 DEF Shows
  <2>2. x.id = y.id
    OBVIOUS
  <2>. HIDE DEF x, y
  <2>3. c.schedules[i].id = c.schedules[j].id
    BY <2>1, <2>2
  <2>. QED  BY <2>3, <1>1 DEF IsItems, HasDistinctIds
<1>. QED  BY <1>15, <1>16, <1>17 DEF Accepts, entries

-----------------------------------------------------------------------------

\* The table has a slot for every item and no other.
Holds(table, items) ==
    /\ UsedIds(table) \subseteq IdsOf(items)
    /\ \A id \in IdsOf(items) : SlotOf(table, id) # NoSlot

\* The views of a configuration in force have slots for it and for nothing else.
LEMMA InForceHolds ==
    ASSUME NEW c \in Configurations, Valid(c), NEW v, GoodViews(v, c),
           NEW entries \in Seq(Entries), InForceWith(v, entries, c)
    PROVE  Holds(v.programs, c.programs) /\ Holds(v.schedules, c.schedules)
<1>1. /\ IsTable(v.programs, MaxPrograms) /\ IsTable(v.schedules, MaxSchedules)
      /\ ProgramsSettled(v.programs, c.programs) /\ SchedulesSettled(v, c)
  BY DEF GoodViews
<1>2. \A id \in IdsOf(c.programs) : SlotOf(v.programs, id) # NoSlot
  BY <1>1, ShownHasSlot DEF InForceWith
<1>3. \A id \in IdsOf(c.schedules) : SlotOf(v.schedules, id) # NoSlot
  <2>. SUFFICES ASSUME NEW i \in DOMAIN c.schedules
                PROVE  SlotOf(v.schedules, c.schedules[i].id) # NoSlot
    BY DEF IdsOf
  <2>1. i \in DOMAIN entries /\ i \in 1..Len(entries)
    <3>1. DOMAIN entries = 1..Len(entries)
      BY LenProperties
    <3>2. DOMAIN c.schedules = 1..Len(c.schedules)
      BY ConfigurationFacts DEF IsItems
    <3>. QED  BY <3>1, <3>2 DEF InForceWith
  <2>. DEFINE entry == entries[i]
  <2>2. entry.id # NoSlot /\ v.schedules[entry.id] = [used |-> TRUE, id |-> c.schedules[i].id]
    BY <2>1 DEF InForceWith, Shows
  <2>3. entry \in Entries
    BY <2>1, ElementOfSeq
  <2>. HIDE DEF entry
  <2>4. entry.id \in 1..MaxSchedules
    BY <2>2, <2>3 DEF Entries, ScheduleSlots
  <2>. DEFINE cell == v.schedules[entry.id]
  <2>5. cell = [used |-> TRUE, id |-> c.schedules[i].id]
    BY <2>2
  <2>. HIDE DEF cell
  <2>6. cell.used /\ cell.id = c.schedules[i].id
    BY <2>5
  <2>7. SlotOf(v.schedules, c.schedules[i].id) = entry.id
    BY <2>4, <2>6, <1>1, SlotOfFacts DEF cell
  <2>. QED  BY <2>2, <2>7
<1>. QED  BY <1>1, <1>2, <1>3 DEF Holds, ProgramsSettled, SchedulesSettled, HasSlot

\* A change of the items only adds some or only removes some.
Comparable(a, b) == IdsOf(a) \subseteq IdsOf(b) \/ IdsOf(b) \subseteq IdsOf(a)

\* Then there is a slot for every item after it.
LEMMA EditFits ==
    ASSUME NEW table, NEW n, IsTable(table, n), NEW a, NEW b, IsItems(b),
           Holds(table, a), Comparable(a, b), Len(b) <= n, NEW i \in DOMAIN b
    PROVE  SlotFor(table, b, i) # NoSlot
<1>1. CASE IdsOf(b) \subseteq IdsOf(a)
  <2>1. i \notin NewItems(table, b)
    BY <1>1 DEF NewItems, Holds, IdsOf
  <2>. QED  BY <2>1, SlotForFacts
<1>2. CASE IdsOf(a) \subseteq IdsOf(b)
  <2>1. Dropped(table, b) = {}
    BY <1>2 DEF Dropped, Holds, UsedIds
  <2>2. Len(b) + Cardinality(Dropped(table, b)) <= n
    BY <2>1, FS_EmptySet DEF IsItems
  <2>. QED  BY <2>2, RoomSuffices
<1>. QED  BY <1>1, <1>2 DEF Comparable

\* From a configuration in force to one that adds or removes.
LEMMA EditInForce ==
    ASSUME NEW a \in Configurations, Valid(a), NEW b \in Configurations, Valid(b),
           Comparable(a.programs, b.programs), Comparable(a.schedules, b.schedules),
           NEW v, GoodViews(v, a), NEW entries \in Seq(Entries), InForceWith(v, entries, a),
           NEW rebuildPrograms \in BOOLEAN, rebuildPrograms \/ a.programs = b.programs,
           NEW w, w = Rebuild(v, b, rebuildPrograms), NEW n, n = Len(b.schedules)
    PROVE  Accepts(w, n) /\ InForceWith(w, EntriesOf(w, n), b)
<1>1. /\ v \in Views /\ IsTable(v.programs, MaxPrograms) /\ IsTable(v.schedules, MaxSchedules)
      /\ ProgramsSettled(v.programs, a.programs)
  BY DEF GoodViews
<1>2. Holds(v.programs, a.programs) /\ Holds(v.schedules, a.schedules)
  BY InForceHolds
<1>3. /\ IsItems(b.programs) /\ IsItems(b.schedules)
      /\ Len(b.programs) <= MaxPrograms /\ Len(b.schedules) <= MaxSchedules
  BY ConfigurationFacts DEF Valid
<1>4. \A i \in DOMAIN b.programs : SlotFor(v.programs, b.programs, i) # NoSlot
  BY <1>1, <1>2, <1>3, EditFits
<1>5. \A i \in DOMAIN b.schedules : SlotFor(v.schedules, b.schedules, i) # NoSlot
  BY <1>1, <1>2, <1>3, EditFits
<1>6. ~rebuildPrograms =>
         ProgramsShown(v.programs, b.programs) /\ ProgramsSettled(v.programs, b.programs)
  BY <1>1 DEF InForceWith
<1>. QED  BY <1>1, <1>4, <1>5, <1>6, RebuildShows

-----------------------------------------------------------------------------

\* What a handler makes of the configuration.
Edit(candidate) ==
    /\ candidate \in Configurations
    /\ Comparable(configuration.programs, candidate.programs)
    /\ Comparable(configuration.schedules, candidate.schedules)
    /\ \/ candidate.programs = configuration.programs
       \/ candidate.schedules = configuration.schedules /\ httpPc = "checked"

\* The views of the candidate, and those of the configuration after it again.
LEMMA CandidateViews ==
    ASSUME ManagerInv, NEW candidate, Edit(candidate), Valid(candidate),
           NEW change, change = ProgramsChange(candidate),
           NEW v, v = Rebuild(views, candidate, change), NEW n, n = Len(candidate.schedules),
           NEW old, old = Rebuild(v, configuration, change),
           NEW m, m = Len(configuration.schedules)
    PROVE  /\ change \in BOOLEAN
           /\ GoodViews(v, candidate) /\ GoodViews(old, configuration)
           /\ EntriesOf(v, n) \in Seq(Entries) /\ EntriesOf(old, m) \in Seq(Entries)
           /\ InForce => /\ Accepts(v, n) /\ InForceWith(v, EntriesOf(v, n), candidate)
                         /\ Accepts(old, m)
                         /\ InForceWith(old, EntriesOf(old, m), configuration)
<1>1. /\ configuration \in Configurations /\ Valid(configuration)
      /\ candidate \in Configurations
      /\ GoodViews(views, configuration) /\ schedulerEntries \in Seq(Entries)
  BY DEF ManagerInv, ManagerTypeOK, Edit
<1>2. change \in BOOLEAN /\ (change \/ configuration.programs = candidate.programs)
  BY DEF ProgramsChange
<1>3. GoodViews(v, candidate)
  BY <1>1, <1>2, RebuildGood DEF GoodViews
<1>4. GoodViews(old, configuration)
  BY <1>1, <1>2, <1>3, RebuildGood DEF GoodViews
<1>5. EntriesOf(v, n) \in Seq(Entries)
  BY <1>1, <1>3, ConfigurationFacts, EntriesOfFacts DEF GoodViews
<1>6. EntriesOf(old, m) \in Seq(Entries)
  BY <1>1, <1>4, ConfigurationFacts, EntriesOfFacts DEF GoodViews
<1>7. /\ Comparable(configuration.programs, candidate.programs)
      /\ Comparable(configuration.schedules, candidate.schedules)
      /\ Comparable(candidate.programs, configuration.programs)
      /\ Comparable(candidate.schedules, configuration.schedules)
  BY DEF Edit, Comparable
<1>8. ASSUME InForce
      PROVE  /\ Accepts(v, n) /\ InForceWith(v, EntriesOf(v, n), candidate)
             /\ Accepts(old, m) /\ InForceWith(old, EntriesOf(old, m), configuration)
  <2>1. Accepts(v, n) /\ InForceWith(v, EntriesOf(v, n), candidate)
    BY <1>1, <1>2, <1>7, <1>8, EditInForce DEF InForce
  <2>2. Accepts(old, m) /\ InForceWith(old, EntriesOf(old, m), configuration)
    BY <1>1, <1>2, <1>3, <1>5, <1>7, <2>1, EditInForce
  <2>. QED  BY <2>1, <2>2
<1>. QED  BY <1>2, <1>3, <1>4, <1>5, <1>6, <1>8

\* Neither takes the slot of the running program away.
LEMMA CandidateKeepsRunning ==
    ASSUME ManagerInv, NEW candidate, Edit(candidate), Valid(candidate),
           NEW change, change = ProgramsChange(candidate),
           NEW v, v = Rebuild(views, candidate, change),
           NEW old, old = Rebuild(v, configuration, change),
           InForce, RunningProgramInPlace, running # NoSlot
    PROVE  /\ v.programs[running].used /\ v.programs[running].id = runningId
           /\ old.programs[running].used /\ old.programs[running].id = runningId
<1>1. /\ configuration \in Configurations /\ Valid(configuration)
      /\ candidate \in Configurations /\ change \in BOOLEAN
      /\ GoodViews(views, configuration) /\ GoodViews(v, candidate)
      /\ running \in ProgramSlots
  BY CandidateViews DEF ManagerInv, ManagerTypeOK, Edit
<1>2. views.programs[running].used /\ views.programs[running].id = runningId
  BY DEF RunningProgramInPlace
<1>3. ASSUME change
      PROVE  runningId \in IdsOf(configuration.programs) /\ runningId \in IdsOf(candidate.programs)
  <2>1. candidate.schedules = configuration.schedules /\ httpPc = "checked"
    BY <1>3 DEF Edit, ProgramsChange
  <2>2. IsReferenced(runningId)
    BY <2>1 DEF ManagerInv
  <2>3. PICK i \in DOMAIN configuration.schedules : configuration.schedules[i].program = runningId
    BY <2>2 DEF IsReferenced, ToSet
  <2>4. runningId \in IdsOf(configuration.programs)
    BY <1>1, <2>3, ConfigurationFacts
  <2>5. runningId \in IdsOf(candidate.programs)
    BY <1>1, <2>1, <2>3, ConfigurationFacts
  <2>. QED  BY <2>4, <2>5
<1>4. v.programs[running].used /\ v.programs[running].id = runningId
  BY <1>1, <1>2, <1>3, RebuildKeeps DEF GoodViews
<1>5. old.programs[running].used /\ old.programs[running].id = runningId
  BY <1>1, <1>3, <1>4, RebuildKeeps DEF GoodViews
<1>. QED  BY <1>4, <1>5

\* What every step keeps, of the invariant and of the three action properties.
Kept ==
    /\ ManagerInv'
    /\ phase = "running" /\ phase' = "running" /\ InForce => InForce'
    /\ InForce /\ RunningProgramInPlace => RunningProgramInPlace'

\* replace_candidate, saved or taken back.
LEMMA ReplaceKeeps ==
    ASSUME ManagerInv, NEW candidate, Edit(candidate), ReplaceCandidate(candidate)
    PROVE  Kept
<1>. DEFINE change == ProgramsChange(candidate)
            v == Rebuild(views, candidate, change)
            n == Len(candidate.schedules)
            old == Rebuild(v, configuration, change)
            m == Len(configuration.schedules)
<1>1. /\ Valid(candidate) /\ candidate \in Configurations
      /\ phase = "running" /\ httpPc' = "idle"
      /\ UNCHANGED <<repository, phase, running, runningId>>
  BY DEF ReplaceCandidate, Edit
<1>2. /\ change \in BOOLEAN
      /\ GoodViews(v, candidate) /\ GoodViews(old, configuration)
      /\ EntriesOf(v, n) \in Seq(Entries) /\ EntriesOf(old, m) \in Seq(Entries)
      /\ InForce => /\ Accepts(v, n) /\ InForceWith(v, EntriesOf(v, n), candidate)
                    /\ Accepts(old, m)
                    /\ InForceWith(old, EntriesOf(old, m), configuration)
  BY <1>1, CandidateViews
<1>3. InForce /\ RunningProgramInPlace /\ running # NoSlot =>
         /\ v.programs[running].used /\ v.programs[running].id = runningId
         /\ old.programs[running].used /\ old.programs[running].id = runningId
  BY <1>1, CandidateKeepsRunning
<1>4. \/ /\ saved' = Stored(candidate) /\ configuration' = candidate
         /\ views' = v /\ schedulerEntries' = EntriesOf(v, n)
      \/ /\ saved' \in {saved, Stored(candidate)} /\ configuration' = configuration
         /\ views' = old
         /\ schedulerEntries' = IF Accepts(old, m) THEN EntriesOf(old, m)
                                ELSE IF Accepts(v, n) THEN EntriesOf(v, n) ELSE schedulerEntries
  BY DEF ReplaceCandidate, TakeBack, Configured
<1>. HIDE DEF change, v, n, old, m
<1>5. InForce' <=> InForceWith(views', schedulerEntries', configuration')
  BY DEF InForce
<1>6. /\ saved' \in [is : {"nothing", "unusable", "valid"}, configuration : Configurations]
      /\ Valid(saved.configuration)'
  <2>1. /\ saved \in [is : {"nothing", "unusable", "valid"}, configuration : Configurations]
        /\ Valid(saved.configuration)
    BY DEF ManagerInv, ManagerTypeOK
  <2>2. /\ Stored(candidate)
             \in [is : {"nothing", "unusable", "valid"}, configuration : Configurations]
        /\ Stored(candidate).configuration = candidate
    BY <1>1 DEF Stored
  <2>. QED  BY <1>1, <1>4, <2>1, <2>2
<1>7. /\ configuration' \in Configurations /\ Valid(configuration)'
      /\ GoodViews(views, configuration)' /\ views' \in Views
      /\ schedulerEntries' \in Seq(Entries)
  BY <1>1, <1>2, <1>4 DEF ManagerInv, ManagerTypeOK, GoodViews
<1>8. ManagerInv'
  BY <1>1, <1>6, <1>7 DEF ManagerInv, ManagerTypeOK
<1>9. InForce => InForce'
  BY <1>2, <1>4, <1>5
<1>10. InForce /\ RunningProgramInPlace => RunningProgramInPlace'
  BY <1>1, <1>3, <1>4 DEF RunningProgramInPlace
<1>. QED  BY <1>8, <1>9, <1>10 DEF Kept

\* RemoveAt of the community modules, in terms of the sequence before it.
LEMMA RemoveAtFacts ==
    ASSUME NEW S, NEW seq \in Seq(S), NEW k \in 1..Len(seq)
    PROVE  /\ RemoveAt(seq, k) \in Seq(S)
           /\ \A i \in DOMAIN RemoveAt(seq, k) : \E j \in DOMAIN seq : RemoveAt(seq, k)[i] = seq[j]
<1>. DEFINE T == {seq[j] : j \in DOMAIN seq}
            a == SubSeq(seq, 1, k - 1)
            b == SubSeq(seq, k + 1, Len(seq))
<1>1. DOMAIN seq = 1..Len(seq) /\ Len(seq) \in Nat /\ T \subseteq S
  BY LenProperties, ElementOfSeq
<1>2. k - 1 \in Int /\ k + 1 \in Int /\ 1 \in Int /\ Len(seq) \in Int
  BY <1>1
<1>3. /\ \A i \in 1..(k - 1) : seq[i] \in T
      /\ \A i \in (k + 1)..Len(seq) : seq[i] \in T
  BY <1>1
<1>. HIDE DEF T
<1>4. a \in Seq(T)
  BY <1>2, <1>3, SubSeqProperties
<1>5. b \in Seq(T)
  BY <1>2, <1>3, SubSeqProperties
<1>6. RemoveAt(seq, k) = a \o b
  BY DEF RemoveAt
<1>. HIDE DEF a, b
<1>7. RemoveAt(seq, k) \in Seq(T)
  BY <1>4, <1>5, <1>6, ConcatProperties
<1>8. \A i \in DOMAIN RemoveAt(seq, k) : RemoveAt(seq, k)[i] \in T
  BY <1>7, LenProperties, ElementOfSeq
<1>9. RemoveAt(seq, k) \in Seq(S)
  BY <1>1, <1>7, SeqMonotonic
<1>. QED  BY <1>8, <1>9 DEF T

\* What a handler does to the sequence of its items.
LEMMA AppendIds ==
    ASSUME NEW S, NEW seq \in Seq(S), NEW e \in S
    PROVE  Append(seq, e) \in Seq(S) /\ Comparable(seq, Append(seq, e))
<1>1. /\ Append(seq, e) \in Seq(S) /\ Len(Append(seq, e)) = Len(seq) + 1
      /\ \A i \in 1..Len(seq) : Append(seq, e)[i] = seq[i]
  BY AppendProperties
<1>2. /\ DOMAIN seq = 1..Len(seq) /\ Len(seq) \in Nat
      /\ DOMAIN Append(seq, e) = 1..(Len(seq) + 1)
  BY <1>1, LenProperties
<1>3. IdsOf(seq) \subseteq IdsOf(Append(seq, e))
  <2>. SUFFICES ASSUME NEW i \in DOMAIN seq PROVE seq[i].id \in IdsOf(Append(seq, e))
    BY DEF IdsOf
  <2>1. i \in DOMAIN Append(seq, e) /\ Append(seq, e)[i] = seq[i]
    BY <1>1, <1>2
  <2>. QED  BY <2>1 DEF IdsOf
<1>. QED  BY <1>1, <1>3 DEF Comparable

\* An item is edited in place.
LEMMA ExceptIds ==
    ASSUME NEW S, NEW seq \in Seq(S), NEW k \in DOMAIN seq, NEW e \in S, e.id = seq[k].id
    PROVE  [seq EXCEPT ![k] = e] \in Seq(S) /\ Comparable(seq, [seq EXCEPT ![k] = e])
<1>. DEFINE new == [seq EXCEPT ![k] = e]
<1>1. DOMAIN seq = 1..Len(seq)
  BY LenProperties
<1>2. new \in Seq(S)
  BY <1>1, ExceptSeq
<1>3. DOMAIN new = DOMAIN seq /\ \A i \in DOMAIN seq : new[i] = IF i = k THEN e ELSE seq[i]
  OBVIOUS
<1>. HIDE DEF new
<1>4. \A i \in DOMAIN seq : new[i].id = seq[i].id
  BY <1>3
<1>5. IdsOf(seq) \subseteq IdsOf(new)
  BY <1>3, <1>4 DEF IdsOf
<1>. QED  BY <1>2, <1>5 DEF Comparable, new

\* An item is removed.
LEMMA RemoveIds ==
    ASSUME NEW S, NEW seq \in Seq(S), NEW k \in DOMAIN seq
    PROVE  RemoveAt(seq, k) \in Seq(S) /\ Comparable(seq, RemoveAt(seq, k))
<1>1. k \in 1..Len(seq)
  BY LenProperties
<1>2. /\ RemoveAt(seq, k) \in Seq(S)
      /\ \A i \in DOMAIN RemoveAt(seq, k) : \E j \in DOMAIN seq : RemoveAt(seq, k)[i] = seq[j]
  BY <1>1, RemoveAtFacts
<1>3. IdsOf(RemoveAt(seq, k)) \subseteq IdsOf(seq)
  BY <1>2 DEF IdsOf
<1>. QED  BY <1>2, <1>3 DEF Comparable

\* Every change but the question for an active program replaces the configuration
\* by an edit of it.
LEMMA ChangeIsEdit ==
    ASSUME ManagerTypeOK, Change
    PROVE  \/ CheckNoProgramActive
           \/ \E candidate : Edit(candidate) /\ ReplaceCandidate(candidate)
<1>. DEFINE P == [id : ProgramIds, content : Contents]
            S == [id : ScheduleIds, program : ProgramIds, enabled : BOOLEAN, time : Times]
            programs == configuration.programs
            schedules == configuration.schedules
            Goal == \E candidate : Edit(candidate) /\ ReplaceCandidate(candidate)
<1>1. /\ configuration \in Configurations
      /\ programs \in Seq(P) /\ schedules \in Seq(S)
      /\ configuration.nextProgram \in 1..(MaxProgramId + 1)
      /\ configuration.nextSchedule \in 1..(MaxScheduleId + 1)
  BY DEF ManagerTypeOK, Configurations
<1>2. /\ \A i \in DOMAIN programs : programs[i] \in P
      /\ \A i \in DOMAIN schedules : schedules[i] \in S
  <2>. HIDE DEF P, S, programs, schedules
  <2>. QED  BY <1>1, LenProperties, ElementOfSeq
<1>3. \A items : Comparable(items, items)
  BY DEF Comparable
<1>4. ASSUME NEW new \in Seq(P), Comparable(programs, new), httpPc = "checked",
             NEW next \in 1..(MaxProgramId + 1), NEW candidate,
             candidate = [configuration EXCEPT !.programs = new, !.nextProgram = next]
      PROVE  Edit(candidate)
  <2>1. /\ candidate \in Configurations
        /\ candidate.programs = new /\ candidate.schedules = schedules
    BY <1>1, <1>4 DEF Configurations
  <2>. QED  BY <1>3, <1>4, <2>1 DEF Edit
<1>5. ASSUME NEW new \in Seq(S), Comparable(schedules, new),
             NEW next \in 1..(MaxScheduleId + 1), NEW candidate,
             candidate = [configuration EXCEPT !.schedules = new, !.nextSchedule = next]
      PROVE  Edit(candidate)
  <2>1. /\ candidate \in Configurations
        /\ candidate.schedules = new /\ candidate.programs = programs
    BY <1>1, <1>5 DEF Configurations
  <2>. QED  BY <1>3, <1>5, <2>1 DEF Edit
<1>6. ASSUME NEW content \in Contents, CreateProgram(content) PROVE Goal
  <2>. DEFINE item == Program(configuration.nextProgram, content)
              next == configuration.nextProgram + 1
              new == Append(programs, item)
              candidate == [configuration EXCEPT !.programs = new, !.nextProgram = next]
  <2>1. httpPc = "checked" /\ ReplaceCandidate(candidate)
    BY <1>1, <1>6 DEF CreateProgram, Configurations
  <2>2. item \in P /\ next \in 1..(MaxProgramId + 1)
    BY <1>1, <1>6, ManagerAssumption DEF CreateProgram, Program, ProgramIds
  <2>3. new \in Seq(P) /\ Comparable(programs, new)
    <3>. HIDE DEF P, programs, item
    <3>. QED  BY <1>1, <2>2, AppendIds
  <2>4. Edit(candidate)
    <3>. HIDE DEF P, programs, new, next
    <3>. QED  BY <1>4, <2>1, <2>2, <2>3
  <2>. QED  BY <2>1, <2>4
<1>7. ASSUME NEW content \in Contents, NEW i, UpdateProgram(i, content) PROVE Goal
  <2>. DEFINE item == [programs[i] EXCEPT !.content = content]
              new == [programs EXCEPT ![i] = item]
              candidate == [configuration EXCEPT !.programs = new,
                                                 !.nextProgram = configuration.nextProgram]
  <2>1. httpPc = "checked" /\ i \in DOMAIN programs
    BY <1>7 DEF UpdateProgram
  <2>2. candidate = [configuration EXCEPT !.programs[i].content = content]
    BY <1>1, <2>1 DEF Configurations
  <2>3. ReplaceCandidate(candidate)
    BY <1>7, <2>2 DEF UpdateProgram
  <2>4. item \in P /\ item.id = programs[i].id
    BY <1>2, <2>1
  <2>5. new \in Seq(P) /\ Comparable(programs, new)
    <3>. HIDE DEF P, programs, item
    <3>. QED  BY <1>1, <2>1, <2>4, ExceptIds
  <2>6. Edit(candidate)
    <3>. HIDE DEF P, programs, new
    <3>. QED  BY <1>1, <1>4, <2>1, <2>5
  <2>. QED  BY <2>3, <2>6
<1>8. ASSUME NEW i, DeleteProgram(i) PROVE Goal
  <2>. DEFINE new == RemoveAt(programs, i)
              candidate == [configuration EXCEPT !.programs = new,
                                                 !.nextProgram = configuration.nextProgram]
  <2>1. httpPc = "checked" /\ i \in DOMAIN programs
    BY <1>8 DEF DeleteProgram
  <2>2. candidate = [configuration EXCEPT !.programs = new]
    <3>. HIDE DEF new
    <3>. QED  BY <1>1 DEF Configurations
  <2>3. ReplaceCandidate(candidate)
    BY <1>8, <2>2 DEF DeleteProgram
  <2>4. new \in Seq(P) /\ Comparable(programs, new)
    <3>. HIDE DEF P, programs
    <3>. QED  BY <1>1, <2>1, RemoveIds
  <2>5. Edit(candidate)
    <3>. HIDE DEF P, programs, new
    <3>. QED  BY <1>1, <1>4, <2>1, <2>4
  <2>. QED  BY <2>3, <2>5
<1>9. ASSUME NEW program \in ConfiguredPrograms, NEW enabled \in BOOLEAN, NEW time \in Times,
             CreateSchedule(program, enabled, time)
      PROVE  Goal
  <2>. DEFINE item == Schedule(configuration.nextSchedule, program, enabled, time)
              next == configuration.nextSchedule + 1
              new == Append(schedules, item)
              candidate == [configuration EXCEPT !.schedules = new, !.nextSchedule = next]
  <2>1. ReplaceCandidate(candidate)
    BY <1>1, <1>9 DEF CreateSchedule, Configurations
  <2>2. program \in ProgramIds
    BY <1>2 DEF ConfiguredPrograms, ToSet
  <2>3. item \in S /\ next \in 1..(MaxScheduleId + 1)
    BY <1>1, <1>9, <2>2, ManagerAssumption DEF CreateSchedule, Schedule, ScheduleIds
  <2>4. new \in Seq(S) /\ Comparable(schedules, new)
    <3>. HIDE DEF S, schedules, item
    <3>. QED  BY <1>1, <2>3, AppendIds
  <2>5. Edit(candidate)
    <3>. HIDE DEF S, schedules, new, next
    <3>. QED  BY <1>5, <2>3, <2>4
  <2>. QED  BY <2>1, <2>5
<1>10. ASSUME NEW program \in ConfiguredPrograms, NEW time \in Times, NEW i,
              UpdateSchedule(i, program, time)
       PROVE  Goal
  <2>. DEFINE item == [schedules[i] EXCEPT !.program = program, !.time = time]
              new == [schedules EXCEPT ![i] = item]
              candidate == [configuration EXCEPT !.schedules = new,
                                                 !.nextSchedule = configuration.nextSchedule]
  <2>1. i \in DOMAIN schedules
    BY <1>10 DEF UpdateSchedule
  <2>2. candidate = [configuration EXCEPT
                        !.schedules[i].program = program, !.schedules[i].time = time]
    BY <1>1, <2>1 DEF Configurations
  <2>3. ReplaceCandidate(candidate)
    BY <1>10, <2>2 DEF UpdateSchedule
  <2>4. program \in ProgramIds
    BY <1>2 DEF ConfiguredPrograms, ToSet
  <2>5. item \in S /\ item.id = schedules[i].id
    BY <1>2, <2>1, <2>4
  <2>6. new \in Seq(S) /\ Comparable(schedules, new)
    <3>. HIDE DEF S, schedules, item
    <3>. QED  BY <1>1, <2>1, <2>5, ExceptIds
  <2>7. Edit(candidate)
    <3>. HIDE DEF S, schedules, new
    <3>. QED  BY <1>1, <1>5, <2>6
  <2>. QED  BY <2>3, <2>7
<1>11. ASSUME NEW i, SetScheduleEnabled(i) PROVE Goal
  <2>. DEFINE item == [schedules[i] EXCEPT !.enabled = ~@]
              new == [schedules EXCEPT ![i] = item]
              candidate == [configuration EXCEPT !.schedules = new,
                                                 !.nextSchedule = configuration.nextSchedule]
  <2>1. i \in DOMAIN schedules
    BY <1>11 DEF SetScheduleEnabled
  <2>2. candidate = [configuration EXCEPT !.schedules[i].enabled = ~@]
    BY <1>1, <2>1 DEF Configurations
  <2>3. ReplaceCandidate(candidate)
    BY <1>11, <2>2 DEF SetScheduleEnabled
  <2>4. item \in S /\ item.id = schedules[i].id
    BY <1>2, <2>1
  <2>5. new \in Seq(S) /\ Comparable(schedules, new)
    <3>. HIDE DEF S, schedules, item
    <3>. QED  BY <1>1, <2>1, <2>4, ExceptIds
  <2>6. Edit(candidate)
    <3>. HIDE DEF S, schedules, new
    <3>. QED  BY <1>1, <1>5, <2>5
  <2>. QED  BY <2>3, <2>6
<1>12. ASSUME NEW i, DeleteSchedule(i) PROVE Goal
  <2>. DEFINE new == RemoveAt(schedules, i)
              candidate == [configuration EXCEPT !.schedules = new,
                                                 !.nextSchedule = configuration.nextSchedule]
  <2>1. i \in DOMAIN schedules
    BY <1>12 DEF DeleteSchedule
  <2>2. candidate = [configuration EXCEPT !.schedules = new]
    <3>. HIDE DEF new
    <3>. QED  BY <1>1 DEF Configurations
  <2>3. ReplaceCandidate(candidate)
    BY <1>12, <2>2 DEF DeleteSchedule
  <2>4. new \in Seq(S) /\ Comparable(schedules, new)
    <3>. HIDE DEF S, schedules
    <3>. QED  BY <1>1, <2>1, RemoveIds
  <2>5. Edit(candidate)
    <3>. HIDE DEF S, schedules, new
    <3>. QED  BY <1>1, <1>5, <2>4
  <2>. QED  BY <2>3, <2>5
<1>13. ASSUME RenameZone PROVE Goal
  <2>1. Edit(configuration)
    BY <1>1, <1>3 DEF Edit
  <2>. QED  BY <1>13, <2>1 DEF RenameZone
<1>. HIDE DEF Goal
<1>. QED  BY <1>6, <1>7, <1>8, <1>9, <1>10, <1>11, <1>12, <1>13 DEF Change, Goal

-----------------------------------------------------------------------------

StoredConfigurations == [is : {"nothing", "unusable", "valid"}, configuration : Configurations]

\* The defaults and the tables of a zeroed manager.
LEMMA DefaultFacts ==
    /\ Default \in Configurations /\ Valid(Default)
    /\ Len(Default.programs) = 1 /\ Len(Default.schedules) = 1
    /\ IdsOf(Default.programs) = {0} /\ IdsOf(Default.schedules) = {0}
    /\ NoViews \in Views /\ GoodViews(NoViews, Default)
    /\ UsedIds(NoViews.programs) = {} /\ UsedIds(NoViews.schedules) = {}
<1>. DEFINE p == Program(0, DefaultContent)
            s == Schedule(0, 0, FALSE, DefaultTime)
<1>1. DefaultContent \in Contents /\ DefaultTime \in Times
  BY ManagerAssumption DEF DefaultContent, DefaultTime
<1>2. 0 \in ProgramIds /\ 0 \in ScheduleIds
  BY ManagerAssumption DEF ProgramIds, ScheduleIds
<1>3. /\ p \in [id : ProgramIds, content : Contents] /\ p.id = 0
      /\ s \in [id : ScheduleIds, program : ProgramIds, enabled : BOOLEAN, time : Times]
      /\ s.id = 0 /\ s.program = 0
  BY <1>1, <1>2 DEF Program, Schedule
<1>4. Default = [programs |-> <<p>>, schedules |-> <<s>>, nextProgram |-> 1, nextSchedule |-> 1]
  BY DEF Default
<1>. HIDE DEF p, s
<1>5. Default.programs = <<p>> /\ Default.schedules = <<s>>
  BY <1>4
<1>6. Len(<<p>>) = 1 /\ DOMAIN <<p>> = {1} /\ <<p>>[1] = p
  OBVIOUS
<1>7. Len(<<s>>) = 1 /\ DOMAIN <<s>> = {1} /\ <<s>>[1] = s
  OBVIOUS
<1>8. /\ <<p>> \in Seq([id : ProgramIds, content : Contents])
      /\ <<s>> \in Seq([id : ScheduleIds, program : ProgramIds, enabled : BOOLEAN, time : Times])
  BY <1>3
<1>9. 1 \in 1..(MaxProgramId + 1) /\ 1 \in 1..(MaxScheduleId + 1)
  BY ManagerAssumption
<1>10. Default \in Configurations
  BY <1>4, <1>8, <1>9 DEF Configurations
<1>11. Valid(Default)
  <2>1. HasDistinctIds(<<p>>) /\ HasDistinctIds(<<s>>)
    BY <1>6, <1>7 DEF HasDistinctIds
  <2>2. 1 <= MaxPrograms /\ 1 <= MaxSchedules
    BY ManagerAssumption
  <2>3. ToSet(<<p>>) = {p} /\ ToSet(<<s>>) = {s}
    BY <1>6, <1>7 DEF ToSet
  <2>. QED  BY <1>3, <1>5, <1>6, <1>7, <2>1, <2>2, <2>3 DEF Valid
<1>12. IdsOf(<<p>>) = {0} /\ IdsOf(<<s>>) = {0}
  BY <1>3, <1>6, <1>7 DEF IdsOf
<1>13. NoViews \in Views
  BY <1>1, <1>2 DEF NoViews, Views, Entries
<1>14. /\ IsTable(NoViews.programs, MaxPrograms) /\ IsTable(NoViews.schedules, MaxSchedules)
       /\ UsedIds(NoViews.programs) = {} /\ UsedIds(NoViews.schedules) = {}
  BY ManagerAssumption DEF NoViews, IsTable, UsedIds, ProgramSlots, ScheduleSlots
<1>15. GoodViews(NoViews, Default)
  BY <1>13, <1>14 DEF GoodViews, ProgramsSettled, SchedulesSettled
<1>. QED  BY <1>5, <1>6, <1>7, <1>10, <1>11, <1>12, <1>13, <1>14, <1>15

\* A table that holds the default at most is no obstacle if there is a slot for it.
LEMMA DefaultFits ==
    ASSUME NEW table, NEW n, IsTable(table, n), UsedIds(table) \subseteq {0},
           NEW items, IsItems(items), Len(items) <= n,
           Len(items) < n \/ 0 \in IdsOf(items), NEW i \in DOMAIN items
    PROVE  SlotFor(table, items, i) # NoSlot
<1>. DEFINE D == Dropped(table, items)
<1>1. \A s \in D : s \in 1..n /\ table[s].used /\ table[s].id = 0 /\ 0 \notin IdsOf(items)
  BY DEF Dropped, UsedIds, IsTable
<1>2. CASE D = {}
  <2>1. Cardinality(D) = 0
    BY <1>2, FS_EmptySet
  <2>. QED  BY <2>1, RoomSuffices DEF IsItems
<1>3. CASE D # {}
  <2>1. PICK s \in D : TRUE
    BY <1>3
  <2>2. D = {s}
    BY <1>1, <2>1 DEF IsTable
  <2>3. Cardinality(D) = 1
    BY <2>2, FS_Singleton
  <2>4. Len(items) < n /\ Len(items) \in Nat /\ n \in Nat
    BY <1>1, <2>1 DEF IsItems, IsTable
  <2>. QED  BY <2>3, <2>4, RoomSuffices
<1>. QED  BY <1>2, <1>3

\* The views of the defaults, and those of a configuration built on top of them.
LEMMA BootViews ==
    ASSUME NEW c \in Configurations, Valid(c),
           NEW w, w = Rebuild(DefaultViews, c, TRUE), NEW n, n = Len(c.schedules)
    PROVE  /\ GoodViews(DefaultViews, Default) /\ Accepts(DefaultViews, 1)
           /\ InForceWith(DefaultViews, EntriesOf(DefaultViews, 1), Default)
           /\ GoodViews(w, c)
           /\ HasRoom(c) => Accepts(w, n) /\ InForceWith(w, EntriesOf(w, n), c)
<1>. DEFINE d == DefaultViews
<1>1. GoodViews(d, Default)
  BY DefaultFacts, RebuildGood DEF GoodViews, DefaultViews
<1>2. Accepts(d, 1) /\ InForceWith(d, EntriesOf(d, 1), Default)
  <2>1. /\ IsTable(NoViews.programs, MaxPrograms) /\ IsTable(NoViews.schedules, MaxSchedules)
        /\ IsItems(Default.programs) /\ IsItems(Default.schedules)
        /\ 1 <= MaxPrograms /\ 1 <= MaxSchedules
    BY DefaultFacts, ConfigurationFacts, ManagerAssumption DEF GoodViews
  <2>2. \A i \in DOMAIN Default.programs :
           SlotFor(NoViews.programs, Default.programs, i) # NoSlot
    BY <2>1, DefaultFacts, DefaultFits
  <2>3. \A i \in DOMAIN Default.schedules :
           SlotFor(NoViews.schedules, Default.schedules, i) # NoSlot
    BY <2>1, DefaultFacts, DefaultFits
  <2>. QED  BY <2>1, <2>2, <2>3, DefaultFacts, RebuildShows DEF DefaultViews
<1>. HIDE DEF d
<1>3. GoodViews(w, c)
  BY <1>1, RebuildGood DEF GoodViews, d
<1>4. ASSUME HasRoom(c) PROVE Accepts(w, n) /\ InForceWith(w, EntriesOf(w, n), c)
  <2>1. 1 \in 0..MaxSchedules
    BY ManagerAssumption
  <2>2. d \in Views /\ IsTable(d.programs, MaxPrograms) /\ IsTable(d.schedules, MaxSchedules)
    BY <1>1 DEF GoodViews
  <2>3. EntriesOf(d, 1) \in Seq(Entries)
    BY <2>1, <2>2, EntriesOfFacts
  <2>4. Holds(d.programs, Default.programs) /\ Holds(d.schedules, Default.schedules)
    BY <1>1, <1>2, <2>3, DefaultFacts, InForceHolds
  <2>5. UsedIds(d.programs) \subseteq {0} /\ UsedIds(d.schedules) \subseteq {0}
    BY <2>4, DefaultFacts DEF Holds
  <2>6. /\ IsItems(c.programs) /\ IsItems(c.schedules)
        /\ Len(c.programs) <= MaxPrograms /\ Len(c.schedules) <= MaxSchedules
    BY ConfigurationFacts DEF Valid
  <2>7. /\ Len(c.programs) < MaxPrograms \/ 0 \in IdsOf(c.programs)
        /\ Len(c.schedules) < MaxSchedules \/ 0 \in IdsOf(c.schedules)
    BY <1>4 DEF HasRoom, ToSet, IdsOf
  <2>8. \A i \in DOMAIN c.programs : SlotFor(d.programs, c.programs, i) # NoSlot
    BY <2>2, <2>5, <2>6, <2>7, DefaultFits
  <2>9. \A i \in DOMAIN c.schedules : SlotFor(d.schedules, c.schedules, i) # NoSlot
    BY <2>2, <2>5, <2>6, <2>7, DefaultFits
  <2>. QED  BY <2>2, <2>8, <2>9, RebuildShows DEF d
<1>. QED  BY <1>1, <1>2, <1>3, <1>4 DEF d

\* One boot, whatever it loads.
LEMMA BootWithKeeps ==
    ASSUME ManagerInv, NEW c \in Configurations, Valid(c), NEW v, GoodViews(v, c),
           NEW hasRepository \in BOOLEAN, BootWith(c, v, hasRepository),
           saved' \in StoredConfigurations, Valid(saved'.configuration),
           NEW n, n = Len(c.schedules),
           HasRoom(c) => Accepts(v, n) /\ InForceWith(v, EntriesOf(v, n), c)
    PROVE  Kept /\ (HasRoom(configuration') => phase' = "running" /\ InForce')
<1>1. /\ phase = "boot" /\ configuration' = c /\ views' = v /\ repository' = hasRepository
      /\ schedulerEntries' = IF Accepts(v, n) THEN EntriesOf(v, n) ELSE schedulerEntries
      /\ phase' = IF Accepts(v, n) THEN "running" ELSE "halted"
      /\ httpPc' = httpPc /\ running' = running /\ runningId' = runningId
  BY DEF BootWith, Configured
<1>2. ManagerTypeOK /\ running = NoSlot /\ httpPc = "idle"
  BY <1>1 DEF ManagerInv
<1>3. v \in Views /\ EntriesOf(v, n) \in Seq(Entries)
  BY ConfigurationFacts, EntriesOfFacts DEF GoodViews
<1>4. ManagerTypeOK'
  <2>1. /\ configuration' \in Configurations /\ views' \in Views /\ repository' \in BOOLEAN
        /\ phase' \in {"boot", "running", "halted"}
    BY <1>1, <1>3
  <2>2. schedulerEntries' \in Seq(Entries)
    BY <1>1, <1>2, <1>3 DEF ManagerTypeOK
  <2>. QED  BY <1>1, <1>2, <2>1, <2>2 DEF ManagerTypeOK, StoredConfigurations
<1>5. ManagerInv'
  <2>1. Valid(configuration)' /\ Valid(saved.configuration)' /\ GoodViews(views, configuration)'
    BY <1>1 DEF Valid
  <2>2. running' = NoSlot /\ httpPc' = "idle"
    BY <1>1, <1>2
  <2>. QED  BY <1>4, <2>1, <2>2 DEF ManagerInv
<1>6. HasRoom(configuration') => phase' = "running" /\ InForce'
  BY <1>1 DEF InForce
<1>. QED  BY <1>1, <1>2, <1>5, <1>6 DEF Kept, RunningProgramInPlace

\* initialize_configuration and configuration_manager_configure_scheduler.
LEMMA BootKeeps ==
    ASSUME ManagerInv, Boot
    PROVE  Kept /\ (HasRoom(configuration') => phase' = "running" /\ InForce')
<1>1. /\ saved \in StoredConfigurations /\ Valid(saved.configuration)
      /\ saved.configuration \in Configurations
  BY DEF ManagerInv, ManagerTypeOK, StoredConfigurations
<1>2. /\ Nothing \in StoredConfigurations /\ Nothing.configuration = Default
      /\ Unusable \in StoredConfigurations /\ Unusable.configuration = Default
      /\ Stored(Default) \in StoredConfigurations /\ Stored(Default).configuration = Default
  BY DefaultFacts DEF Nothing, Unusable, Stored, StoredConfigurations
<1>3. CASE BootLoaded
  <2>. DEFINE c == saved.configuration
              v == Rebuild(DefaultViews, c, TRUE)
  <2>1. /\ GoodViews(v, c)
        /\ HasRoom(c) => /\ Accepts(v, Len(c.schedules))
                         /\ InForceWith(v, EntriesOf(v, Len(c.schedules)), c)
    BY <1>1, BootViews
  <2>2. /\ BootWith(c, v, TRUE)
        /\ saved' \in StoredConfigurations /\ Valid(saved'.configuration)
    BY <1>1, <1>3 DEF BootLoaded
  <2>3. c \in Configurations /\ Valid(c)
    BY <1>1
  <2>. HIDE DEF c, v
  <2>. QED  BY <2>1, <2>2, <2>3, BootWithKeeps
<1>4. CASE BootDefaultsPersisted \/ BootDefaultsUnusable \/ BootStorageError
  <2>1. PICK b \in BOOLEAN : BootWith(Default, DefaultViews, b)
    BY <1>4 DEF BootDefaultsPersisted, BootDefaultsUnusable, BootStorageError
  <2>2. saved' \in {saved, Nothing, Unusable, Stored(Default)}
    BY <1>4 DEF BootDefaultsPersisted, BootDefaultsUnusable, BootStorageError
  <2>3. saved' \in StoredConfigurations /\ Valid(saved'.configuration)
    BY <1>1, <1>2, <2>2, DefaultFacts
  <2>4. /\ GoodViews(DefaultViews, Default)
        /\ Accepts(DefaultViews, Len(Default.schedules))
        /\ InForceWith(DefaultViews, EntriesOf(DefaultViews, Len(Default.schedules)), Default)
    BY DefaultFacts, BootViews
  <2>. QED  BY <2>1, <2>3, <2>4, DefaultFacts, BootWithKeeps
<1>. QED  BY <1>3, <1>4 DEF Boot

\* A start through an entry or by hand, also between the check of a handler for an
\* active program and its change: the slot it finds is a used one.
LEMMA StartKeeps ==
    ASSUME ManagerInv, StartScheduled \/ StartByHand PROVE Kept
<1>1. PICK slot : StartProgram(slot)
  BY DEF StartScheduled, StartByHand
<1>2. /\ phase = "running" /\ running = NoSlot /\ slot # NoSlot
      /\ running' = slot /\ runningId' = views.programs[slot].id
      /\ UNCHANGED <<configuration, views, schedulerEntries, repository, saved, phase, httpPc>>
  BY <1>1 DEF StartProgram
<1>3. /\ ManagerTypeOK /\ Valid(configuration) /\ configuration \in Configurations
      /\ GoodViews(views, configuration) /\ IsTable(views.programs, MaxPrograms)
      /\ views \in Views
  BY DEF ManagerInv, ManagerTypeOK, GoodViews
<1>4. slot \in ProgramSlots
  <2>1. CASE StartScheduled
    <3>1. PICK entry \in ToSet(schedulerEntries) : StartProgram(entry.program)
      BY <2>1 DEF StartScheduled
    <3>2. entry \in Entries
      <4>1. schedulerEntries \in Seq(Entries)
        BY <1>3 DEF ManagerTypeOK
      <4>. QED  BY <4>1, LenProperties, ElementOfSeq DEF ToSet
    <3>3. slot = entry.program
      BY <1>2, <3>1 DEF StartProgram
    <3>. QED  BY <1>2, <3>2, <3>3 DEF Entries
  <2>2. CASE StartByHand
    <3>1. PICK id : StartProgram(SlotOf(views.programs, id))
      BY <2>2 DEF StartByHand
    <3>2. slot = SlotOf(views.programs, id)
      BY <1>2, <3>1 DEF StartProgram
    <3>. QED  BY <1>2, <1>3, <3>2, SlotOfFacts DEF ProgramSlots
  <2>. QED  BY <2>1, <2>2
<1>5. ASSUME InForce
      PROVE  /\ views.programs[slot].used
             /\ httpPc = "checked" => IsReferenced(views.programs[slot].id)
  <2>1. CASE StartScheduled
    <3>1. PICK i \in DOMAIN schedulerEntries : StartProgram(schedulerEntries[i].program)
      BY <2>1 DEF StartScheduled, ToSet
    <3>. DEFINE schedule == configuration.schedules[i]
    <3>2. slot = SlotOf(views.programs, schedule.program)
      BY <1>2, <1>5, <3>1 DEF StartProgram, InForce, InForceWith, Shows
    <3>3. views.programs[slot].used /\ views.programs[slot].id = schedule.program
      BY <1>2, <1>3, <3>2, SlotOfFacts
    <3>4. i \in DOMAIN configuration.schedules
      <4>1. /\ schedulerEntries \in Seq(Entries)
            /\ Len(schedulerEntries) = Len(configuration.schedules)
        BY <1>3, <1>5 DEF ManagerTypeOK, InForce, InForceWith
      <4>2. DOMAIN schedulerEntries = 1..Len(schedulerEntries)
        BY <4>1, LenProperties
      <4>3. DOMAIN configuration.schedules = 1..Len(configuration.schedules)
        BY <1>3, ConfigurationFacts DEF IsItems
      <4>. QED  BY <4>1, <4>2, <4>3
    <3>. QED  BY <3>3, <3>4 DEF IsReferenced, ToSet
  <2>2. CASE StartByHand
    <3>1. PICK id : httpPc = "idle" /\ StartProgram(SlotOf(views.programs, id))
      BY <2>2 DEF StartByHand
    <3>2. slot = SlotOf(views.programs, id)
      BY <1>2, <3>1 DEF StartProgram
    <3>. QED  BY <1>2, <1>3, <3>1, <3>2, SlotOfFacts
  <2>. QED  BY <2>1, <2>2
<1>6. views.programs[slot].id \in ProgramIds
  BY <1>3, <1>4, ViewsFacts DEF ProgramSlots
<1>7. InForce' <=> InForce
  BY <1>2 DEF InForce
<1>8. ManagerTypeOK'
  BY <1>2, <1>3, <1>4, <1>6 DEF ManagerTypeOK
<1>9. (httpPc = "checked" /\ running # NoSlot /\ InForce => IsReferenced(runningId))'
  BY <1>2, <1>5, <1>7 DEF IsReferenced
<1>10. ManagerInv'
  <2>1. Valid(configuration)' /\ Valid(saved.configuration)' /\ GoodViews(views, configuration)'
    BY <1>2 DEF ManagerInv, Valid
  <2>2. phase' # "boot"
    BY <1>2
  <2>. QED  BY <1>8, <1>9, <2>1, <2>2 DEF ManagerInv
<1>11. InForce => RunningProgramInPlace'
  BY <1>2, <1>5 DEF RunningProgramInPlace
<1>. QED  BY <1>7, <1>10, <1>11 DEF Kept

\* Every step keeps the invariant and what the action properties ask of it.
LEMMA StepKeeps ==
    ASSUME ManagerInv, [Next]_vars
    PROVE  Kept /\ (Boot /\ HasRoom(configuration') => phase' = "running" /\ InForce')
<1>1. ASSUME Change PROVE Kept /\ ~Boot
  <2>1. phase = "running"
    BY <1>1, ChangeIsEdit DEF ManagerInv, CheckNoProgramActive, ReplaceCandidate
  <2>2. ~Boot
    BY <2>1 DEF Boot, BootWith, BootLoaded, BootDefaultsPersisted, BootDefaultsUnusable,
                BootStorageError
  <2>3. CASE CheckNoProgramActive
    <3>1. /\ running = NoSlot /\ httpPc' = "checked" /\ phase = "running"
          /\ UNCHANGED <<configuration, views, schedulerEntries, repository, saved, phase,
                         running, runningId>>
      BY <2>3 DEF CheckNoProgramActive
    <3>2. ManagerTypeOK'
      BY <3>1 DEF ManagerInv, ManagerTypeOK
    <3>3. Valid(configuration)' /\ Valid(saved.configuration)' /\ GoodViews(views, configuration)'
      BY <3>1 DEF ManagerInv, Valid
    <3>4. ManagerInv'
      BY <3>1, <3>2, <3>3 DEF ManagerInv
    <3>5. InForce' <=> InForce
      BY <3>1 DEF InForce
    <3>. QED  BY <2>2, <3>1, <3>4, <3>5 DEF Kept, RunningProgramInPlace
  <2>4. CASE \E candidate : Edit(candidate) /\ ReplaceCandidate(candidate)
    BY <2>2, <2>4, ReplaceKeeps DEF ManagerInv
  <2>5. Kept
    BY <1>1, <2>3, <2>4, ChangeIsEdit DEF ManagerInv
  <2>. QED  BY <2>2, <2>5
<1>2. ASSUME StartScheduled \/ StartByHand PROVE Kept /\ ~Boot
  <2>1. phase = "running"
    BY <1>2 DEF StartScheduled, StartByHand, StartProgram
  <2>2. ~Boot
    BY <2>1 DEF Boot, BootWith, BootLoaded, BootDefaultsPersisted, BootDefaultsUnusable,
                BootStorageError
  <2>. QED  BY <1>2, <2>2, StartKeeps
<1>3. ASSUME ProgramEnds PROVE Kept /\ ~Boot
  <2>1. /\ running # NoSlot /\ running' = NoSlot /\ runningId' = 0
        /\ UNCHANGED <<configuration, views, schedulerEntries, repository, saved, phase, httpPc>>
    BY <1>3 DEF ProgramEnds
  <2>2. ~Boot
    BY <2>1 DEF ManagerInv, Boot, BootWith, BootLoaded, BootDefaultsPersisted,
                BootDefaultsUnusable, BootStorageError
  <2>3. ManagerTypeOK'
    BY <2>1, ManagerAssumption DEF ManagerInv, ManagerTypeOK, ProgramIds
  <2>4. Valid(configuration)' /\ Valid(saved.configuration)' /\ GoodViews(views, configuration)'
    BY <2>1 DEF ManagerInv, Valid
  <2>5. phase' # "boot"
    BY <2>1 DEF ManagerInv
  <2>6. ManagerInv'
    BY <2>1, <2>3, <2>4, <2>5 DEF ManagerInv
  <2>7. InForce' <=> InForce
    BY <2>1 DEF InForce
  <2>. QED  BY <2>1, <2>2, <2>6, <2>7 DEF Kept, RunningProgramInPlace
<1>4. ASSUME Reset PROVE Kept /\ ~Boot
  <2>1. /\ phase # "boot" /\ phase' = "boot"
        /\ configuration' = Default /\ views' = NoViews /\ schedulerEntries' = <<>>
        /\ repository' = FALSE /\ httpPc' = "idle" /\ running' = NoSlot /\ runningId' = 0
        /\ saved' = saved
    BY <1>4 DEF Reset
  <2>2. ~Boot
    BY <2>1 DEF Boot, BootWith, BootLoaded, BootDefaultsPersisted, BootDefaultsUnusable,
                BootStorageError
  <2>3. ManagerTypeOK'
    <3>1. <<>> \in Seq(Entries) /\ 0 \in ProgramIds
      BY ManagerAssumption DEF ProgramIds
    <3>2. saved' = saved /\ ManagerTypeOK
      BY <2>1 DEF ManagerInv
    <3>. QED  BY <2>1, <3>1, <3>2, DefaultFacts DEF ManagerTypeOK
  <2>4. Valid(configuration)' /\ Valid(saved.configuration)' /\ GoodViews(views, configuration)'
    BY <2>1, DefaultFacts DEF ManagerInv, Valid
  <2>5. ManagerInv'
    BY <2>1, <2>3, <2>4 DEF ManagerInv
  <2>. QED  BY <2>1, <2>2, <2>5 DEF Kept, RunningProgramInPlace
<1>5. ASSUME UNCHANGED vars PROVE Kept /\ ~Boot
  <2>1. /\ configuration' = configuration /\ views' = views
        /\ schedulerEntries' = schedulerEntries /\ repository' = repository
        /\ saved' = saved /\ phase' = phase /\ httpPc' = httpPc
        /\ running' = running /\ runningId' = runningId
    BY <1>5 DEF vars
  <2>2. ManagerTypeOK'
    BY <2>1 DEF ManagerInv, ManagerTypeOK
  <2>3. Valid(configuration)' /\ Valid(saved.configuration)' /\ GoodViews(views, configuration)'
    BY <2>1 DEF ManagerInv, Valid
  <2>4. InForce' <=> InForce
    BY <2>1 DEF InForce
  <2>5. (httpPc = "checked" /\ running # NoSlot /\ InForce => IsReferenced(runningId))'
    BY <2>1, <2>4 DEF ManagerInv, IsReferenced
  <2>6. ManagerInv'
    BY <2>1, <2>2, <2>3, <2>5 DEF ManagerInv
  <2>7. ~Boot
    BY <2>1 DEF Boot, BootWith, BootLoaded, BootDefaultsPersisted, BootDefaultsUnusable,
                BootStorageError
  <2>. QED  BY <2>1, <2>4, <2>6, <2>7 DEF Kept, RunningProgramInPlace
<1>. QED  BY <1>1, <1>2, <1>3, <1>4, <1>5, BootKeeps DEF Next

\* Power-up.
LEMMA InitInv == Init => ManagerInv
<1>. SUFFICES ASSUME Init PROVE ManagerInv
  OBVIOUS
<1>1. /\ saved = Nothing /\ Nothing \in StoredConfigurations /\ saved.configuration = Default
  BY DefaultFacts DEF Init, Nothing, StoredConfigurations
<1>2. ManagerTypeOK
  <2>1. <<>> \in Seq(Entries) /\ 0 \in ProgramIds
    BY ManagerAssumption DEF ProgramIds
  <2>. QED  BY <1>1, <2>1, DefaultFacts DEF Init, ManagerTypeOK, StoredConfigurations
<1>. QED  BY <1>1, <1>2, DefaultFacts DEF Init, ManagerInv

\* The inductive invariant.
LEMMA ManagerInvariant == Spec => []ManagerInv
<1>1. ManagerInv /\ [Next]_vars => ManagerInv'
  BY StepKeeps DEF Kept
<1>. QED  BY <1>1, InitInv, PTL DEF Spec

\* Type correctness: what is saved and in force is a configuration, and the tables and
\* entries of the manager are what their loops make of it.
THEOREM ManagerTypeCorrect == Spec => []ManagerTypeOK
<1>1. ManagerInv => ManagerTypeOK
  BY DEF ManagerInv
<1>. QED  BY <1>1, ManagerInvariant, PTL

\* For tables of any size and any sequence of changes, each saved or taken back: what
\* can be run stays what is configured.
THEOREM ChangesKeepInForce == Spec => ChangesStayInForce
<1>1. ManagerInv /\ [Next]_vars
         => [phase = "running" /\ phase' = "running" /\ InForce => InForce']_vars
  BY StepKeeps DEF Kept
<1>. QED  BY <1>1, ManagerInvariant, PTL DEF Spec, ChangesStayInForce

\* The pointer of a running program stays good through every change that is made while
\* it runs, for tables of any size, as long as the configuration is in force.
THEOREM RunningProgramKeepsItsSlot == Spec => RunningProgramStaysInPlace
<1>1. ManagerInv /\ [Next]_vars => [InForce /\ RunningProgramInPlace => RunningProgramInPlace']_vars
  BY StepKeeps DEF Kept
<1>. QED  BY <1>1, ManagerInvariant, PTL DEF Spec, RunningProgramStaysInPlace

\* A boot with a slot to spare for the defaults is a boot into what was saved.
THEOREM BootPutsInForce == Spec => BootWithRoomSucceeds
<1>1. ManagerInv /\ [Next]_vars
         => [Boot /\ HasRoom(configuration') => phase' = "running" /\ InForce']_vars
  BY StepKeeps
<1>. QED  BY <1>1, ManagerInvariant, PTL DEF Spec, BootWithRoomSucceeds

\* What a boot finds and loads.
LEMMA BootNeeds ==
    ASSUME ManagerInv, Boot PROVE phase = "boot" /\ configuration' \in {saved.configuration, Default}
BY DEF Boot, BootWith, BootLoaded, BootDefaultsPersisted, BootDefaultsUnusable, BootStorageError

\* The defaults leave room for themselves.
LEMMA DefaultHasRoom == HasRoom(Default)
<1>1. 0 \in IdsOf(Default.programs) /\ 0 \in IdsOf(Default.schedules)
  BY DefaultFacts
<1>. QED  BY <1>1 DEF HasRoom, IdsOf, ToSet

\* The converse of the run boot_drops_views: if every boot finds in flash a configuration
\* that leaves a slot for the defaults, what was accepted and saved is in force after it.
THEOREM LoadedWithRoomIsInForce ==
    Spec /\ [](phase = "boot" => HasRoom(saved.configuration)) => []LoadedConfigurationIsInForce
<1>. DEFINE Room == phase = "boot" => HasRoom(saved.configuration)
            Loaded == LoadedConfigurationIsInForce
<1>1. Init => Loaded
  BY DEF Init, LoadedConfigurationIsInForce
<1>2. ManagerInv /\ Room /\ Loaded /\ [Next]_vars => Loaded'
  <2>. SUFFICES ASSUME ManagerInv, Room, Loaded, [Next]_vars, phase' # "boot"
                PROVE  phase' = "running" /\ InForce'
    BY DEF LoadedConfigurationIsInForce
  <2>1. /\ phase = "running" /\ phase' = "running" /\ InForce => InForce'
        /\ Boot /\ HasRoom(configuration') => phase' = "running" /\ InForce'
    BY StepKeeps DEF Kept
  <2>2. CASE Boot
    <3>1. HasRoom(configuration')
      BY <2>2, BootNeeds, DefaultHasRoom
    <3>. QED  BY <2>1, <2>2, <3>1
  <2>3. CASE ~Boot
    <3>1. phase' = phase
      <4>1. ASSUME Change PROVE phase' = phase
        BY <4>1, ChangeIsEdit DEF ManagerInv, CheckNoProgramActive, ReplaceCandidate
      <4>2. ASSUME StartScheduled \/ StartByHand PROVE phase' = phase
        BY <4>2 DEF StartScheduled, StartByHand, StartProgram
      <4>3. ASSUME ProgramEnds PROVE phase' = phase
        BY <4>3 DEF ProgramEnds
      <4>4. ~Reset
        BY DEF Reset
      <4>. QED  BY <2>3, <4>1, <4>2, <4>3, <4>4 DEF Next, vars
    <3>. QED  BY <2>1, <3>1 DEF LoadedConfigurationIsInForce
  <2>. QED  BY <2>2, <2>3
<1>. QED  BY <1>1, <1>2, ManagerInvariant, PTL DEF Spec

\* And wherever what is loaded is in force, a running program is read through a good
\* pointer in every state.
THEOREM LoadedInForceKeepsRunning ==
    Spec /\ []LoadedConfigurationIsInForce => []RunningProgramInPlace
<1>1. Init => RunningProgramInPlace
  BY DEF Init, RunningProgramInPlace
<1>2. ManagerInv /\ LoadedConfigurationIsInForce /\ RunningProgramInPlace /\ [Next]_vars
         => RunningProgramInPlace'
  <2>. SUFFICES ASSUME ManagerInv, LoadedConfigurationIsInForce, RunningProgramInPlace,
                       [Next]_vars
                PROVE  RunningProgramInPlace'
    OBVIOUS
  <2>1. CASE phase # "boot"
    BY <2>1, StepKeeps DEF Kept, LoadedConfigurationIsInForce
  <2>2. CASE phase = "boot"
    <3>1. running = NoSlot
      BY <2>2 DEF ManagerInv
    <3>2. CASE Boot
      <4>1. running' = running
        BY <3>2 DEF Boot, BootWith, BootLoaded, BootDefaultsPersisted, BootDefaultsUnusable,
                    BootStorageError
      <4>. QED  BY <3>1, <4>1 DEF RunningProgramInPlace
    <3>3. ~Change
      BY <2>2, ChangeIsEdit DEF ManagerInv, CheckNoProgramActive, ReplaceCandidate
    <3>4. ~StartScheduled /\ ~StartByHand /\ ~ProgramEnds /\ ~Reset
      BY <2>2, <3>1 DEF StartScheduled, StartByHand, StartProgram, ProgramEnds, Reset
    <3>5. CASE UNCHANGED vars
      <4>1. running' = running
        BY <3>5 DEF vars
      <4>. QED  BY <3>1, <4>1 DEF RunningProgramInPlace
    <3>. QED  BY <3>2, <3>3, <3>4, <3>5 DEF Next
  <2>. QED  BY <2>1, <2>2
<1>. QED  BY <1>1, <1>2, ManagerInvariant, PTL DEF Spec

=============================================================================
