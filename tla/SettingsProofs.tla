--------------------------- MODULE SettingsProofs ---------------------------
(***************************************************************************)
(* Proofs about Settings for any admins, cards, groups, keys, menus and    *)
(* handlers: the table fits its readers, strangers appoint nobody, a       *)
(* receipt that is reported as sent has been shown, and the menu is whole. *)
(* And about Menu, for lists of any length: normalisation neither loses    *)
(* nor repeats a button, moves keep the buttons and undo each other.       *)
(***************************************************************************)
EXTENDS Settings, FiniteSetTheorems, TLAPS

(* Moves of buttons swap two places.                                       *)
LEMMA TargetIsElsewhere ==
    ASSUME NEW i \in Nat \ {0}, NEW d \in Directions, Target(i, d) \in Nat \ {0}
    PROVE  /\ Target(i, d) # i
           /\ Target(Target(i, d), Opposite[d]) = i
<1> USE DEF Target, Opposite, Directions, Column, Columns
<1>1. CASE d = "left"
  BY <1>1
<1>2. CASE d = "right"
  BY <1>2
<1>3. CASE d = "up"
  BY <1>3
<1>4. CASE d = "down"
  BY <1>4
<1> QED BY <1>1, <1>2, <1>3, <1>4

(* For menus of any length: a move that is possible is undone by the       *)
(* opposite move of the button that was moved.                             *)
THEOREM MoveIsUndone ==
    ASSUME NEW B, NEW list \in Seq(B), NEW i \in 1..Len(list), NEW d \in Directions,
           Target(i, d) \in 1..Len(list)
    PROVE  LET j == Target(i, d)
               moved == Swapped(list, i, j)
           IN  /\ Target(j, Opposite[d]) = i
               /\ moved[j] = list[i]
               /\ Swapped(moved, j, i) = list
<1> DEFINE j == Target(i, d)
<1> DEFINE moved == Swapped(list, i, j)
<1>1. j # i /\ Target(j, Opposite[d]) = i
  BY TargetIsElsewhere
<1> HIDE DEF j
<1>2. j \in 1..Len(list)
  BY DEF j
<1>3. /\ DOMAIN moved = 1..Len(list)
      /\ moved[i] = list[j] /\ moved[j] = list[i]
      /\ \A k \in 1..Len(list) : k # i /\ k # j => moved[k] = list[k]
  BY <1>1, <1>2 DEF Swapped
<1>4. Swapped(moved, j, i) = [k \in 1..Len(list) |-> list[k]]
  BY <1>1, <1>2, <1>3 DEF Swapped
<1>5. list = [k \in 1..Len(list) |-> list[k]]
  OBVIOUS
<1> QED BY <1>1, <1>3, <1>4, <1>5 DEF j

(* A move neither loses nor repeats a button.                              *)
THEOREM MoveKeepsButtons ==
    ASSUME NEW B, NEW list \in Seq(B), NEW i \in 1..Len(list), NEW j \in 1..Len(list)
    PROVE  /\ Len(Swapped(list, i, j)) = Len(list)
           /\ \A k \in 1..Len(list) : \E n \in 1..Len(list) : Swapped(list, i, j)[n] = list[k]
<1>1. Swapped(list, i, j) \in Seq(B) /\ Len(Swapped(list, i, j)) = Len(list)
  BY DEF Swapped
<1>2. ASSUME NEW k \in 1..Len(list)
      PROVE  \E n \in 1..Len(list) : Swapped(list, i, j)[n] = list[k]
  <2>1. CASE k = i
    <3>1. Swapped(list, i, j)[j] = list[k]
      BY <2>1 DEF Swapped
    <3> QED BY <3>1
  <2>2. CASE k = j
    <3>1. Swapped(list, i, j)[i] = list[k]
      BY <2>2 DEF Swapped
    <3> QED BY <3>1
  <2>3. CASE k # i /\ k # j
    <3>1. Swapped(list, i, j)[k] = list[k]
      BY <2>3 DEF Swapped
    <3> QED BY <3>1
  <2> QED BY <2>1, <2>2, <2>3
<1> QED BY <1>1, <1>2

-----------------------------------------------------------------------------
(* Menus *)

(* A list of buttons that has no action twice and only the menu's own.     *)
Tidy(menu) ==
    /\ IsList(menu)
    /\ \A i \in 1..Len(menu) : menu[i].action \in Actions
    /\ \A i, j \in 1..Len(menu) : menu[i].action = menu[j].action => i = j
Whole(menu) == Tidy(menu) /\ \A a \in Actions : Has(menu, a)

LEMMA DefaultsAreWhole == Whole(DefaultButtons)
<1>1. Len(Default) \in Nat /\ DOMAIN Default = 1..Len(Default)
  BY MenuAssumption
<1>2. /\ DefaultButtons = [i \in 1..Len(Default) |-> DefaultButton(Default[i])]
      /\ \A i \in 1..Len(Default) : DefaultButtons[i].action = Default[i]
  BY <1>1 DEF DefaultButtons, DefaultButton
<1>3. DefaultButtons \in Seq({DefaultButtons[i] : i \in 1..Len(Default)})
  BY <1>1, <1>2
<1>4. Len(DefaultButtons) = Len(Default)
  BY <1>1, <1>2
<1>5. IsList(DefaultButtons)
  BY <1>3, <1>4 DEF IsList
<1>6. \A i \in 1..Len(Default) : Default[i] \in Actions
  BY DEF Actions
<1>7. \A a \in Actions : Has(DefaultButtons, a)
  BY <1>2, <1>4 DEF Has, Actions
<1>8. \A i, j \in 1..Len(Default) : Default[i] = Default[j] => i = j
  BY MenuAssumption
<1>9. Tidy(DefaultButtons)
  <2>1. \A i \in 1..Len(DefaultButtons) : DefaultButtons[i].action = Default[i]
    BY <1>2, <1>4
  <2>2. \A i \in 1..Len(DefaultButtons) : DefaultButtons[i].action \in Actions
    BY <1>4, <1>6, <2>1
  <2>3. \A i, j \in 1..Len(DefaultButtons) :
            DefaultButtons[i].action = DefaultButtons[j].action => i = j
    BY <1>4, <1>8, <2>1
  <2>. QED  BY <1>5, <2>2, <2>3 DEF Tidy
<1>. QED  BY <1>7, <1>9 DEF Whole

LEMMA ListsAreFunctions ==
    ASSUME NEW list, IsList(list)
    PROVE  Len(list) \in Nat /\ list = [i \in 1..Len(list) |-> list[i]]
BY DEF IsList

LEMMA SequencesAreLists ==
    ASSUME NEW V, NEW list \in Seq(V)
    PROVE  IsList(list)
<1>1. Len(list) \in Nat /\ list = [i \in 1..Len(list) |-> list[i]]
  OBVIOUS
<1>2. list \in Seq({list[i] : i \in 1..Len(list)})
  BY <1>1
<1>. QED  BY <1>2 DEF IsList

LEMMA FunctionsAreLists ==
    ASSUME NEW n \in Nat, NEW list, list = [i \in 1..n |-> list[i]]
    PROVE  IsList(list) /\ Len(list) = n
<1>1. list \in Seq({list[i] : i \in 1..n}) /\ Len(list) = n
  OBVIOUS
<1>. QED  BY <1>1 DEF IsList

LEMMA JoinedLists ==
    ASSUME NEW one, NEW two, IsList(one), IsList(two)
    PROVE  /\ IsList(one \o two) /\ Len(one \o two) = Len(one) + Len(two)
           /\ \A i \in 1..Len(one) : (one \o two)[i] = one[i]
           /\ \A i \in 1..Len(two) : (one \o two)[Len(one) + i] = two[i]
<1>1. PICK V : one \in Seq(V) /\ two \in Seq(V)
  <2>1. one \in Seq({one[i] : i \in 1..Len(one)} \cup {two[i] : i \in 1..Len(two)})
    BY DEF IsList
  <2>2. two \in Seq({one[i] : i \in 1..Len(one)} \cup {two[i] : i \in 1..Len(two)})
    BY DEF IsList
  <2>. QED  BY <2>1, <2>2
<1>2. /\ one \o two \in Seq(V) /\ Len(one \o two) = Len(one) + Len(two)
      /\ \A i \in 1..Len(one) : (one \o two)[i] = one[i]
      /\ \A i \in 1..Len(two) : (one \o two)[Len(one) + i] = two[i]
  BY <1>1
<1>3. IsList(one \o two)
  BY <1>2, SequencesAreLists
<1>. QED  BY <1>2, <1>3

(* One more button.                                                        *)
LEMMA LongerList ==
    ASSUME NEW list, IsList(list), NEW b
    PROVE  /\ IsList(Append(list, b)) /\ Len(Append(list, b)) = Len(list) + 1
           /\ Append(list, b)[Len(list) + 1] = b
           /\ \A i \in 1..Len(list) : Append(list, b)[i] = list[i]
<1>1. PICK V : list \in Seq(V) /\ b \in V
  <2>1. list \in Seq({list[i] : i \in 1..Len(list)} \cup {b})
    BY DEF IsList
  <2>. QED  BY <2>1
<1>2. /\ Append(list, b) \in Seq(V) /\ Len(Append(list, b)) = Len(list) + 1
      /\ Append(list, b)[Len(list) + 1] = b
      /\ \A i \in 1..Len(list) : Append(list, b)[i] = list[i]
  BY <1>1
<1>3. IsList(Append(list, b))
  BY <1>2, SequencesAreLists
<1>. QED  BY <1>2, <1>3

(* Induction up to a number, with the property given as a set.             *)
LEMMA UptoInduction ==
    ASSUME NEW N \in Nat, NEW Good, 0 \in Good,
           \A n \in 1..N : n - 1 \in Good => n \in Good
    PROVE  \A n \in 0..N : n \in Good
<1> DEFINE Bad == (0..N) \ Good
<1>1. SUFFICES ASSUME Bad # {} PROVE FALSE
  OBVIOUS
<1>2. Bad \subseteq Nat
  OBVIOUS
<1> HIDE DEF Bad
<1>3. PICK n \in Bad : \A m \in Bad : <<m, n>> \notin OpToRel(<, Nat)
  BY <1>1, <1>2, NatLessThanWellFounded, WFMin
<1>4. n \in 0..N /\ n \notin Good
  BY DEF Bad
<1>5. n - 1 \in Bad
  BY <1>4 DEF Bad
<1>6. <<n - 1, n>> \in OpToRel(<, Nat)
  BY <1>4, <1>5, <1>2 DEF OpToRel
<1>. QED  BY <1>3, <1>5, <1>6

(* The loop of normalize_buttons.                                          *)
LoopStep(upto, all, n) ==
    IF n = 0 THEN <<>>
    ELSE IF First(all, n) THEN Append(upto[n - 1], Clean(all[n])) ELSE upto[n - 1]
IsLoop(upto, all) == upto = [n \in 0..Len(all) |-> LoopStep(upto, all, n)]

LEMMA LoopExists ==
    ASSUME NEW all, Len(all) \in Nat
    PROVE  \E upto : IsLoop(upto, all)
<1> DEFINE Right(f, n) == \A m \in 0..n : f[m] = LoopStep(f, all, m)
           Good == {n \in 0..Len(all) : \E f : Right(f, n)}
<1>1. 0 \in Good
  <2> DEFINE f == [m \in 0..0 |-> <<>>]
  <2>1. Right(f, 0)
    BY DEF LoopStep
  <2>. QED  BY <2>1
<1>2. ASSUME NEW n \in 1..Len(all), n - 1 \in Good PROVE n \in Good
  <2>1. PICK f : Right(f, n - 1)
    BY <1>2
  <2> DEFINE g == [m \in 0..n |-> LoopStep(f, all, m)]
  <2>2. ASSUME NEW m \in 0..n PROVE g[m] = LoopStep(g, all, m)
    <3>1. CASE m = 0
      BY <3>1 DEF LoopStep
    <3>2. CASE m # 0
      <4>1. m - 1 \in 0..n - 1 /\ m - 1 \in 0..n
        BY <3>2
      <4>2. g[m - 1] = f[m - 1]
        BY <2>1, <4>1
      <4>3. LoopStep(g, all, m) = LoopStep(f, all, m)
        BY <4>2 DEF LoopStep
      <4>. QED  BY <4>3
    <3>. QED  BY <3>1, <3>2
  <2>3. Right(g, n)
    BY <2>2
  <2>4. \E h : Right(h, n)
    <3> HIDE DEF g
    <3>. QED  BY <2>3
  <2>5. n \in 0..Len(all)
    OBVIOUS
  <2>. QED  BY <2>4, <2>5
<1> HIDE DEF Good
<1>3. \A n \in 0..Len(all) : n \in Good
  BY <1>1, <1>2, UptoInduction
<1>4. PICK f : Right(f, Len(all))
  BY <1>3 DEF Good
<1> DEFINE g == [n \in 0..Len(all) |-> f[n]]
<1>5. ASSUME NEW n \in 0..Len(all) PROVE g[n] = LoopStep(g, all, n)
  <2>1. CASE n = 0
    BY <1>4, <2>1 DEF LoopStep
  <2>2. CASE n # 0
    <3>1. n - 1 \in 0..Len(all)
      BY <2>2
    <3>2. LoopStep(g, all, n) = LoopStep(f, all, n)
      BY <3>1 DEF LoopStep
    <3>. QED  BY <1>4, <3>2
  <2>. QED  BY <2>1, <2>2
<1>6. g = [n \in 0..Len(all) |-> LoopStep(g, all, n)]
  BY <1>5
<1>. QED  BY <1>6 DEF IsLoop

LEMMA NormalizedIs ==
    ASSUME NEW list, Len(list \o DefaultButtons) \in Nat
    PROVE  \E upto : /\ IsLoop(upto, list \o DefaultButtons)
                     /\ Normalized(list) = upto[Len(list \o DefaultButtons)]
<1> DEFINE all == list \o DefaultButtons
           Loop(f) == f = [n \in 0..Len(all) |->
                             IF n = 0 THEN <<>>
                             ELSE IF First(all, n) THEN Append(f[n - 1], Clean(all[n]))
                                  ELSE f[n - 1]]
<1>1. \A f : Loop(f) <=> IsLoop(f, all)
  BY DEF IsLoop, LoopStep
<1>2. PICK f : Loop(f)
  BY <1>1, LoopExists
<1> DEFINE upto == CHOOSE g : Loop(g)
<1>3. Loop(upto)
  BY <1>2
<1>4. Normalized(list) = upto[Len(all)]
  BY DEF Normalized
<1>. QED  BY <1>1, <1>3, <1>4

(* After n rounds the menu has the known actions of the first n buttons,   *)
(* each once.                                                              *)
Rounds(menu, all, n) ==
    /\ Tidy(menu)
    /\ \A i \in 1..Len(menu) : \E m \in 1..n : all[m].action = menu[i].action
    /\ \A m \in 1..n : all[m].action \in Actions => Has(menu, all[m].action)

LEMMA OneRound ==
    ASSUME NEW all, NEW n \in Nat \ {0}, NEW menu, Rounds(menu, all, n - 1)
    PROVE  Rounds(IF First(all, n) THEN Append(menu, Clean(all[n])) ELSE menu, all, n)
<1>1. IsList(menu) /\ Len(menu) \in Nat
  BY ListsAreFunctions DEF Rounds, Tidy
<1>2. CASE First(all, n)
  <2>0. Clean(all[n]).action = all[n].action
    BY DEF Clean
  <2>1. PICK b, longer : /\ b = Clean(all[n]) /\ longer = Append(menu, b)
                        /\ b.action = all[n].action
    BY <2>0
  <2>2. /\ IsList(longer) /\ Len(longer) = Len(menu) + 1 /\ longer[Len(menu) + 1] = b
        /\ \A i \in 1..Len(menu) : longer[i] = menu[i]
    BY <1>1, <2>1, LongerList
  <2>3. ASSUME NEW i \in 1..Len(longer), i # Len(menu) + 1
        PROVE  i \in 1..Len(menu) /\ longer[i] = menu[i]
    BY <1>1, <2>2, <2>3
  <2>4. b.action \in Actions /\ \A m \in 1..n - 1 : all[m].action # b.action
    BY <1>2, <2>1 DEF First
  <2>5. \A i \in 1..Len(menu) : menu[i].action # b.action /\ menu[i].action \in Actions
    BY <2>4 DEF Rounds, Tidy
  <2>6. \A i \in 1..Len(longer) : longer[i].action \in Actions
    BY <2>2, <2>3, <2>4, <2>5
  <2>7. ASSUME NEW i \in 1..Len(longer), NEW j \in 1..Len(longer),
               longer[i].action = longer[j].action
        PROVE  i = j
    <3>1. CASE i = Len(menu) + 1 /\ j # Len(menu) + 1
      BY <2>2, <2>3, <2>5, <2>7, <3>1
    <3>2. CASE i # Len(menu) + 1 /\ j = Len(menu) + 1
      BY <2>2, <2>3, <2>5, <2>7, <3>2
    <3>3. CASE i # Len(menu) + 1 /\ j # Len(menu) + 1
      BY <2>3, <2>7, <3>3 DEF Rounds, Tidy
    <3>. QED  BY <3>1, <3>2, <3>3
  <2>8. Tidy(longer)
    BY <2>2, <2>6, <2>7 DEF Tidy
  <2>9. ASSUME NEW i \in 1..Len(longer)
        PROVE  \E m \in 1..n : all[m].action = longer[i].action
    <3>1. CASE i = Len(menu) + 1
      BY <2>1, <2>2, <3>1
    <3>2. CASE i # Len(menu) + 1
      <4>1. PICK m \in 1..n - 1 : all[m].action = menu[i].action
        BY <2>3, <3>2 DEF Rounds
      <4>. QED  BY <2>3, <3>2, <4>1
    <3>. QED  BY <3>1, <3>2
  <2>10. ASSUME NEW m \in 1..n, all[m].action \in Actions PROVE Has(longer, all[m].action)
    <3>1. CASE m = n
      <4>1. Len(menu) + 1 \in 1..Len(longer)
        BY <1>1, <2>2
      <4>. QED  BY <2>1, <2>2, <3>1, <4>1 DEF Has
    <3>2. CASE m # n
      <4>1. PICK i \in 1..Len(menu) : menu[i].action = all[m].action
        BY <2>10, <3>2 DEF Rounds, Has
      <4>2. i \in 1..Len(longer) /\ longer[i] = menu[i]
        BY <1>1, <2>2
      <4>. QED  BY <4>1, <4>2 DEF Has
    <3>. QED  BY <3>1, <3>2
  <2>. QED  BY <1>2, <2>1, <2>8, <2>9, <2>10 DEF Rounds
<1>3. CASE ~First(all, n)
  <2>1. ASSUME NEW m \in 1..n, all[m].action \in Actions PROVE Has(menu, all[m].action)
    <3>1. CASE m = n
      <4>1. PICK k \in 1..n - 1 : all[k].action = all[n].action
        BY <1>3, <2>1, <3>1 DEF First
      <4>. QED  BY <2>1, <3>1, <4>1 DEF Rounds
    <3>2. CASE m # n
      BY <2>1, <3>2 DEF Rounds
    <3>. QED  BY <3>1, <3>2
  <2>2. ASSUME NEW i \in 1..Len(menu)
        PROVE  \E m \in 1..n : all[m].action = menu[i].action
    <3>1. PICK m \in 1..n - 1 : all[m].action = menu[i].action
      BY DEF Rounds
    <3>. QED  BY <3>1
  <2>. QED  BY <1>3, <2>1, <2>2 DEF Rounds
<1>. QED  BY <1>2, <1>3

(* Whatever list is stored, of whatever length and with whatever actions,  *)
(* normalize_buttons makes a menu of it that has every action of the       *)
(* default menu once and no other.                                         *)
THEOREM NormalizedIsWhole ==
    ASSUME NEW list, IsList(list)
    PROVE  Whole(Normalized(list))
<1>1. PICK all : all = list \o DefaultButtons
  OBVIOUS
<1>2. IsList(DefaultButtons) /\ Len(list) \in Nat /\ Len(DefaultButtons) \in Nat
  BY DefaultsAreWhole, ListsAreFunctions DEF Whole, Tidy
<1>3. /\ Len(all) = Len(list) + Len(DefaultButtons)
      /\ \A i \in 1..Len(DefaultButtons) : all[Len(list) + i] = DefaultButtons[i]
  BY <1>1, <1>2, JoinedLists
<1>4. Len(all) \in Nat
  BY <1>2, <1>3
<1>5. PICK upto : IsLoop(upto, all) /\ Normalized(list) = upto[Len(all)]
  BY <1>1, <1>4, NormalizedIs
<1>6. \A n \in 0..Len(all) : upto[n] = LoopStep(upto, all, n)
  BY <1>5 DEF IsLoop
<1> DEFINE Good == {n \in 0..Len(all) : Rounds(upto[n], all, n)}
<1>7. 0 \in Good
  <2>1. upto[0] = <<>>
    BY <1>4, <1>6 DEF LoopStep
  <2>2. Len(<<>>) = 0 /\ <<>> \in Seq({})
    OBVIOUS
  <2>3. IsList(<<>>)
    BY <2>2, SequencesAreLists
  <2>4. Rounds(<<>>, all, 0)
    BY <2>2, <2>3 DEF Rounds, Tidy
  <2>. QED  BY <1>4, <2>1, <2>4
<1>8. ASSUME NEW n \in 1..Len(all), n - 1 \in Good PROVE n \in Good
  <2>1. n \in Nat \ {0} /\ n \in 0..Len(all) /\ Rounds(upto[n - 1], all, n - 1)
    BY <1>4, <1>8
  <2>2. upto[n] = IF First(all, n) THEN Append(upto[n - 1], Clean(all[n])) ELSE upto[n - 1]
    BY <1>6, <2>1 DEF LoopStep
  <2>3. Rounds(upto[n], all, n)
    BY <2>1, <2>2, OneRound
  <2>. QED  BY <2>1, <2>3
<1> HIDE DEF Good
<1>9. \A n \in 0..Len(all) : n \in Good
  BY <1>4, <1>7, <1>8, UptoInduction
<1>10. Rounds(Normalized(list), all, Len(all))
  BY <1>4, <1>5, <1>9 DEF Good
<1>11. ASSUME NEW a \in Actions PROVE Has(Normalized(list), a)
  <2>1. PICK i \in 1..Len(DefaultButtons) : DefaultButtons[i].action = a
    BY DefaultsAreWhole DEF Whole, Has
  <2>2. Len(list) + i \in 1..Len(all) /\ all[Len(list) + i].action = a
    BY <1>2, <1>3, <2>1
  <2>. QED  BY <1>10, <2>2 DEF Rounds
<1>. QED  BY <1>10, <1>11 DEF Whole, Rounds

(* A whole menu is as long as the default one.                             *)
LEMMA WholeLength ==
    ASSUME NEW menu, Whole(menu)
    PROVE  Len(menu) = Len(Default)
<1>1. Len(menu) \in Nat /\ Len(Default) \in Nat
  BY MenuAssumption, ListsAreFunctions DEF Whole, Tidy
<1>2. Cardinality(Actions) = Len(menu)
  <2> DEFINE f == [i \in 1..Len(menu) |-> menu[i].action]
  <2>1. f \in Bijection(1..Len(menu), Actions)
    <3>1. f \in [1..Len(menu) -> Actions]
      BY DEF Whole, Tidy
    <3>2. \A i, j \in 1..Len(menu) : f[i] = f[j] => i = j
      BY DEF Whole, Tidy
    <3>3. \A a \in Actions : \E i \in 1..Len(menu) : f[i] = a
      BY DEF Whole, Has
    <3> HIDE DEF f
    <3>. QED  BY <3>1, <3>2, <3>3 DEF Bijection, Injection, Surjection, IsInjective
  <2>. QED  BY <1>1, <2>1, FS_CountingElements DEF ExistsBijection
<1>3. Cardinality(Actions) = Len(Default)
  <2> DEFINE f == [i \in 1..Len(Default) |-> Default[i]]
  <2>1. f \in Bijection(1..Len(Default), Actions)
    <3>1. f \in [1..Len(Default) -> Actions]
      BY DEF Actions
    <3>2. \A i, j \in 1..Len(Default) : f[i] = f[j] => i = j
      BY MenuAssumption
    <3>3. \A a \in Actions : \E i \in 1..Len(Default) : f[i] = a
      BY DEF Actions
    <3> HIDE DEF f
    <3>. QED  BY <3>1, <3>2, <3>3 DEF Bijection, Injection, Surjection, IsInjective
  <2>. QED  BY <1>1, <2>1, FS_CountingElements DEF ExistsBijection
<1>. QED  BY <1>2, <1>3

-----------------------------------------------------------------------------
(* Edits *)

LEMMA PositionIsIt ==
    ASSUME NEW menu, Tidy(menu), NEW i \in 1..Len(menu)
    PROVE  Position(menu, menu[i].action) = i
<1>1. PICK a : a = menu[i].action
  OBVIOUS
<1>2. Position(menu, a) \in 1..Len(menu) /\ menu[Position(menu, a)].action = a
  BY <1>1 DEF Position
<1>. QED  BY <1>1, <1>2 DEF Tidy

(* Editing a list leaves a list of the same length, or the default one.    *)
LEMMA EditedIsList ==
    ASSUME NEW list, IsList(list), NEW edit, edit.do \in EditKinds
    PROVE  IsList(Edited(list, edit))
<1>1. Len(list) \in Nat /\ list = [i \in 1..Len(list) |-> list[i]]
  BY ListsAreFunctions
<1>2. ASSUME NEW place, NEW b PROVE IsList([list EXCEPT ![place] = b])
  <2>1. PICK n, new : n = Len(list) /\ new = [list EXCEPT ![place] = b]
    OBVIOUS
  <2>2. new = [i \in 1..n |-> new[i]]
    BY <1>1, <2>1
  <2>. QED  BY <1>1, <2>1, <2>2, FunctionsAreLists
<1>3. ASSUME NEW i, NEW j PROVE IsList(Swapped(list, i, j))
  <2>1. PICK n, new : n = Len(list) /\ new = [list EXCEPT ![i] = list[j], ![j] = list[i]]
    OBVIOUS
  <2>2. new = [k \in 1..n |-> new[k]]
    BY <1>1, <2>1
  <2>. QED  BY <1>1, <2>1, <2>2, FunctionsAreLists DEF Swapped
<1> DEFINE i == Position(list, edit.action)
<1>4. CASE edit.do = "move"
  BY <1>3, <1>4 DEF Edited, Moved
<1>5. CASE edit.do = "label"
  <2>1. PICK new : new = [list EXCEPT ![i].label = edit.to]
    OBVIOUS
  <2>2. Edited(list, edit) = new
    BY <1>5, <2>1 DEF Edited
  <2>3. new = [k \in 1..Len(list) |-> new[k]]
    BY <1>1, <2>1
  <2>. QED  BY <1>1, <2>2, <2>3, FunctionsAreLists
<1>6. CASE edit.do = "color"
  <2>1. \/ Edited(list, edit) = [list EXCEPT ![i] = [list[i] EXCEPT !.color = edit.to]]
        \/ Edited(list, edit) = list
    BY <1>6 DEF Edited
  <2>. QED  BY <1>2, <2>1
<1>7. CASE edit.do = "icon"
  <2>1. PICK new : new = [list EXCEPT ![i].icon = edit.to]
    OBVIOUS
  <2>2. Edited(list, edit) = new
    BY <1>7, <2>1 DEF Edited
  <2>3. new = [k \in 1..Len(list) |-> new[k]]
    BY <1>1, <2>1
  <2>. QED  BY <1>1, <2>2, <2>3, FunctionsAreLists
<1>8. CASE edit.do = "toggle"
  <2>1. PICK new : new = [list EXCEPT ![i].visible = ~@]
    OBVIOUS
  <2>2. Edited(list, edit) = new
    BY <1>8, <2>1 DEF Edited
  <2>3. new = [k \in 1..Len(list) |-> new[k]]
    BY <1>1, <2>1
  <2>. QED  BY <1>1, <2>2, <2>3, FunctionsAreLists
<1>9. CASE edit.do = "reset"
  BY <1>9, DefaultsAreWhole DEF Edited, Whole, Tidy
<1>. QED  BY <1>4, <1>5, <1>6, <1>7, <1>8, <1>9 DEF EditKinds

(* In a whole menu the button that was moved is where it was moved to.     *)
LEMMA MovesAreUndone ==
    ASSUME NEW menu, Whole(menu), NEW a \in Actions, NEW d \in Directions,
           CanMove(menu, a, d)
    PROVE  LET moved == Moved(menu, a, d)
           IN  CanMove(moved, a, Opposite[d]) /\ Moved(moved, a, Opposite[d]) = menu
<1>1. PICK i \in 1..Len(menu) : menu[i].action = a
  BY DEF Whole, Has
<1>2. Position(menu, a) = i
  BY <1>1, PositionIsIt DEF Whole
<1>3. PICK j : j = Target(i, d) /\ j \in 1..Len(menu)
  BY <1>2 DEF CanMove
<1>4. PICK moved : moved = Swapped(menu, i, j) /\ moved = Moved(menu, a, d)
  BY <1>2, <1>3 DEF Moved
<1>5. menu \in Seq({menu[k] : k \in 1..Len(menu)})
  BY DEF Whole, Tidy, IsList
<1>6. Target(j, Opposite[d]) = i /\ moved[j] = menu[i] /\ Swapped(moved, j, i) = menu
  <2>1. Target(i, d) \in 1..Len(menu)
    BY <1>3
  <2>2. PICK B : menu \in Seq(B)
    BY <1>5
  <2>3. /\ Target(Target(i, d), Opposite[d]) = i
        /\ Swapped(menu, i, Target(i, d))[Target(i, d)] = menu[i]
        /\ Swapped(Swapped(menu, i, Target(i, d)), Target(i, d), i) = menu
    BY <2>1, <2>2, MoveIsUndone
  <2>. QED  BY <1>3, <1>4, <2>3
<1>7. /\ Len(menu) \in Nat /\ menu = [k \in 1..Len(menu) |-> menu[k]]
  BY ListsAreFunctions DEF Whole, Tidy
<1>8. /\ moved = [k \in 1..Len(menu) |-> moved[k]]
      /\ moved[i] = menu[j] /\ moved[j] = menu[i]
      /\ \A k \in 1..Len(menu) : k # i /\ k # j => moved[k] = menu[k]
  BY <1>3, <1>4, <1>7 DEF Swapped
<1>9. IsList(moved) /\ Len(moved) = Len(menu)
  BY <1>7, <1>8, FunctionsAreLists
<1>10. Tidy(moved)
  <2> DEFINE Old(k) == IF k = i THEN j ELSE IF k = j THEN i ELSE k
  <2>1. \A k \in 1..Len(menu) : Old(k) \in 1..Len(menu) /\ moved[k] = menu[Old(k)]
    BY <1>3, <1>8
  <2>2. \A k, n \in 1..Len(menu) : Old(k) = Old(n) => k = n
    OBVIOUS
  <2> HIDE DEF Old
  <2>3. \A k \in 1..Len(moved) : moved[k].action \in Actions
    BY <1>9, <2>1 DEF Whole, Tidy
  <2>4. ASSUME NEW k \in 1..Len(moved), NEW n \in 1..Len(moved),
               moved[k].action = moved[n].action
        PROVE  k = n
    <3>1. Old(k) = Old(n)
      BY <1>9, <2>1, <2>4 DEF Whole, Tidy
    <3>. QED  BY <1>9, <2>2, <3>1
  <2>. QED  BY <1>9, <2>3, <2>4 DEF Tidy
<1>11. Position(moved, a) = j
  BY <1>1, <1>3, <1>8, <1>9, <1>10, PositionIsIt
<1>12. CanMove(moved, a, Opposite[d]) /\ Moved(moved, a, Opposite[d]) = menu
  BY <1>6, <1>9, <1>11 DEF CanMove, Moved
<1>. QED  BY <1>4, <1>12

-----------------------------------------------------------------------------
(* The invariant.  Whatever a handler is about to write fits its key, and  *)
(* names as admins only people who were named.                             *)
Fine(w, names) ==
    /\ w[1] \in Keys /\ Fits(w[1], w[2])
    /\ w[1] = "admin_ids" => w[2] \subseteq names

GoodRows(rows, names) ==
    \E W : rows \in Seq(W) /\ \A w \in W : Fine(w, names)

Fields == {"at", "who", "task", "arg", "todo", "dirty", "mine", "read", "seen"}
IsRecord(S) == DOMAIN S = Fields /\ S = [x \in Fields |-> S[x]]

(* What a task was given.                                                  *)
Given(S) ==
    /\ S.task = "add_admin" => S.arg \in People
    /\ S.task = "switch" => S.arg \in Switches \X {"true", "false"}
    /\ S.task = "set_value" => S.arg \in Words
    /\ S.task = "card_number" => S.arg \in Cards
    /\ S.task = "card_holder" => S.arg \in Holders
    /\ S.task = "supergroup_chat_id" => S.arg \in Chats
    /\ S.task = "open" => S.arg \in Prompts
    /\ S.task \in {"edit", "menu_button_text", "menu_button_icon"} => S.arg \in Edits
    /\ S.at \in {"check", "work"} =>
          S.task \in {"add_admin", "remove", "switch", "edit", "open", "set_value",
                      "card_number", "card_holder", "supergroup_chat_id",
                      "menu_button_text", "menu_button_icon"}
    /\ S.at = "work" => S.task \notin {"open", "card_number"}
    /\ S.task \notin {"none", "receipt", "charge"} => S.who \in People
    /\ S.at \in {"fill", "state"} => S.task \in {"open", "card_number"}
    /\ S.at \in {"check", "fill", "state", "work"} => S.mine = {}

(* How far a receipt has got.                                              *)
Delivered(S) ==
    /\ S.at \in {"number", "holder"} => S.task = "charge"
    /\ S.at \in {"chat", "thread", "send", "admins", "each"} => S.task = "receipt"
    /\ S.at = "chat" => S.read = <<>>
    /\ S.at = "thread" => \E c \in Chats \cup {Unset} : S.read = <<c>>
    /\ S.at = "send" => S.read[1] \in Chats \cup {Unset}
    /\ S.at = "each" => \E A : S.read = <<A>> /\ Env \subseteq A
    /\ S.task = "receipt" /\ S.at = "told" =>
          S.seen \cap Chats # {} \/ Env \subseteq S.seen

SessionIs(S, names) ==
    /\ IsRecord(S) /\ Given(S) /\ Delivered(S)
    /\ GoodRows(S.todo, names)
    /\ \A d \in S.dirty : Fine(<<d.key, d.value>>, names)
    /\ \A w \in S.mine : Fine(w, names)
    /\ S.task = "add_admin" /\ S.at = "work" => S.arg \in names
    /\ S.at \in {"set", "topic"} => S.todo # <<>>

Inductive ==
    /\ TypeOK
    /\ Env \subseteq named /\ Listed \subseteq named
    /\ \A p \in Procs : SessionIs(sess[p], named)

LEMMA RowsAreGood ==
    ASSUME NEW rows, NEW W, NEW names, rows \in Seq(W), \A w \in W : Fine(w, names)
    PROVE  GoodRows(rows, names)
BY DEF GoodRows

LEMMA IdleIsFine == \A names : SessionIs(Idle, names) /\ Idle.mine = {}
<1>1. ASSUME NEW names PROVE GoodRows(<<>>, names)
  <2>1. PICK W : W = {}
    OBVIOUS
  <2>2. <<>> \in Seq(W) /\ \A w \in W : Fine(w, names)
    BY <2>1
  <2> QED BY <2>2, RowsAreGood
<1>2. IsRecord(Idle) /\ Given(Idle) /\ Delivered(Idle)
  BY DEF IsRecord, Given, Delivered, Idle, Fields
<1> QED BY <1>1, <1>2 DEF SessionIs, Idle

(* More people named harm nobody.                                          *)
LEMMA NamesGrow ==
    ASSUME NEW S, NEW names, NEW more, names \subseteq more, SessionIs(S, names)
    PROVE  SessionIs(S, more)
<1>1. \A w : Fine(w, names) => Fine(w, more)
  BY DEF Fine
<1>2. GoodRows(S.todo, more)
  BY <1>1 DEF GoodRows, SessionIs
<1> QED BY <1>1, <1>2 DEF SessionIs

LEMMA RestIsGood ==
    ASSUME NEW rows, NEW names, GoodRows(rows, names), rows # <<>>
    PROVE  Fine(Head(rows), names) /\ GoodRows(Tail(rows), names)
<1>1. PICK W : rows \in Seq(W) /\ \A w \in W : Fine(w, names)
  BY DEF GoodRows
<1>2. Head(rows) \in W /\ Tail(rows) \in Seq(W)
  BY <1>1
<1> QED BY <1>1, <1>2 DEF GoodRows

(* One handler takes a step: what has to be shown of it.                   *)
LEMMA OneSession ==
    ASSUME Inductive, NEW p \in Procs, NEW S,
           sess' = [sess EXCEPT ![p] = S],
           SessionIs(S, named'),
           DOMAIN table' = Keys,
           \A k \in Keys : table'[k] # Unset => Fits(k, table'[k]),
           Listed' \subseteq named',
           lock' \in [Keys -> Procs \cup {Free}],
           \A k \in Keys : lock'[k] = p => \E w \in S.mine : w[1] = k,
           \A k \in Keys, q \in Procs \ {p} : lock'[k] = q => lock[k] = q,
           form' \in [People -> Prompt],
           named \subseteq named', named' \subseteq People,
           tasks' \in Nat, failures' \in 0..MaxFailures
    PROVE  Inductive'
<1>1. DOMAIN sess' = Procs /\ sess'[p] = S /\ \A q \in Procs \ {p} : sess'[q] = sess[q]
  BY DEF Inductive, TypeOK
<1>2. ASSUME NEW q \in Procs PROVE SessionIs(sess'[q], named')
  <2>1. CASE q = p
    BY <1>1, <2>1
  <2>2. CASE q # p
    BY <1>1, <2>2, NamesGrow DEF Inductive
  <2> QED BY <2>1, <2>2
<1>3. ASSUME NEW q \in Procs, NEW k \in Keys, lock'[k] = q
      PROVE  \E w \in sess'[q].mine : w[1] = k
  BY <1>1, <1>3 DEF Inductive, TypeOK
<1>4. Env \subseteq named'
  BY DEF Inductive
<1>5. TypeOK'
  BY <1>1, <1>3 DEF TypeOK
<1> QED BY <1>2, <1>4, <1>5 DEF Inductive

(* A step that touches neither the table nor the names.                    *)
LEMMA QuietStep ==
    ASSUME Inductive, NEW p \in Procs, NEW S,
           sess' = [sess EXCEPT ![p] = S], SessionIs(S, named),
           UNCHANGED <<table, lock, named>>,
           sess[p].mine \subseteq S.mine,
           form' \in [People -> Prompt],
           tasks' \in Nat, failures' \in 0..MaxFailures
    PROVE  Inductive'
<1>1. \A k \in Keys : lock'[k] = p => \E w \in S.mine : w[1] = k
  BY DEF Inductive, TypeOK
<1>2. Listed' = Listed
  BY DEF Listed
<1> QED BY <1>1, <1>2, OneSession DEF Inductive, TypeOK

(* The end of a handler frees its rows.                                    *)
LEMMA EndStep ==
    ASSUME Inductive, NEW p \in Procs, End(p),
           DOMAIN table' = Keys,
           \A k \in Keys : table'[k] # Unset => Fits(k, table'[k]),
           Listed' \subseteq named, UNCHANGED <<form, named, tasks>>,
           failures' \in 0..MaxFailures
    PROVE  Inductive'
<1>1. lock' \in [Keys -> Procs \cup {Free}]
  BY DEF End, Unlocked, Inductive, TypeOK
<1>2. \A k \in Keys : lock'[k] # p /\ (lock'[k] # Free => lock'[k] = lock[k])
  BY SettingsAssumption DEF End, Unlocked
<1>3. sess' = [sess EXCEPT ![p] = Idle]
  BY DEF End, Become
<1>4. \A q \in Procs : q # Free
  BY SettingsAssumption
<1>5. \A k \in Keys, q \in Procs \ {p} : lock'[k] = q => lock[k] = q
  BY <1>2, <1>4
<1>6. \A k \in Keys : lock'[k] = p => \E w \in Idle.mine : w[1] = k
  BY <1>2
<1> QED BY <1>1, <1>3, <1>5, <1>6, IdleIsFine, OneSession DEF Inductive, TypeOK

-----------------------------------------------------------------------------
(* The beginning *)

LEMMA InitInductive == Init => Inductive
<1> SUFFICES ASSUME Init PROVE Inductive
  OBVIOUS
<1>1. PICK menu \in OpeningMenus, card \in OpeningCards :
        table = [k \in Keys |->
            CASE k = "admin_ids" -> OpeningAdmins
              [] k = "user_menu_buttons" -> menu
              [] k = "card_number" -> card
              [] k = "card_holder" -> IF card = Unset THEN Unset ELSE HolderOf[card]
              [] OTHER -> Unset]
  BY DEF Init
<1>2. ASSUME NEW k \in Keys, table[k] # Unset PROVE Fits(k, table[k])
  <2>1. k \in Fixed
    BY <1>1, <1>2 DEF Fixed
  <2>2. k \notin TopicKeys /\ k \notin Numbers /\ k \notin Texts /\ k \notin Switches
    BY <2>1, KeysAssumption DEF Typed
  <2>3. CASE k = "admin_ids"
    BY <1>1, <2>2, <2>3, SettingsAssumption DEF Fits
  <2>4. CASE k = "user_menu_buttons"
    <3>1. table[k] = menu
      BY <1>1, <2>4
    <3>2. IsList(table[k])
      BY <1>2, <3>1, SettingsAssumption
    <3> QED BY <2>2, <2>4, <3>2 DEF Fits
  <2>5. CASE k = "card_number"
    <3>1. table[k] = card
      BY <1>1, <2>5
    <3> QED BY <1>2, <3>1, <2>2, <2>5, SettingsAssumption DEF Fits
  <2>6. CASE k = "card_holder"
    <3>1. table[k] = IF card = Unset THEN Unset ELSE HolderOf[card]
      BY <1>1, <2>6
    <3> QED BY <1>2, <3>1, <2>2, <2>6, SettingsAssumption DEF Fits
  <2>7. CASE k = "supergroup_chat_id"
    BY <1>1, <1>2, <2>7
  <2> QED BY <2>1, <2>3, <2>4, <2>5, <2>6, <2>7 DEF Fixed
<1>3. Listed \subseteq OpeningAdmins
  <2>1. "admin_ids" \in Keys
    BY DEF Keys, Fixed
  <2> QED BY <1>1, <2>1 DEF Listed
<1>4. form \in [People -> Prompt]
  <2>1. NoForm \in Prompt
    BY DEF NoForm, Prompt
  <2> QED BY <2>1, FormsAssumption DEF Init
<1>5. \A p \in Procs : sess[p] = Idle /\ SessionIs(sess[p], named)
  BY IdleIsFine DEF Init
<1>6. \A k \in Keys : lock[k] = Free
  BY DEF Init
<1>7. TypeOK
  BY <1>1, <1>2, <1>4, <1>6, SettingsAssumption DEF TypeOK, Init
<1> QED BY <1>3, <1>5, <1>7 DEF Inductive, Init

-----------------------------------------------------------------------------
(* The steps *)

LEMMA BeginStep ==
    ASSUME Inductive, NEW p \in Procs, NEW who, NEW task, NEW arg, NEW at,
           Begin(p, who, task, arg, at),
           Given([Idle EXCEPT !.at = at, !.who = who, !.task = task, !.arg = arg]),
           \/ at = "check"
           \/ at = "chat" /\ task = "receipt"
           \/ at = "number" /\ task = "charge"
    PROVE  Inductive'
<1> DEFINE S == [Idle EXCEPT !.at = at, !.who = who, !.task = task, !.arg = arg]
<1>1. IsRecord(S) /\ Delivered(S)
  BY DEF IsRecord, Delivered, Idle, Fields
<1>2. S.todo = Idle.todo /\ S.dirty = Idle.dirty /\ S.mine = Idle.mine /\ S.at = at
  BY DEF Idle
<1>3. SessionIs(S, named)
  BY <1>1, <1>2, IdleIsFine DEF SessionIs
<1>4. sess' = [sess EXCEPT ![p] = S] /\ sess[p].mine \subseteq S.mine
  BY <1>2 DEF Begin, Become
<1>5. /\ UNCHANGED <<table, lock, named>> /\ form' \in [People -> Prompt]
      /\ tasks' \in Nat /\ failures' \in 0..MaxFailures
  BY DEF Begin, Inductive, TypeOK
<1> HIDE DEF S
<1> QED BY <1>3, <1>4, <1>5, QuietStep

LEMMA PressStep ==
    ASSUME Inductive, NEW p \in Procs, NEW a \in People, Press(p, a)
    PROVE  Inductive'
<1> USE DEF Given, Idle
<1>1. CASE \E x \in People : Begin(p, a, "remove", x, "check")
  BY <1>1, BeginStep
<1>2. CASE \E k \in Switches, w \in {"true", "false"} :
             Begin(p, a, "switch", <<k, w>>, "check")
  BY <1>2, BeginStep
<1>3. CASE \E e \in Edits : e.do \notin {"label", "icon"} /\ Begin(p, a, "edit", e, "check")
  BY <1>3, BeginStep
<1>4. CASE \E f \in Prompts : InSection(f) /\ Begin(p, a, "open", f, "check")
  BY <1>4, BeginStep
<1> QED BY <1>1, <1>2, <1>3, <1>4 DEF Press

LEMMA TypeStep ==
    ASSUME Inductive, NEW p \in Procs, NEW a \in People, Type(p, a)
    PROVE  Inductive'
<1> USE DEF Given, Idle
<1> DEFINE F == form[a]
<1>1. CASE F.state = "add_admin" /\ \E x \in People : Begin(p, a, F.state, x, "check")
  BY <1>1, BeginStep
<1>2. CASE F.state = "card_number" /\ \E n \in Cards : Begin(p, a, F.state, n, "check")
  BY <1>2, BeginStep
<1>3. CASE F.state = "card_holder" /\ F.card # Unset /\ Begin(p, a, F.state, HolderOf[F.card], "check")
  <2>1. HolderOf[F.card] \in Holders
    BY <1>3, SettingsAssumption DEF Inductive, TypeOK, Prompt
  <2> QED BY <1>3, <2>1, BeginStep
<1>4. CASE F.state = "set_value" /\ \E w \in Words : Begin(p, a, F.state, w, "check")
  BY <1>4, BeginStep
<1>5. CASE F.state = "supergroup_chat_id" /\ \E c \in Chats : Begin(p, a, F.state, c, "check")
  BY <1>5, BeginStep
<1>6. CASE F.state = "menu_button_text" /\
           \E e \in Edits : e.do = "label" /\ Begin(p, a, F.state, e, "check")
  BY <1>6, BeginStep
<1>7. CASE F.state = "menu_button_icon" /\
           \E e \in Edits : e.do = "icon" /\ Begin(p, a, F.state, e, "check")
  BY <1>7, BeginStep
<1> QED BY <1>1, <1>2, <1>3, <1>4, <1>5, <1>6, <1>7 DEF Type

LEMMA AskStep ==
    ASSUME Inductive, NEW p \in Procs, Ask(p)
    PROVE  Inductive'
<1> USE DEF Given, Idle
<1>1. CASE Begin(p, Nobody, "receipt", Unset, "chat")
  BY <1>1, BeginStep
<1>2. CASE Begin(p, Nobody, "charge", Unset, "number")
  BY <1>2, BeginStep
<1> QED BY <1>1, <1>2 DEF Ask

(* A handler goes on, or ends, before it has written anything.             *)
LEMMA CheckStep ==
    ASSUME Inductive, NEW p \in Procs, Check(p)
    PROVE  Inductive'
<1> DEFINE S == sess[p]
<1>0. SessionIs(S, named) /\ S.at = "check"
  BY DEF Inductive, Check
<1>1. named \subseteq named' /\ named' \subseteq People
  BY <1>0 DEF Check, SessionIs, Given, Inductive, TypeOK
<1>2. Listed' = Listed
  BY DEF Check, Listed
<1>3. PICK T : /\ sess' = [sess EXCEPT ![p] = T]
              /\ \/ T = Idle
                 \/ /\ Admitted(S.who)
                    /\ T = [S EXCEPT !.at = IF S.task \in {"open", "card_number"}
                                           THEN "fill" ELSE "work"]
  BY DEF Check, Become
<1>4. S.mine = {}
  BY <1>0 DEF SessionIs, Given
<1>5. SessionIs(T, named') /\ T.mine = {}
  <2>1. CASE T = Idle
    BY <2>1, IdleIsFine
  <2>2. CASE /\ Admitted(S.who)
             /\ T = [S EXCEPT !.at = IF S.task \in {"open", "card_number"}
                                    THEN "fill" ELSE "work"]
    <3>1. SessionIs(S, named')
      BY <1>0, <1>1, NamesGrow
    <3>2. /\ IsRecord(T) /\ T.at \in {"fill", "work"} /\ T.task = S.task /\ T.arg = S.arg
          /\ T.who = S.who /\ T.todo = S.todo /\ T.dirty = S.dirty /\ T.mine = S.mine
          /\ T.at = "fill" => S.task \in {"open", "card_number"}
          /\ T.at = "work" => S.task \notin {"open", "card_number"}
      BY <2>2, <3>1 DEF SessionIs, IsRecord, Fields
    <3>3. Given(T)
      BY <1>0, <1>4, <3>1, <3>2 DEF SessionIs, Given
    <3>4. Delivered(T)
      BY <3>1, <3>2 DEF Delivered
    <3>5. S.task = "add_admin" => S.arg \in named'
      BY <2>2 DEF Check, Admitted
    <3> QED BY <1>4, <3>1, <3>2, <3>3, <3>4, <3>5 DEF SessionIs
  <2> QED BY <1>3, <2>1, <2>2
<1>6. \A k \in Keys : lock'[k] # p
  BY <1>4 DEF Check, Inductive, TypeOK
<1>7. \A k \in Keys, q \in Procs \ {p} : lock'[k] = q => lock[k] = q
  BY DEF Check
<1>8. /\ DOMAIN table' = Keys /\ \A k \in Keys : table'[k] # Unset => Fits(k, table'[k])
      /\ lock' \in [Keys -> Procs \cup {Free}] /\ form' \in [People -> Prompt]
      /\ tasks' \in Nat /\ failures' \in 0..MaxFailures
  BY DEF Check, Inductive, TypeOK
<1>9. Listed' \subseteq named'
  BY <1>1, <1>2 DEF Inductive
<1>10. sess' = [sess EXCEPT ![p] = T]
  BY <1>3
<1>11. \A k \in Keys : lock'[k] = p => \E w \in T.mine : w[1] = k
  BY <1>6
<1> HIDE DEF S
<1> QED BY <1>1, <1>5, <1>7, <1>8, <1>9, <1>10, <1>11, OneSession

LEMMA FillStep ==
    ASSUME Inductive, NEW p \in Procs, Fill(p)
    PROVE  Inductive'
<1> DEFINE S == sess[p]
<1> DEFINE T == [S EXCEPT !.at = "state"]
<1>0. SessionIs(S, named) /\ S.at = "fill"
  BY DEF Inductive, Fill
<1>1. /\ IsRecord(T) /\ T.at = "state" /\ T.task = S.task /\ T.arg = S.arg
      /\ T.who = S.who /\ T.todo = S.todo /\ T.dirty = S.dirty /\ T.mine = S.mine
  BY <1>0 DEF SessionIs, IsRecord, Fields
<1>2. SessionIs(T, named)
  BY <1>0, <1>1 DEF SessionIs, Given, Delivered
<1>3. form' \in [People -> Prompt]
  <2>1. S.task \in {"open", "card_number"} /\ S.who \in People
    BY <1>0 DEF SessionIs, Given
  <2>2. form[S.who] \in Prompt
    BY <2>1 DEF Inductive, TypeOK
  <2>3. CASE S.task = "card_number"
    <3>0. S.arg \in Cards
      BY <1>0, <2>3 DEF SessionIs, Given
    <3>1. [form[S.who] EXCEPT !.card = S.arg] \in Prompt
      BY <2>2, <3>0 DEF Prompt
    <3>2. form' = [form EXCEPT ![S.who] = [form[S.who] EXCEPT !.card = S.arg]]
      BY <2>3 DEF Fill
    <3> QED BY <3>1, <3>2 DEF Inductive, TypeOK
  <2>4. CASE S.task = "open" /\ S.arg.state = "add_admin"
    <3>1. form' = [form EXCEPT ![S.who] = form[S.who]]
      BY <2>4 DEF Fill
    <3> QED BY <2>2, <3>1 DEF Inductive, TypeOK
  <2>5. CASE S.task = "open" /\ S.arg.state # "add_admin"
    <3>1. [S.arg EXCEPT !.state = "none"] \in Prompt
      BY <1>0, <2>5 DEF SessionIs, Given, Prompts, Prompt
    <3>2. form' = [form EXCEPT ![S.who] = [S.arg EXCEPT !.state = "none"]]
      BY <2>5 DEF Fill
    <3> QED BY <3>1, <3>2 DEF Inductive, TypeOK
  <2> QED BY <2>1, <2>3, <2>4, <2>5
<1>4. /\ sess' = [sess EXCEPT ![p] = T] /\ UNCHANGED <<table, lock, named>>
      /\ tasks' \in Nat /\ failures' \in 0..MaxFailures
  BY DEF Fill, Become, Inductive, TypeOK
<1> HIDE DEF T
<1> QED BY <1>1, <1>2, <1>3, <1>4, QuietStep

LEMMA SetStateStep ==
    ASSUME Inductive, NEW p \in Procs, SetState(p)
    PROVE  Inductive'
<1> DEFINE S == sess[p]
<1>0. SessionIs(S, named) /\ S.at = "state"
  BY DEF Inductive, SetState
<1>1. S.task \in {"open", "card_number"} /\ S.who \in People /\ S.mine = {}
  BY <1>0 DEF SessionIs, Given
<1>2. form[S.who] \in Prompt
  BY <1>1 DEF Inductive, TypeOK
<1>3. form' \in [People -> Prompt]
  <2>1. ASSUME NEW st \in Dialogues \cup {"none"}, form' = [form EXCEPT ![S.who].state = st]
        PROVE  form' \in [People -> Prompt]
    <3>1. [form[S.who] EXCEPT !.state = st] \in Prompt
      BY <1>2 DEF Prompt
    <3> QED BY <2>1, <3>1 DEF Inductive, TypeOK
  <2>2. CASE S.task = "card_number"
    <3>1. form' = [form EXCEPT ![S.who].state = "card_holder"]
      BY <2>2 DEF SetState
    <3> QED BY <2>1, <3>1 DEF Dialogues
  <2>3. CASE S.task = "open" /\ S.arg.state = "none"
    <3>1. form' = [form EXCEPT ![S.who].state = form[S.who].state]
      BY <2>3 DEF SetState
    <3>2. form[S.who].state \in Dialogues \cup {"none"}
      BY <1>2 DEF Prompt
    <3> QED BY <2>1, <3>1, <3>2
  <2>4. CASE S.task = "open" /\ S.arg.state # "none"
    <3>1. form' = [form EXCEPT ![S.who].state = S.arg.state]
      BY <2>4 DEF SetState
    <3>2. S.arg.state \in Dialogues \cup {"none"}
      BY <1>0, <2>4 DEF SessionIs, Given, Prompts, Prompt
    <3> QED BY <2>1, <3>1, <3>2
  <2> QED BY <1>1, <2>2, <2>3, <2>4
<1>4. /\ sess' = [sess EXCEPT ![p] = Idle] /\ UNCHANGED <<table, lock, named>>
      /\ tasks' \in Nat /\ failures' \in 0..MaxFailures
  BY DEF SetState, Become, Inductive, TypeOK
<1> QED BY <1>1, <1>3, <1>4, IdleIsFine, QuietStep

(* What a handler is going to write.                                       *)
LEMMA FixedFits ==
    ASSUME NEW k \in Fixed, NEW v,
           k = "admin_ids" => v \subseteq People,
           k = "card_number" => v \in Cards,
           k = "card_holder" => v \in Holders,
           k = "supergroup_chat_id" => v \in Chats,
           k = "user_menu_buttons" => IsList(v)
    PROVE  k \in Keys /\ Fits(k, v)
<1>1. k \notin TopicKeys /\ k \notin Numbers /\ k \notin Texts /\ k \notin Switches
  BY KeysAssumption DEF Typed
<1> QED BY <1>1 DEF Fits, Keys

LEMMA OneRowIsGood ==
    ASSUME NEW w, NEW names, Fine(w, names) PROVE GoodRows(<<w>>, names)
<1>1. PICK W : W = {w}
  OBVIOUS
<1>2. <<w>> \in Seq(W) /\ \A x \in W : Fine(x, names)
  BY <1>1
<1> QED BY <1>2, RowsAreGood

LEMMA GroupRowsAreGood ==
    ASSUME NEW chat \in Chats, NEW names PROVE GoodRows(GroupRows(chat), names)
<1> DEFINE first == <<"supergroup_chat_id", chat>>
<1> DEFINE rest == [i \in 1..Len(Topics) |-> <<Topics[i], <<chat, Topics[i]>>>>]
<1> DEFINE W == {first} \cup {<<k, <<chat, k>>>> : k \in TopicKeys}
<1>1. <<first>> \in Seq(W)
  OBVIOUS
<1>2. Len(Topics) \in Nat
  BY SettingsAssumption
<1>3. rest \in Seq(W)
  <2>1. \A i \in 1..Len(Topics) : Topics[i] \in TopicKeys
    BY DEF TopicKeys
  <2>2. \A i \in 1..Len(Topics) : <<Topics[i], <<chat, Topics[i]>>>> \in W
    BY <2>1
  <2>3. rest \in [1..Len(Topics) -> W]
    BY <2>2
  <2> QED BY <1>2, <2>3
<1>4. GroupRows(chat) \in Seq(W)
  <2>1. GroupRows(chat) = <<first>> \o rest
    BY DEF GroupRows
  <2> HIDE DEF W, first, rest
  <2> QED BY <1>1, <1>3, <2>1
<1>5. Fine(first, names)
  <2>1. "supergroup_chat_id" \in Fixed
    BY DEF Fixed
  <2>2. "supergroup_chat_id" \in Keys /\ Fits("supergroup_chat_id", chat)
    BY <2>1, FixedFits
  <2> QED BY <2>2 DEF Fine
<1>6. ASSUME NEW k \in TopicKeys PROVE Fine(<<k, <<chat, k>>>>, names)
  <2>1. k \notin Fixed /\ k \notin Numbers /\ k \notin Texts /\ k \notin Switches
    BY KeysAssumption DEF Typed
  <2>2. Fits(k, <<chat, k>>)
    BY <2>1 DEF Fits, Fixed
  <2> QED BY <2>1, <2>2 DEF Fine, Keys, Fixed
<1>7. \A w \in W : Fine(w, names)
  BY <1>5, <1>6
<1> HIDE DEF W
<1> QED BY <1>4, <1>7, RowsAreGood

LEMMA WantedIsGood ==
    ASSUME Inductive, NEW S, SessionIs(S, named), S.at = "work", ~Broken(S), ~Refused(S),
           NEW menu, IsList(menu)
    PROVE  GoodRows(Wanted(S, menu), named) /\ Wanted(S, menu) # <<>>
<1> DEFINE F == form[S.who]
<1>0. Given(S) /\ named \subseteq People /\ Env \subseteq People /\ Listed \subseteq named
  BY SettingsAssumption DEF SessionIs, Inductive, TypeOK
<1>1. CASE S.task = "add_admin"
  <2>1. S.arg \in named /\ Admins \cup {S.arg} \subseteq named
    BY <1>0, <1>1 DEF SessionIs, Admins, Inductive
  <2>2. Fine(<<"admin_ids", Admins \cup {S.arg}>>, named)
    BY <1>0, <2>1, FixedFits DEF Fixed, Fine
  <2>3. Wanted(S, menu) = <<<<"admin_ids", Admins \cup {S.arg}>>>>
    BY <1>1 DEF Wanted
  <2> QED BY <2>2, <2>3, OneRowIsGood
<1>2. CASE S.task = "remove"
  <2>1. Fine(<<"admin_ids", Listed \ {S.arg}>>, named)
    BY <1>0, FixedFits DEF Fixed, Fine
  <2>2. Wanted(S, menu) = <<<<"admin_ids", Listed \ {S.arg}>>>>
    BY <1>2 DEF Wanted
  <2> QED BY <2>1, <2>2, OneRowIsGood
<1>3. CASE S.task = "switch"
  <2>1. PICK k \in Switches, v \in {"true", "false"} : S.arg = <<k, v>>
    BY <1>0, <1>3 DEF Given
  <2>2. k \notin TopicKeys /\ k \notin Fixed /\ k \notin Numbers /\ k \notin Texts
    BY KeysAssumption DEF Typed
  <2>3. Fine(<<k, v>>, named)
    BY <2>2 DEF Fine, Fits, Keys, Fixed
  <2>4. Wanted(S, menu) = <<<<k, v>>>>
    BY <1>3, <2>1 DEF Wanted
  <2> QED BY <2>3, <2>4, OneRowIsGood
<1>4. CASE S.task = "set_value"
  <2>1. F.about \in Typed \cup Switches /\ (F.about \in Numbers => S.arg \in Positive)
    BY <1>4 DEF Broken, Refused, Valid
  <2>2. S.arg \in Words
    BY <1>0, <1>4 DEF Given
  <2>3. F.about \notin TopicKeys /\ F.about \notin Fixed
    BY <2>1, KeysAssumption
  <2>4. Fits(F.about, S.arg)
    BY <2>1, <2>2, <2>3 DEF Fits, Fixed
  <2>5. Fine(<<F.about, S.arg>>, named)
    BY <2>1, <2>3, <2>4 DEF Fine, Keys, Fixed
  <2>6. Wanted(S, menu) = <<<<F.about, S.arg>>>>
    BY <1>4 DEF Wanted
  <2> QED BY <2>5, <2>6, OneRowIsGood
<1>5. CASE S.task = "card_holder"
  <2> DEFINE number == <<"card_number", F.card>>
  <2> DEFINE holder == <<"card_holder", S.arg>>
  <2>1. S.who \in People /\ S.arg \in Holders
    BY <1>0, <1>5 DEF Given
  <2>2. F.card \in Cards
    BY <1>5, <2>1 DEF Broken, Inductive, TypeOK, Prompt
  <2>3. Fine(number, named)
    BY <2>2, FixedFits DEF Fixed, Fine
  <2>4. Fine(holder, named)
    BY <2>1, FixedFits DEF Fixed, Fine
  <2>5. Wanted(S, menu) = <<number, holder>>
    BY <1>5 DEF Wanted, CardRows
  <2> HIDE DEF number, holder
  <2>6. PICK W : W = {number, holder}
    OBVIOUS
  <2>7. <<number, holder>> \in Seq(W) /\ \A w \in W : Fine(w, named)
    BY <2>3, <2>4, <2>6
  <2>8. GoodRows(<<number, holder>>, named)
    BY <2>7, RowsAreGood
  <2>9. <<number, holder>> # <<>>
    OBVIOUS
  <2> QED BY <2>5, <2>8, <2>9
<1>6. CASE S.task = "supergroup_chat_id"
  <2>1. S.arg \in Chats
    BY <1>0, <1>6 DEF Given
  <2>2. Wanted(S, menu) = GroupRows(S.arg)
    BY <1>6 DEF Wanted
  <2>3. GroupRows(S.arg) # <<>>
    <3>1. Len(Topics) \in Nat
      BY SettingsAssumption
    <3> DEFINE rest == [i \in 1..Len(Topics) |-> <<Topics[i], <<S.arg, Topics[i]>>>>]
    <3>2. GroupRows(S.arg) = <<<<"supergroup_chat_id", S.arg>>>> \o rest
      BY DEF GroupRows
    <3>3. rest \in Seq({rest[i] : i \in 1..Len(Topics)})
      BY <3>1
    <3> HIDE DEF rest
    <3> QED BY <3>2, <3>3
  <2> QED BY <2>1, <2>2, <2>3, GroupRowsAreGood
<1>7. CASE S.task \notin {"add_admin", "remove", "switch", "set_value", "card_holder",
                         "supergroup_chat_id"}
  <2>1. S.task \in {"edit", "menu_button_text", "menu_button_icon"}
    BY <1>0, <1>7 DEF Given
  <2>2. S.arg \in Edits
    BY <1>0, <2>1 DEF Given
  <2>3. /\ DOMAIN S.arg = {"do", "action", "to"} /\ S.arg.do \in EditKinds
        /\ [S.arg EXCEPT !.action = F.about].do = S.arg.do
    BY <2>2, SettingsAssumption
  <2>4. PICK edit : edit.do \in EditKinds /\ Wanted(S, menu) = MenuRow(menu, edit)
    <3>1. CASE S.task = "edit"
      <4>1. Wanted(S, menu) = MenuRow(menu, S.arg)
        BY <3>1 DEF Wanted
      <4>. QED  BY <2>3, <4>1
    <3>2. CASE S.task # "edit"
      <4>1. Wanted(S, menu) = MenuRow(menu, [S.arg EXCEPT !.action = F.about])
        BY <1>7, <3>2 DEF Wanted
      <4>. QED  BY <2>3, <4>1
    <3> QED BY <3>1, <3>2
  <2>5. IsList(Normalized(Edited(menu, edit)))
    BY <2>4, EditedIsList, NormalizedIsWhole DEF Whole, Tidy
  <2>6. Fine(<<"user_menu_buttons", Normalized(Edited(menu, edit))>>, named)
    BY <2>5, FixedFits DEF Fixed, Fine
  <2>7. Wanted(S, menu) = <<<<"user_menu_buttons", Normalized(Edited(menu, edit))>>>>
    BY <2>4 DEF MenuRow
  <2> QED BY <2>6, <2>7, OneRowIsGood
<1> QED BY <1>1, <1>2, <1>3, <1>4, <1>5, <1>6, <1>7

(* The buttons, whatever is stored.                                        *)
LEMMA ButtonsAreWhole ==
    ASSUME Inductive
    PROVE  Whole(Buttons)
<1>1. CASE table["user_menu_buttons"] = Unset
  BY <1>1, DefaultsAreWhole DEF Buttons
<1>2. CASE table["user_menu_buttons"] # Unset
  <2>1. "user_menu_buttons" \in Keys
    BY DEF Keys, Fixed
  <2>2. IsList(table["user_menu_buttons"])
    BY <1>2, <2>1 DEF Inductive, TypeOK, Fits
  <2> QED BY <1>2, <2>2, NormalizedIsWhole DEF Buttons
<1> QED BY <1>1, <1>2

LEMMA WorkStep ==
    ASSUME Inductive, NEW p \in Procs, Work(p)
    PROVE  Inductive'
<1> DEFINE S == sess[p]
<1>0. SessionIs(S, named) /\ S.at = "work" /\ S.mine = {}
  BY DEF Inductive, Work, SessionIs, Given
<1>1. /\ UNCHANGED <<table, lock, named>> /\ form' \in [People -> Prompt]
      /\ tasks' \in Nat /\ failures' \in 0..MaxFailures
  BY DEF Work, Inductive, TypeOK
<1>2. CASE Broken(S) \/ Refused(S)
  <2>1. sess' = [sess EXCEPT ![p] = Idle]
    BY <1>2 DEF Work, Become
  <2> QED BY <1>0, <1>1, <2>1, IdleIsFine, QuietStep
<1>3. CASE ~Broken(S) /\ ~Refused(S)
  <2>0. PICK menu : menu = Buttons /\ IsList(menu)
    BY ButtonsAreWhole DEF Whole, Tidy
  <2> DEFINE T == [S EXCEPT !.todo = Wanted(S, menu), !.at = "set"]
  <2>1. sess' = [sess EXCEPT ![p] = T]
    BY <1>3, <2>0 DEF Work, Become
  <2>2. /\ IsRecord(T) /\ T.at = "set" /\ T.task = S.task /\ T.arg = S.arg
        /\ T.who = S.who /\ T.todo = Wanted(S, menu) /\ T.dirty = S.dirty /\ T.mine = S.mine
    BY <1>0 DEF SessionIs, IsRecord, Fields
  <2>3. GoodRows(Wanted(S, menu), named) /\ Wanted(S, menu) # <<>>
    BY <1>0, <1>3, <2>0, WantedIsGood
  <2>4. SessionIs(T, named)
    BY <1>0, <2>2, <2>3 DEF SessionIs, Given, Delivered
  <2> HIDE DEF T
  <2> QED BY <1>1, <2>1, <2>2, <2>4, QuietStep
<1> QED BY <1>2, <1>3

LEMMA SetStep ==
    ASSUME Inductive, NEW p \in Procs, Set(p)
    PROVE  Inductive'
<1> DEFINE S == sess[p]
<1> DEFINE key == Head(S.todo)[1]
<1> DEFINE value == Head(S.todo)[2]
<1> DEFINE row == [key |-> key, value |-> value, was |-> table[key]]
<1> DEFINE T == [S EXCEPT !.todo = Tail(S.todo), !.at = Onward(S, Tail(S.todo)),
                 !.dirty = IF table[key] = value THEN {} ELSE {row}]
<1>0. SessionIs(S, named) /\ S.at = "set" /\ S.todo # <<>>
  BY DEF Inductive, Set, SessionIs
<1>1. /\ sess' = [sess EXCEPT ![p] = T] /\ UNCHANGED <<table, lock, named>>
      /\ form' \in [People -> Prompt] /\ tasks' \in Nat /\ failures' \in 0..MaxFailures
  BY DEF Set, Become, Inductive, TypeOK
<1>2. Fine(Head(S.todo), named) /\ GoodRows(Tail(S.todo), named)
  BY <1>0, RestIsGood DEF SessionIs
<1>3. Fine(<<row.key, row.value>>, named)
  BY <1>2 DEF Fine
<1>4. /\ Onward(S, Tail(S.todo)) \in {"set", "topic", "clear", "commit"}
      /\ Onward(S, Tail(S.todo)) \in {"set", "topic"} => Tail(S.todo) # <<>>
  BY DEF Onward
<1>5. /\ IsRecord(T) /\ T.at = Onward(S, Tail(S.todo)) /\ T.task = S.task /\ T.arg = S.arg
      /\ T.who = S.who /\ T.todo = Tail(S.todo) /\ T.mine = S.mine
      /\ T.dirty \subseteq {row}
  <2> HIDE DEF row
  <2> QED BY <1>0 DEF SessionIs, IsRecord, Fields
<1>6. \A d \in T.dirty : Fine(<<d.key, d.value>>, named)
  <2> HIDE DEF row, T
  <2> QED BY <1>3, <1>5
<1> HIDE DEF T
<1>7. SessionIs(T, named)
  BY <1>0, <1>2, <1>4, <1>5, <1>6 DEF SessionIs, Given, Delivered
<1> QED BY <1>1, <1>5, <1>7, QuietStep

LEMMA TopicStep ==
    ASSUME Inductive, NEW p \in Procs, Topic(p)
    PROVE  Inductive'
<1> DEFINE S == sess[p]
<1>0. SessionIs(S, named) /\ S.at = "topic" /\ S.todo # <<>>
  BY DEF Inductive, Topic, SessionIs
<1>1. /\ UNCHANGED <<table, lock, named>> /\ form' \in [People -> Prompt] /\ tasks' \in Nat
  BY DEF Topic, Inductive, TypeOK
<1>2. CASE Become(p, [S EXCEPT !.at = "set"]) /\ UNCHANGED failures
  <2> DEFINE T == [S EXCEPT !.at = "set"]
  <2>1. /\ IsRecord(T) /\ T.at = "set" /\ T.task = S.task /\ T.arg = S.arg
        /\ T.who = S.who /\ T.todo = S.todo /\ T.dirty = S.dirty /\ T.mine = S.mine
    BY <1>0 DEF SessionIs, IsRecord, Fields
  <2>2. sess' = [sess EXCEPT ![p] = T] /\ failures' \in 0..MaxFailures
    BY <1>2 DEF Become, Inductive, TypeOK
  <2>3. SessionIs(T, named)
    BY <1>0, <2>1 DEF SessionIs, Given, Delivered
  <2> HIDE DEF T
  <2> QED BY <1>1, <2>1, <2>2, <2>3, QuietStep
<1>3. CASE Fails /\ Become(p, [S EXCEPT !.todo = <<>>, !.at = "clear"])
  <2> DEFINE T == [S EXCEPT !.todo = <<>>, !.at = "clear"]
  <2>1. /\ IsRecord(T) /\ T.at = "clear" /\ T.task = S.task /\ T.arg = S.arg
        /\ T.who = S.who /\ T.todo = <<>> /\ T.dirty = S.dirty /\ T.mine = S.mine
    BY <1>0 DEF SessionIs, IsRecord, Fields
  <2>2. sess' = [sess EXCEPT ![p] = T]
    BY <1>3 DEF Become
  <2>3. failures' \in 0..MaxFailures
    BY <1>3, SettingsAssumption DEF Fails, Inductive, TypeOK
  <2>4. GoodRows(<<>>, named)
    BY IdleIsFine DEF SessionIs, Idle
  <2>5. SessionIs(T, named)
    BY <1>0, <2>1, <2>4 DEF SessionIs, Given, Delivered
  <2> HIDE DEF T
  <2> QED BY <1>1, <2>1, <2>2, <2>3, <2>5, QuietStep
<1> QED BY <1>2, <1>3 DEF Topic

(* A row is locked by the handler that writes it.                          *)
LEMMA LockStep ==
    ASSUME Inductive, NEW p \in Procs, NEW S,
           sess' = [sess EXCEPT ![p] = S], SessionIs(S, named),
           UNCHANGED <<table, form, named, tasks, failures>>,
           NEW key \in Keys, lock[key] \in {Free, p}, lock' = [lock EXCEPT ![key] = p],
           sess[p].mine \subseteq S.mine, \E w \in S.mine : w[1] = key
    PROVE  Inductive'
<1>1. \A k \in Keys : lock'[k] = IF k = key THEN p ELSE lock[k]
  BY DEF Inductive, TypeOK
<1>2. \A k \in Keys : lock'[k] = p => \E w \in S.mine : w[1] = k
  BY <1>1 DEF Inductive, TypeOK
<1>3. \A k \in Keys, q \in Procs \ {p} : lock'[k] = q => lock[k] = q
  BY <1>1
<1>4. lock' \in [Keys -> Procs \cup {Free}]
  BY DEF Inductive, TypeOK
<1>5. Listed' = Listed
  BY DEF Listed
<1> QED BY <1>2, <1>3, <1>4, <1>5, OneSession DEF Inductive, TypeOK

LEMMA FlushStep ==
    ASSUME Inductive, NEW p \in Procs, Flush(p)
    PROVE  Inductive'
<1> DEFINE S == sess[p]
<1>0. SessionIs(S, named) /\ S.at \in {"set", "commit"}
  BY DEF Inductive, Flush
<1>1. PICK d \in S.dirty :
        /\ lock[d.key] \in {Free, p}
        /\ IF d.was = Unset /\ table[d.key] # Unset THEN End(p)
           ELSE /\ lock' = [lock EXCEPT ![d.key] = p]
                /\ Become(p, [S EXCEPT !.dirty = {}, !.mine = @ \cup {<<d.key, d.value>>}])
  BY DEF Flush
<1>2. UNCHANGED <<table, form, named, tasks, failures>>
  BY DEF Flush
<1>3. CASE End(p)
  <2>1. /\ DOMAIN table' = Keys /\ (\A k \in Keys : table'[k] # Unset => Fits(k, table'[k]))
        /\ Listed' \subseteq named /\ failures' \in 0..MaxFailures
    BY <1>2 DEF Inductive, TypeOK, Listed
  <2> QED BY <1>2, <1>3, <2>1, EndStep
<1>4. CASE /\ lock' = [lock EXCEPT ![d.key] = p]
           /\ Become(p, [S EXCEPT !.dirty = {}, !.mine = @ \cup {<<d.key, d.value>>}])
  <2> DEFINE row == <<d.key, d.value>>
  <2> DEFINE T == [S EXCEPT !.dirty = {}, !.mine = S.mine \cup {row}]
  <2>1. sess' = [sess EXCEPT ![p] = T]
    BY <1>4 DEF Become
  <2>2. Fine(row, named) /\ d.key \in Keys /\ row[1] = d.key
    BY <1>0 DEF SessionIs, Fine
  <2> HIDE DEF row
  <2>3. /\ IsRecord(T) /\ T.at = S.at /\ T.task = S.task /\ T.arg = S.arg /\ T.seen = S.seen
        /\ T.who = S.who /\ T.todo = S.todo /\ T.dirty = {} /\ T.mine = S.mine \cup {row}
    BY <1>0 DEF SessionIs, IsRecord, Fields
  <2>4. \A x \in T.mine : Fine(x, named)
    BY <1>0, <2>2, <2>3 DEF SessionIs
  <2> HIDE DEF T
  <2>5. SessionIs(T, named)
    BY <1>0, <2>3, <2>4 DEF SessionIs, Given, Delivered
  <2>6. S.mine \subseteq T.mine /\ \E w \in T.mine : w[1] = d.key
    BY <2>2, <2>3
  <2> QED BY <1>1, <1>2, <1>4, <2>1, <2>2, <2>5, <2>6, LockStep
<1> QED BY <1>1, <1>3, <1>4

LEMMA ClearStep ==
    ASSUME Inductive, NEW p \in Procs, Clear(p)
    PROVE  Inductive'
<1> DEFINE S == sess[p]
<1> DEFINE T == [S EXCEPT !.at = "commit"]
<1>0. SessionIs(S, named) /\ S.at = "clear"
  BY DEF Inductive, Clear
<1>1. /\ IsRecord(T) /\ T.at = "commit" /\ T.task = S.task /\ T.arg = S.arg
      /\ T.who = S.who /\ T.todo = S.todo /\ T.dirty = S.dirty /\ T.mine = S.mine
  BY <1>0 DEF SessionIs, IsRecord, Fields
<1>2. SessionIs(T, named)
  BY <1>0, <1>1 DEF SessionIs, Given, Delivered
<1>3. form' \in [People -> Prompt]
  <2>1. NoForm \in Prompt
    BY DEF NoForm, Prompt
  <2> QED BY <2>1 DEF Clear, Inductive, TypeOK
<1>4. /\ sess' = [sess EXCEPT ![p] = T] /\ UNCHANGED <<table, lock, named>>
      /\ tasks' \in Nat /\ failures' \in 0..MaxFailures
  BY DEF Clear, Become, Inductive, TypeOK
<1> HIDE DEF T
<1> QED BY <1>1, <1>2, <1>3, <1>4, QuietStep

LEMMA CommitStep ==
    ASSUME Inductive, NEW p \in Procs, Commit(p)
    PROVE  Inductive'
<1> DEFINE S == sess[p]
<1>0. SessionIs(S, named)
  BY DEF Inductive
<1>1. /\ End(p) /\ UNCHANGED <<form, named, tasks>> /\ failures' \in 0..MaxFailures
      /\ DOMAIN table' = Keys
  BY DEF Commit, Inductive, TypeOK
<1>2. ASSUME NEW k \in Keys
      PROVE  table'[k] = table[k] \/ Fine(<<k, table'[k]>>, named)
  <2>1. CASE \E w \in S.mine : w[1] = k
    <3> DEFINE w == CHOOSE w \in S.mine : w[1] = k
    <3>1. w \in S.mine /\ w[1] = k /\ table'[k] = w[2]
      BY <2>1 DEF Commit
    <3> HIDE DEF w
    <3> QED BY <1>0, <3>1 DEF SessionIs, Fine
  <2>2. CASE ~\E w \in S.mine : w[1] = k
    BY <2>2 DEF Commit
  <2> QED BY <2>1, <2>2
<1>3. \A k \in Keys : table'[k] # Unset => Fits(k, table'[k])
  BY <1>2 DEF Fine, Inductive, TypeOK
<1>4. Listed' \subseteq named
  <2>1. "admin_ids" \in Keys
    BY DEF Keys, Fixed
  <2> QED BY <1>2, <2>1 DEF Fine, Listed, Inductive
<1> QED BY <1>1, <1>3, <1>4, EndStep

LEMMA AbortStep ==
    ASSUME Inductive, NEW p \in Procs, Abort(p)
    PROVE  Inductive'
<1>1. /\ End(p) /\ UNCHANGED <<table, form, named, tasks>>
      /\ Listed' = Listed
  BY DEF Abort, Listed
<1>2. failures' \in 0..MaxFailures
  BY SettingsAssumption DEF Abort, Fails, Inductive, TypeOK
<1>3. /\ DOMAIN table' = Keys /\ \A k \in Keys : table'[k] # Unset => Fits(k, table'[k])
      /\ Listed' \subseteq named
  BY <1>1 DEF Inductive, TypeOK
<1> QED BY <1>1, <1>2, <1>3, EndStep

-----------------------------------------------------------------------------
(* The readers *)

(* A reader moves on: only its place, and what it has read and shown,      *)
(* change.                                                                 *)
LEMMA ReaderStep ==
    ASSUME Inductive, NEW p \in Procs, NEW at, NEW read, NEW seen,
           LET S == sess[p]
               T == [S EXCEPT !.at = at, !.read = read, !.seen = seen]
           IN  /\ sess' = [sess EXCEPT ![p] = T]
               /\ Delivered(T)
               /\ at \in {"thread", "send", "holder", "told", "admins", "each"},
           UNCHANGED <<table, lock, form, named, tasks>>,
           failures' \in 0..MaxFailures
    PROVE  Inductive'
<1> DEFINE S == sess[p]
<1> DEFINE T == [S EXCEPT !.at = at, !.read = read, !.seen = seen]
<1>0. SessionIs(S, named)
  BY DEF Inductive
<1>1. /\ IsRecord(T) /\ T.at = at /\ T.task = S.task /\ T.arg = S.arg
      /\ T.who = S.who /\ T.todo = S.todo /\ T.dirty = S.dirty /\ T.mine = S.mine
  BY <1>0 DEF SessionIs, IsRecord, Fields
<1>2. Delivered(T) /\ sess' = [sess EXCEPT ![p] = T]
  OBVIOUS
<1> HIDE DEF T
<1>3. SessionIs(T, named)
  BY <1>0, <1>1, <1>2 DEF SessionIs, Given
<1>4. form' \in [People -> Prompt] /\ tasks' \in Nat
  BY DEF Inductive, TypeOK
<1> QED BY <1>1, <1>2, <1>3, <1>4, QuietStep

LEMMA ReadsStep ==
    ASSUME Inductive, NEW p \in Procs,
           ReadChat(p) \/ ReadThread(p) \/ ReadNumber(p) \/ ReadHolder(p)
    PROVE  Inductive'
<1> DEFINE S == sess[p]
<1>0. IsRecord(S) /\ Delivered(S) /\ failures \in 0..MaxFailures
  BY DEF Inductive, SessionIs, TypeOK
<1>1. CASE ReadChat(p)
  <2> DEFINE c == table["supergroup_chat_id"]
  <2> DEFINE T == [S EXCEPT !.at = "thread", !.read = <<c>>, !.seen = S.seen]
  <2>1. c \in Chats \cup {Unset}
    <3>1. "supergroup_chat_id" \in Keys
      BY DEF Keys, Fixed
    <3> QED BY <3>1 DEF Inductive, TypeOK, Fits
  <2>2. S.at = "chat" /\ S.read = <<>> /\ S.task = "receipt"
    BY <1>0, <1>1 DEF ReadChat, Reads, Delivered
  <2>3. sess' = [sess EXCEPT ![p] = [S EXCEPT !.at = "thread", !.read = Append(S.read, c)]]
    BY <1>1 DEF ReadChat, Reads, Become
  <2> HIDE DEF c
  <2>4. Append(S.read, c) = <<c>>
    BY <2>2
  <2>5. /\ T.at = "thread" /\ T.task = S.task /\ T.read = <<c>>
        /\ T = [S EXCEPT !.at = "thread", !.read = <<c>>]
    BY <1>0 DEF IsRecord, Fields
  <2>6. Delivered(T)
    BY <2>1, <2>2, <2>5 DEF Delivered
  <2>7. sess' = [sess EXCEPT ![p] = T]
    BY <2>3, <2>4, <2>5
  <2> QED BY <1>0, <1>1, <2>6, <2>7, ReaderStep DEF ReadChat, Reads
<1>2. CASE ReadThread(p)
  <2> DEFINE t == table[Receipts]
  <2>1. S.at = "thread" /\ S.task = "receipt"
    BY <1>0, <1>2 DEF ReadThread, Reads, Delivered
  <2>2. PICK c \in Chats \cup {Unset} : S.read = <<c>>
    BY <1>0, <2>1 DEF Delivered
  <2> DEFINE r == Append(S.read, t)
  <2> DEFINE T == [S EXCEPT !.at = "send", !.read = r, !.seen = S.seen]
  <2>3. sess' = [sess EXCEPT ![p] = [S EXCEPT !.at = "send", !.read = r]]
    BY <1>2 DEF ReadThread, Reads, Become
  <2> HIDE DEF t
  <2>4. r[1] = c
    BY <2>2
  <2> HIDE DEF r
  <2>5. /\ T.at = "send" /\ T.task = S.task /\ T.read = r
        /\ T = [S EXCEPT !.at = "send", !.read = r]
    BY <1>0 DEF IsRecord, Fields
  <2>6. Delivered(T)
    <3> HIDE DEF T
    <3> QED BY <2>1, <2>2, <2>4, <2>5 DEF Delivered
  <2>7. sess' = [sess EXCEPT ![p] = T]
    BY <2>3, <2>5
  <2> QED BY <1>0, <1>2, <2>6, <2>7, ReaderStep DEF ReadThread, Reads
<1>3. CASE ReadNumber(p)
  <2> DEFINE r == Append(S.read, table["card_number"])
  <2> DEFINE T == [S EXCEPT !.at = "holder", !.read = r, !.seen = S.seen]
  <2>1. S.task = "charge"
    BY <1>0, <1>3 DEF ReadNumber, Reads, Delivered
  <2>2. sess' = [sess EXCEPT ![p] = [S EXCEPT !.at = "holder", !.read = r]]
    BY <1>3 DEF ReadNumber, Reads, Become
  <2> HIDE DEF r
  <2>3. /\ T.at = "holder" /\ T.task = S.task /\ T = [S EXCEPT !.at = "holder", !.read = r]
    BY <1>0 DEF IsRecord, Fields
  <2>4. Delivered(T)
    BY <2>1, <2>3 DEF Delivered
  <2>5. sess' = [sess EXCEPT ![p] = T]
    BY <2>2, <2>3
  <2> QED BY <1>0, <1>3, <2>4, <2>5, ReaderStep DEF ReadNumber, Reads
<1>4. CASE ReadHolder(p)
  <2> DEFINE r == Append(S.read, table["card_holder"])
  <2> DEFINE T == [S EXCEPT !.at = "told", !.read = r, !.seen = S.seen]
  <2>1. S.task = "charge"
    BY <1>0, <1>4 DEF ReadHolder, Reads, Delivered
  <2>2. sess' = [sess EXCEPT ![p] = [S EXCEPT !.at = "told", !.read = r]]
    BY <1>4 DEF ReadHolder, Reads, Become
  <2> HIDE DEF r
  <2>3. /\ T.at = "told" /\ T.task = S.task /\ T = [S EXCEPT !.at = "told", !.read = r]
    BY <1>0 DEF IsRecord, Fields
  <2>4. Delivered(T)
    BY <2>1, <2>3 DEF Delivered
  <2>5. sess' = [sess EXCEPT ![p] = T]
    BY <2>2, <2>3
  <2> QED BY <1>0, <1>4, <2>4, <2>5, ReaderStep DEF ReadHolder, Reads
<1> QED BY <1>1, <1>2, <1>3, <1>4

LEMMA SendStep ==
    ASSUME Inductive, NEW p \in Procs, Send(p)
    PROVE  Inductive'
<1> DEFINE S == sess[p]
<1>0. IsRecord(S) /\ Delivered(S) /\ S.at = "send" /\ S.task = "receipt"
  BY DEF Inductive, SessionIs, Send, Delivered
<1> DEFINE c == S.read[1]
<1>1. c \in Chats \cup {Unset}
  BY <1>0 DEF Delivered
<1>2. UNCHANGED <<table, lock, form, named, tasks>>
  BY DEF Send
<1>3. failures' \in 0..MaxFailures
  BY SettingsAssumption DEF Send, Fails, Inductive, TypeOK
<1>4. ASSUME Become(p, Fallback(S)) PROVE Inductive'
  <2> DEFINE T == [S EXCEPT !.at = "admins", !.read = S.read, !.seen = S.seen]
  <2>1. T.at = "admins" /\ T.task = "receipt" /\ T = [S EXCEPT !.at = "admins"]
    BY <1>0 DEF IsRecord, Fields
  <2>2. Delivered(T)
    BY <2>1 DEF Delivered
  <2>3. sess' = [sess EXCEPT ![p] = T]
    BY <1>4, <2>1 DEF Become, Fallback
  <2> QED BY <1>2, <1>3, <2>2, <2>3, ReaderStep
<1>5. ASSUME c # Unset, Become(p, [S EXCEPT !.at = "told", !.seen = {c}])
      PROVE  Inductive'
  <2> DEFINE T == [S EXCEPT !.at = "told", !.read = S.read, !.seen = {c}]
  <2>1. /\ T.at = "told" /\ T.task = "receipt" /\ T.seen = {c}
        /\ T = [S EXCEPT !.at = "told", !.seen = {c}]
    BY <1>0 DEF IsRecord, Fields
  <2>2. Delivered(T)
    BY <1>1, <1>5, <2>1 DEF Delivered
  <2>3. sess' = [sess EXCEPT ![p] = T]
    BY <1>5, <2>1 DEF Become
  <2> QED BY <1>2, <1>3, <2>2, <2>3, ReaderStep
<1>6. \/ Become(p, Fallback(S))
      \/ c # Unset /\ Become(p, [S EXCEPT !.at = "told", !.seen = {c}])
  BY DEF Send
<1> QED BY <1>4, <1>5, <1>6

LEMMA ReadAdminsStep ==
    ASSUME Inductive, NEW p \in Procs, ReadAdmins(p)
    PROVE  Inductive'
<1> DEFINE S == sess[p]
<1> DEFINE T == [S EXCEPT !.at = "each", !.read = <<Admins>>, !.seen = S.seen]
<1>0. /\ IsRecord(S) /\ Delivered(S) /\ S.at = "admins" /\ S.task = "receipt"
      /\ failures \in 0..MaxFailures
  BY DEF Inductive, SessionIs, ReadAdmins, Delivered, TypeOK
<1>1. /\ T.at = "each" /\ T.task = "receipt" /\ T.read = <<Admins>>
      /\ T = [S EXCEPT !.at = "each", !.read = <<Admins>>]
  BY <1>0 DEF IsRecord, Fields
<1>2. Delivered(T)
  BY <1>1 DEF Delivered, Admins
<1>3. sess' = [sess EXCEPT ![p] = T]
  BY <1>1 DEF ReadAdmins, Become
<1> QED BY <1>0, <1>2, <1>3, ReaderStep DEF ReadAdmins

LEMMA SendEachStep ==
    ASSUME Inductive, NEW p \in Procs, SendEach(p)
    PROVE  Inductive'
<1> DEFINE S == sess[p]
<1>0. /\ IsRecord(S) /\ Delivered(S) /\ S.at = "each" /\ S.task = "receipt"
      /\ failures \in 0..MaxFailures
  BY DEF Inductive, SessionIs, SendEach, Delivered, TypeOK
<1>1. PICK A : S.read = <<A>> /\ Env \subseteq A
  BY <1>0 DEF Delivered
<1>2. CASE A \ S.seen = {}
  <2> DEFINE T == [S EXCEPT !.at = "told", !.read = S.read, !.seen = S.seen]
  <2>1. T.at = "told" /\ T.seen = S.seen /\ T = [S EXCEPT !.at = "told"]
    BY <1>0 DEF IsRecord, Fields
  <2>2. Delivered(T)
    BY <1>1, <1>2, <2>1 DEF Delivered
  <2>3. sess' = [sess EXCEPT ![p] = T]
    BY <1>1, <1>2, <2>1 DEF SendEach, Become
  <2> QED BY <1>0, <2>2, <2>3, ReaderStep DEF SendEach
<1>3. CASE A \ S.seen # {}
  <2>1. PICK a \in A \ S.seen : Become(p, [S EXCEPT !.seen = @ \cup {a}])
    BY <1>1, <1>3 DEF SendEach
  <2> DEFINE T == [S EXCEPT !.at = "each", !.read = S.read, !.seen = S.seen \cup {a}]
  <2>2. /\ T.at = "each" /\ T.read = <<A>> /\ T.task = "receipt"
        /\ T = [S EXCEPT !.seen = S.seen \cup {a}]
    BY <1>0, <1>1 DEF IsRecord, Fields
  <2>3. Delivered(T)
    BY <1>1, <2>2 DEF Delivered
  <2>4. sess' = [sess EXCEPT ![p] = T]
    BY <2>1, <2>2 DEF Become
  <2> QED BY <1>0, <2>3, <2>4, ReaderStep DEF SendEach
<1> QED BY <1>2, <1>3

LEMMA TellStep ==
    ASSUME Inductive, NEW p \in Procs, Tell(p)
    PROVE  Inductive'
<1>1. /\ End(p) /\ UNCHANGED <<table, form, named, tasks>> /\ Listed' = Listed
      /\ failures' \in 0..MaxFailures
  BY DEF Tell, Listed, Inductive, TypeOK
<1>2. /\ DOMAIN table' = Keys /\ \A k \in Keys : table'[k] # Unset => Fits(k, table'[k])
      /\ Listed' \subseteq named
  BY <1>1 DEF Inductive, TypeOK
<1> QED BY <1>1, <1>2, EndStep

-----------------------------------------------------------------------------
LEMMA NextInductive == Inductive /\ [Next]_vars => Inductive'
<1> SUFFICES ASSUME Inductive, [Next]_vars PROVE Inductive'
  OBVIOUS
<1>1. CASE UNCHANGED vars
  <2>1. UNCHANGED <<table, lock, sess, form, named, tasks, failures>>
    BY <1>1 DEF vars
  <2>2. TypeOK'
    BY <2>1 DEF Inductive, TypeOK
  <2>3. Listed' = Listed
    BY <2>1 DEF Listed
  <2> QED BY <2>1, <2>2, <2>3 DEF Inductive
<1>2. CASE Next
  <2>1. PICK p \in Procs :
          \/ \E a \in named : Press(p, a) \/ Type(p, a)
          \/ Ask(p) \/ Step(p) \/ Abort(p)
    BY <1>2 DEF Next
  <2>2. CASE \E a \in named : Press(p, a) \/ Type(p, a)
    <3>1. named \subseteq People
      BY DEF Inductive, TypeOK
    <3> QED BY <2>2, <3>1, PressStep, TypeStep
  <2>3. CASE Step(p)
    BY <2>3, CheckStep, FillStep, SetStateStep, WorkStep, SetStep, TopicStep, FlushStep,
       ClearStep, CommitStep, ReadsStep, SendStep, ReadAdminsStep, SendEachStep, TellStep
       DEF Step
  <2> QED BY <2>1, <2>2, <2>3, AskStep, AbortStep
<1> QED BY <1>1, <1>2

LEMMA AlwaysInductive == Spec => []Inductive
BY InitInductive, NextInductive, PTL DEF Spec

(* Whatever admins type and however their dialogues overlap, every key     *)
(* holds what its readers can deal with: the prices that are checked stay  *)
(* positive numbers.                                                       *)
THEOREM TypeCorrect == Spec => []TypeOK
<1>1. Inductive => TypeOK
  BY DEF Inductive
<1> QED BY <1>1, AlwaysInductive, PTL

(* An admin who has been removed appoints nobody, however old the dialogue *)
(* or the keyboard he still has.                                           *)
THEOREM OnlyAdminsAppoint == Spec => []AppointedByAdmins
<1>1. Inductive => AppointedByAdmins
  BY DEF Inductive, AppointedByAdmins
<1> QED BY <1>1, AlwaysInductive, PTL

(* A receipt that is reported as sent has reached the group or every admin *)
(* of the environment, in any state of the group's configuration.          *)
THEOREM ReceiptsAreShown == Spec => []ReceiptIsShown
<1>1. Inductive => ReceiptIsShown
  BY DEF Inductive, SessionIs, Delivered, ReceiptIsShown
<1> QED BY <1>1, AlwaysInductive, PTL

(* Whatever list of buttons an older version has stored and however it is  *)
(* edited, the menu has each action once, and a move is undone by the      *)
(* opposite one.                                                           *)
THEOREM MenusAreWhole == Spec => []MenuIsWhole
<1>1. ASSUME Inductive PROVE MenuIsWhole
  <2>1. PICK menu : menu = Buttons /\ Whole(menu)
    BY <1>1, ButtonsAreWhole
  <2>2. Len(menu) = Len(Default)
    BY <2>1, WholeLength
  <2>3. \A a \in Actions : Has(menu, a)
    BY <2>1 DEF Whole
  <2>4. \A a \in Actions, d \in Directions : CanMove(menu, a, d) =>
           /\ CanMove(Moved(menu, a, d), a, Opposite[d])
           /\ Moved(Moved(menu, a, d), a, Opposite[d]) = menu
    BY <2>1, MovesAreUndone
  <2> QED BY <2>1, <2>2, <2>3, <2>4 DEF MenuIsWhole
<1> QED BY <1>1, AlwaysInductive, PTL
=============================================================================
