--------------------------- MODULE GoOrderProofs ---------------------------
(***************************************************************************)
(* Proofs about GoOrder.tla: the slices that callers of the queue in Go    *)
(* hold, for any number of groups, callers and arrays of any length.       *)
(***************************************************************************)
EXTENDS GoOrder, SequenceTheorems, TLAPS

Current == arrays[order.array]

\* A function on 1..n is a sequence.
LEMMA ListOf ==
  ASSUME NEW S, NEW n \in Nat, NEW f \in [1..n -> S]
  PROVE  f \in Seq(S) /\ Len(f) = n
  OBVIOUS

\* The invariant, place by place: of the queue's own slice and of one in a caller's
\* hands.
LineHolds ==
  /\ Len(line) = order.len
  /\ \A i \in 1..order.len : line[i] = Current[i]
  /\ \A i, j \in 1..order.len : i < j => line[i] < line[j]

SliceHolds(s) ==
  /\ s \in [call: {"groups", "clear"}, slice: [array: Nat, len: Nat],
            shown: Seq(0..admitted), left: BOOLEAN]
  /\ Fits(s.slice)
  /\ Len(s.shown) = s.slice.len
  /\ s.slice.array = order.array /\ s.slice.len > 0
       => s.call # "clear" /\ (~ s.left => s.slice.len <= order.len)
  /\ s.call = "clear" \/ ~ s.left
       => \A i \in 1..s.slice.len : arrays[s.slice.array][i] = s.shown[i]
  /\ \A i \in 1..s.slice.len : s.shown[i] <= arrays[s.slice.array][i]
  /\ \A i \in 1..s.slice.len : \A k \in 1..order.len : line[k] = s.shown[i]
       => \E j \in 1..s.slice.len : arrays[s.slice.array][j] = s.shown[i]

PlaceByPlace ==
  /\ admitted \in Nat
  /\ arrays \in Seq(Seq(0..admitted))
  /\ line \in Seq(1..admitted)
  /\ Fits(order)
  /\ LineHolds
  /\ \A s \in held : SliceHolds(s)
-----------------------------------------------------------------------------
\* What the invariant says of the queue's own slice.
LEMMA OrderFacts ==
  ASSUME IInv
  PROVE  /\ admitted \in Nat /\ order.len \in Nat /\ Len(arrays) \in Nat
         /\ DOMAIN arrays = 1..Len(arrays)
         /\ \A a \in DOMAIN arrays : /\ arrays[a] \in Seq(0..admitted)
                                     /\ Len(arrays[a]) \in Nat
                                     /\ DOMAIN arrays[a] = 1..Len(arrays[a])
                                     /\ \A i \in DOMAIN arrays[a] : arrays[a][i] \in 0..admitted
         /\ order = [array |-> order.array, len |-> order.len]
         /\ order.array \in 0..Len(arrays)
         /\ order.array = 0 => order.len = 0
         /\ order.array # 0 => /\ order.array \in DOMAIN arrays
                               /\ order.len <= Len(Current)
         /\ line \in Seq(1..admitted) /\ Len(line) = order.len /\ DOMAIN line = 1..order.len
         /\ \A i \in 1..order.len : line[i] = Current[i] /\ line[i] \in 1..admitted
         /\ \A i, j \in 1..order.len : i < j => line[i] < line[j]
  <1>1. /\ admitted \in Nat /\ arrays \in Seq(Seq(0..admitted)) /\ line \in Seq(1..admitted)
        /\ Fits(order)
    BY DEF IInv, TypeOK
  <1>2. /\ order.len \in Nat /\ Len(arrays) \in Nat /\ DOMAIN arrays = 1..Len(arrays)
        /\ order = [array |-> order.array, len |-> order.len]
        /\ order.array \in 0..Len(arrays)
        /\ order.array = 0 => order.len = 0
        /\ order.array # 0 => order.array \in DOMAIN arrays /\ order.len <= Len(Current)
    BY <1>1 DEF Fits, Current
  <1>3. ASSUME NEW a \in DOMAIN arrays
        PROVE  /\ arrays[a] \in Seq(0..admitted) /\ Len(arrays[a]) \in Nat
               /\ DOMAIN arrays[a] = 1..Len(arrays[a])
               /\ \A i \in DOMAIN arrays[a] : arrays[a][i] \in 0..admitted
    BY <1>1
  <1>4. line = [i \in 1..order.len |-> Current[i]]
    BY DEF IInv, OrderIsLine, Shows, Current
  <1>5. Len(line) = order.len /\ DOMAIN line = 1..order.len
    BY <1>1, <1>2, <1>4
  <1>6. \A i \in 1..order.len : line[i] = Current[i] /\ line[i] \in 1..admitted
    BY <1>1, <1>4, <1>5, ElementOfSeq
  <1>7. \A i, j \in 1..order.len : i < j => line[i] < line[j]
    BY <1>5 DEF IInv
  <1> QED
    BY <1>1, <1>2, <1>3, <1>5, <1>6, <1>7

\* What the invariant says of a slice that a caller holds.
LEMMA HeldFacts ==
  ASSUME IInv, NEW s \in held
  PROVE  /\ s = [call |-> s.call, slice |-> s.slice, shown |-> s.shown, left |-> s.left]
         /\ s.call \in {"groups", "clear"} /\ s.left \in BOOLEAN
         /\ s.slice = [array |-> s.slice.array, len |-> s.slice.len]
         /\ s.slice.array \in 0..Len(arrays) /\ s.slice.len \in Nat
         /\ s.slice.len > 0 => /\ s.slice.array \in DOMAIN arrays
                               /\ s.slice.len <= Len(arrays[s.slice.array])
         /\ s.shown \in Seq(0..admitted) /\ Len(s.shown) = s.slice.len
         /\ \A i \in 1..s.slice.len : s.shown[i] \in 0..admitted
         /\ s.slice.array = order.array /\ s.slice.len > 0
              => s.call # "clear" /\ (~ s.left => s.slice.len <= order.len)
         /\ s.call = "clear" \/ ~ s.left
              => \A i \in 1..s.slice.len : arrays[s.slice.array][i] = s.shown[i]
         /\ \A i \in 1..s.slice.len : s.shown[i] <= arrays[s.slice.array][i]
         /\ \A i \in 1..s.slice.len : \A k \in 1..order.len : line[k] = s.shown[i]
              => \E j \in 1..s.slice.len : arrays[s.slice.array][j] = s.shown[i]
  <1>1. /\ s \in [call: {"groups", "clear"}, slice: [array: Nat, len: Nat],
                  shown: Seq(0..admitted), left: BOOLEAN]
        /\ Fits(s.slice)
        /\ Len(s.shown) = s.slice.len
    BY DEF IInv, TypeOK
  <1>2. /\ s.slice = [array |-> s.slice.array, len |-> s.slice.len]
        /\ s.slice.array \in 0..Len(arrays) /\ s.slice.len \in Nat
        /\ s.slice.len > 0 => /\ s.slice.array \in DOMAIN arrays
                              /\ s.slice.len <= Len(arrays[s.slice.array])
    BY <1>1, OrderFacts DEF Fits
  <1>3. \A i \in 1..s.slice.len : s.shown[i] \in 0..admitted
    BY <1>1, <1>2, ElementOfSeq
  <1> DEFINE now == Shows(s.slice)
  <1>4. /\ DOMAIN now = 1..s.slice.len
        /\ \A i \in 1..s.slice.len : now[i] = arrays[s.slice.array][i]
    BY DEF Shows
  <1>5. s.call = "clear" \/ ~ s.left => now = s.shown
    BY DEF IInv, ClearedStays, ListsHoldUntilDeparture
  <1>6. /\ \A i \in DOMAIN now : s.shown[i] <= now[i]
        /\ \A i \in DOMAIN now : (\E k \in DOMAIN line : line[k] = s.shown[i])
                                   => \E j \in DOMAIN now : now[j] = s.shown[i]
    BY DEF IInv, ListsOnlyMoveOn
  <1>7. DOMAIN line = 1..order.len
    BY OrderFacts
  <1> HIDE DEF now
  <1>8. s.call = "clear" \/ ~ s.left
          => \A i \in 1..s.slice.len : arrays[s.slice.array][i] = s.shown[i]
    BY <1>4, <1>5
  <1>9. \A i \in 1..s.slice.len : s.shown[i] <= arrays[s.slice.array][i]
    BY <1>4, <1>6
  <1>10. \A i \in 1..s.slice.len : \A k \in 1..order.len : line[k] = s.shown[i]
              => \E j \in 1..s.slice.len : arrays[s.slice.array][j] = s.shown[i]
    BY <1>4, <1>6, <1>7
  <1>11. s.slice.array = order.array /\ s.slice.len > 0
           => s.call # "clear" /\ (~ s.left => s.slice.len <= order.len)
    BY DEF IInv, WritesBehind
  <1> QED
    BY <1>1, <1>2, <1>3, <1>8, <1>9, <1>10, <1>11

LEMMA FromPlaces == PlaceByPlace => IInv
  <1> SUFFICES ASSUME PlaceByPlace PROVE IInv
    OBVIOUS
  <1>1. TypeOK
    BY DEF PlaceByPlace, SliceHolds, TypeOK
  <1>2. order.len \in Nat /\ DOMAIN line = 1..order.len
    BY DEF PlaceByPlace, LineHolds, Fits
  <1>3. \A i, j \in DOMAIN line : i < j => line[i] < line[j]
    BY <1>2 DEF PlaceByPlace, LineHolds
  <1>4. OrderIsLine
    <2>1. line = [i \in 1..order.len |-> line[i]]
      BY <1>2 DEF PlaceByPlace
    <2>2. \A i \in 1..order.len : line[i] = arrays[order.array][i]
      BY DEF PlaceByPlace, LineHolds, Current
    <2> QED
      BY <2>1, <2>2 DEF OrderIsLine, Shows
  <1>5. WritesBehind
    BY DEF PlaceByPlace, SliceHolds, WritesBehind
  <1>6. ASSUME NEW s \in held
        PROVE  /\ s.shown = [i \in 1..s.slice.len |-> s.shown[i]]
               /\ DOMAIN Shows(s.slice) = 1..s.slice.len
               /\ \A i \in 1..s.slice.len : Shows(s.slice)[i] = arrays[s.slice.array][i]
    <2>1. s.shown \in Seq(0..admitted) /\ Len(s.shown) = s.slice.len
      BY DEF PlaceByPlace, SliceHolds
    <2> QED
      BY <2>1 DEF Shows
  <1>7. ASSUME NEW s \in held, s.call = "clear" \/ ~ s.left
        PROVE  Shows(s.slice) = s.shown
    <2>1. \A i \in 1..s.slice.len : arrays[s.slice.array][i] = s.shown[i]
      BY <1>7 DEF PlaceByPlace, SliceHolds
    <2>2. Shows(s.slice) = [i \in 1..s.slice.len |-> s.shown[i]]
      BY <2>1 DEF Shows
    <2> QED
      BY <1>6, <2>2
  <1>8. ListsOnlyMoveOn
    <2> SUFFICES ASSUME NEW s \in held
                 PROVE  LET now == Shows(s.slice)
                        IN  /\ \A i \in DOMAIN now : s.shown[i] <= now[i]
                            /\ \A i \in DOMAIN now :
                                 (\E k \in DOMAIN line : line[k] = s.shown[i])
                                   => \E j \in DOMAIN now : now[j] = s.shown[i]
      BY DEF ListsOnlyMoveOn
    <2>1. /\ \A i \in 1..s.slice.len : s.shown[i] <= arrays[s.slice.array][i]
          /\ \A i \in 1..s.slice.len : \A k \in 1..order.len : line[k] = s.shown[i]
               => \E j \in 1..s.slice.len : arrays[s.slice.array][j] = s.shown[i]
      BY DEF PlaceByPlace, SliceHolds
    <2> QED
      BY <1>2, <1>6, <2>1, ZenonT(60)
  <1> QED
    BY <1>1, <1>3, <1>4, <1>5, <1>7, <1>8 DEF IInv, ClearedStays, ListsHoldUntilDeparture
-----------------------------------------------------------------------------
\* The steps.

\* append leaves every place of every array alone but the one behind the end of the
\* slice, or writes into an array of its own.
LEMMA AppendWrites ==
  ASSUME IInv, NEW g \in Nat, g = admitted + 1, AppendTo(g)
  PROVE  /\ arrays' \in Seq(Seq(0..g))
         /\ DOMAIN arrays \subseteq DOMAIN arrays'
         /\ \A a \in DOMAIN arrays :
              /\ Len(arrays'[a]) = Len(arrays[a])
              /\ \A i \in DOMAIN arrays[a] :
                   \/ arrays'[a][i] = arrays[a][i]
                   \/ a = order'.array /\ i = order.len + 1 /\ arrays'[a][i] = g
         /\ order' = [array |-> order'.array, len |-> order.len + 1]
         /\ order'.array \in DOMAIN arrays'
         /\ order'.array \in DOMAIN arrays => order'.array = order.array
         /\ order.len + 1 <= Len(arrays'[order'.array])
         /\ \A i \in 1..order.len : arrays'[order'.array][i] = line[i]
         /\ arrays'[order'.array][order.len + 1] = g
  <1>1. CASE order.array # 0 /\ order.len < Len(arrays[order.array])
    <2>1. /\ arrays' = [arrays EXCEPT ![order.array][order.len + 1] = g]
          /\ order' = [order EXCEPT !.len = @ + 1]
      BY <1>1 DEF AppendTo
    <2>2. order' = [array |-> order.array, len |-> order.len + 1]
      BY <2>1, OrderFacts
    <2>3. order.array \in DOMAIN arrays /\ order.len + 1 \in DOMAIN Current
      BY <1>1, OrderFacts DEF Current
    <2>4. /\ DOMAIN arrays' = DOMAIN arrays
          /\ \A a \in DOMAIN arrays : a # order.array => arrays'[a] = arrays[a]
          /\ arrays'[order.array] = [Current EXCEPT ![order.len + 1] = g]
      BY <2>1, <2>3 DEF Current
    <2>5. \A a \in DOMAIN arrays : arrays[a] \in Seq(0..g)
      BY <1>1, OrderFacts
    <2>6. arrays'[order.array] \in Seq(0..g) /\ Len(arrays'[order.array]) = Len(Current)
      BY <2>3, <2>4, <2>5, ExceptSeq DEF Current
    <2>7. arrays' \in Seq(Seq(0..g))
      <3>1. arrays' = [a \in 1..Len(arrays) |-> arrays'[a]]
        BY <2>1, OrderFacts
      <3>2. \A a \in 1..Len(arrays) : arrays'[a] \in Seq(0..g)
        BY <2>4, <2>5, <2>6, OrderFacts
      <3>3. arrays' \in [1..Len(arrays) -> Seq(0..g)]
        BY <3>1, <3>2
      <3> QED
        BY <3>3, ListOf, OrderFacts
    <2>8. /\ arrays'[order.array][order.len + 1] = g
          /\ \A i \in DOMAIN Current :
               i # order.len + 1 => arrays'[order.array][i] = Current[i]
      BY <2>3, <2>4
    <2>9. order'.array = order.array /\ order'.len = order.len + 1
      BY <2>2
    <2>10. \A a \in DOMAIN arrays :
             /\ Len(arrays'[a]) = Len(arrays[a])
             /\ \A i \in DOMAIN arrays[a] :
                  \/ arrays'[a][i] = arrays[a][i]
                  \/ a = order'.array /\ i = order.len + 1 /\ arrays'[a][i] = g
      BY <2>4, <2>6, <2>8, <2>9 DEF Current
    <2>11. \A i \in 1..order.len : arrays'[order.array][i] = line[i]
      <3>1. \A i \in 1..order.len :
              i \in DOMAIN Current /\ i # order.len + 1 /\ line[i] = Current[i]
        BY <2>3, OrderFacts, SMTT(30) DEF Current
      <3> QED
        BY <2>8, <3>1
    <2>12. order.len + 1 <= Len(arrays'[order.array])
      BY <2>3, <2>6, OrderFacts DEF Current
    <2>13. DOMAIN arrays \subseteq DOMAIN arrays' /\ order.array \in DOMAIN arrays'
      BY <2>3, <2>4
    <2> QED
      BY <2>2, <2>7, <2>8, <2>9, <2>10, <2>11, <2>12, <2>13, Zenon
  <1>2. CASE ~ (order.array # 0 /\ order.len < Len(arrays[order.array]))
    <2> DEFINE new(room) == [i \in 1..room |-> IF i <= order.len THEN Current[i]
                                              ELSE IF i = order.len + 1 THEN g ELSE 0]
    <2>1. PICK room \in (order.len + 1)..MaxRoom :
             /\ arrays' = Append(arrays, new(room))
             /\ order' = [array |-> Len(arrays) + 1, len |-> order.len + 1]
      BY <1>2 DEF AppendTo, Current
    <2>2. room \in Nat /\ room >= order.len + 1
      BY <2>1, OrderFacts, BoundsAssumption
    <2>3. \A i \in 1..order.len : Current[i] \in 0..g
      BY OrderFacts
    <2>4. new(room) \in Seq(0..g) /\ Len(new(room)) = room
      <3>1. new(room) \in [1..room -> 0..g]
        BY <2>2, <2>3, OrderFacts
      <3> HIDE DEF new
      <3> QED
        BY <3>1, <2>2, ListOf
    <2>5. \A a \in DOMAIN arrays : arrays[a] \in Seq(0..g)
      BY OrderFacts
    <2>6. /\ DOMAIN arrays' = 1..(Len(arrays) + 1)
          /\ \A a \in DOMAIN arrays : arrays'[a] = arrays[a]
          /\ arrays'[Len(arrays) + 1] = new(room)
      BY <2>1, OrderFacts
    <2>7. arrays' \in Seq(Seq(0..g))
      <3> HIDE DEF new
      <3>1. arrays \in Seq(Seq(0..g))
        BY <2>5, OrderFacts, ListOf DEF IInv, TypeOK
      <3> QED
        BY <3>1, <2>1, <2>4
    <2>8. /\ \A i \in 1..order.len : new(room)[i] = line[i]
          /\ new(room)[order.len + 1] = g
      BY <2>2, OrderFacts
    <2> HIDE DEF new
    <2> QED
      BY <2>1, <2>2, <2>4, <2>6, <2>7, <2>8, OrderFacts
  <1> QED
    BY <1>1, <1>2

LEMMA AdmitKeeps == IInv /\ Admit => PlaceByPlace'
  <1> SUFFICES ASSUME IInv, Admit PROVE PlaceByPlace'
    OBVIOUS
  <1> DEFINE g == admitted + 1
  <1>1. /\ g \in Nat /\ AppendTo(g) /\ admitted' = g /\ line' = Append(line, g) /\ held' = held
        /\ admitted \in Nat
    BY OrderFacts DEF Admit
  <1>g. g = admitted + 1
    OBVIOUS
  <1> HIDE DEF g
  <1>2. /\ arrays' \in Seq(Seq(0..g))
        /\ DOMAIN arrays \subseteq DOMAIN arrays'
        /\ \A a \in DOMAIN arrays :
             /\ Len(arrays'[a]) = Len(arrays[a])
             /\ \A i \in DOMAIN arrays[a] :
                  \/ arrays'[a][i] = arrays[a][i]
                  \/ a = order'.array /\ i = order.len + 1 /\ arrays'[a][i] = g
        /\ order' = [array |-> order'.array, len |-> order.len + 1]
        /\ order'.array \in DOMAIN arrays'
        /\ order'.array \in DOMAIN arrays => order'.array = order.array
        /\ order.len + 1 <= Len(arrays'[order'.array])
        /\ \A i \in 1..order.len : arrays'[order'.array][i] = line[i]
        /\ arrays'[order'.array][order.len + 1] = g
    BY <1>1, <1>g, AppendWrites
  <1>3. order'.len = order.len + 1 /\ order.len \in Nat
    BY <1>2, OrderFacts
  <1>4. Len(arrays') \in Nat /\ DOMAIN arrays' = 1..Len(arrays') /\ Len(arrays) <= Len(arrays')
    <2>1. Len(arrays') \in Nat /\ DOMAIN arrays' = 1..Len(arrays')
      BY <1>2
    <2>2. 1..Len(arrays) \subseteq 1..Len(arrays') /\ Len(arrays) \in Nat
      BY <1>2, <2>1, OrderFacts
    <2> QED
      BY <2>1, <2>2
  <1>5. line' \in Seq(1..g)
    <2>1. line \in Seq(1..g)
      <3>1. line \in [1..order.len -> 1..g]
        BY <1>1, <1>g, OrderFacts
      <3> QED
        BY <3>1, <1>3, ListOf
    <2>2. g \in 1..g
      BY <1>1, <1>g
    <2> QED
      BY <1>1, <2>1, <2>2
  <1>6. /\ Len(line') = order.len + 1
        /\ \A i \in 1..order.len : line'[i] = line[i]
        /\ line'[order.len + 1] = g
    BY <1>1, OrderFacts
  <1>7. LineHolds'
    <2>1. \A i \in 1..order'.len : line'[i] = arrays'[order'.array][i]
      BY <1>2, <1>3, <1>6
    <2>2. \A i, j \in 1..order'.len : i < j => line'[i] < line'[j]
      BY <1>1, <1>g, <1>3, <1>6, OrderFacts
    <2> QED
      BY <1>3, <1>6, <2>1, <2>2 DEF LineHolds, Current
  <1>8. Fits(order)'
    BY <1>2, <1>3, <1>4 DEF Fits
  <1>9. ASSUME NEW s \in held
        PROVE  SliceHolds(s)'
    <2> DEFINE a == s.slice.array
               n == s.slice.len
    <2>1. n > 0 => a \in DOMAIN arrays /\ n <= Len(arrays[a])
      BY HeldFacts
    <2>2. n \in Nat /\ a \in 0..Len(arrays)
      BY HeldFacts
    <2>3. \A i \in 1..n : a \in DOMAIN arrays /\ i \in DOMAIN arrays[a]
      BY <2>1, <2>2, OrderFacts
    \* What a slice looks at changes at most behind the end of the line.
    <2>4. ASSUME NEW i \in 1..n
          PROVE  \/ arrays'[a][i] = arrays[a][i]
                 \/ /\ a = order.array /\ a = order'.array
                    /\ i = order.len + 1 /\ arrays'[a][i] = g
      BY <1>2, <2>3
    <2>5. ASSUME a = order'.array, n > 0
          PROVE  s.call # "clear" /\ (~ s.left => n <= order'.len)
      <3>1. a = order.array
        BY <1>2, <2>1, <2>5
      <3>2. s.call # "clear" /\ (~ s.left => n <= order.len)
        BY <2>5, <3>1, HeldFacts
      <3> QED
        BY <3>2, <1>3, <2>2
    <2>6. ASSUME s.call = "clear" \/ ~ s.left, NEW i \in 1..n
          PROVE  arrays'[a][i] = s.shown[i]
      <3>1. arrays[a][i] = s.shown[i]
        BY <2>6, HeldFacts
      <3>2. ASSUME a = order.array, i = order.len + 1
            PROVE  FALSE
        <4>1. n > 0
          BY <2>2
        <4>2. s.call # "clear" /\ (~ s.left => n <= order.len)
          BY <3>2, <4>1, HeldFacts
        <4> QED
          BY <2>6, <3>2, <4>2, <2>2, <1>3
      <3> QED
        BY <2>4, <3>1, <3>2
    <2>7. ASSUME NEW i \in 1..n
          PROVE  s.shown[i] <= arrays'[a][i]
      <3>1. s.shown[i] <= arrays[a][i] /\ s.shown[i] \in 0..admitted
        BY HeldFacts
      <3> QED
        BY <2>4, <3>1, <1>g, <1>1
    <2>8. ASSUME NEW i \in 1..n, NEW k \in 1..order'.len, line'[k] = s.shown[i]
          PROVE  \E j \in 1..n : arrays'[a][j] = s.shown[i]
      <3>1. s.shown[i] \in 0..admitted
        BY HeldFacts
      <3>2. k \in 1..order.len /\ line[k] = s.shown[i]
        BY <2>8, <3>1, <1>1, <1>g, <1>3, <1>6
      <3>3. PICK j \in 1..n : arrays[a][j] = s.shown[i]
        BY <3>2, HeldFacts
      <3>4. CASE arrays'[a][j] = arrays[a][j]
        BY <3>3, <3>4
      \* The place that showed the group is written: the line shows it before.
      <3>5. CASE a = order'.array /\ j = order.len + 1
        <4>1. k \in 1..n
          BY <3>2, <3>5, <1>3, <2>2
        <4>2. arrays'[a][k] = s.shown[i]
          BY <3>2, <3>5, <1>2
        <4> QED
          BY <4>1, <4>2
      <3> QED
        BY <2>4, <3>4, <3>5
    <2>9. /\ s \in [call: {"groups", "clear"}, slice: [array: Nat, len: Nat],
                    shown: Seq(0..g), left: BOOLEAN]
          /\ Len(s.shown) = s.slice.len
      <3>1. s.shown \in Seq(0..g) /\ Len(s.shown) = s.slice.len
        <4>1. s.shown \in Seq(0..admitted) /\ Len(s.shown) = s.slice.len
          BY HeldFacts
        <4>2. \A i \in 1..n : s.shown[i] \in 0..g
          <5>1. \A i \in 1..n : s.shown[i] \in 0..admitted
            BY HeldFacts
          <5> QED
            BY <5>1, <1>1, <1>g
        <4>3. s.shown \in [1..n -> 0..g]
          BY <4>1, <4>2
        <4> QED
          BY <4>1, <4>3, <2>2, ListOf
      <3>2. s \in [call: {"groups", "clear"}, slice: [array: Nat, len: Nat],
                   shown: Seq(0..admitted), left: BOOLEAN]
        BY DEF IInv, TypeOK
      <3> QED
        BY <3>1, <3>2
    <2>10. Fits(s.slice)'
      <3>1. s.slice = [array |-> a, len |-> n]
        BY HeldFacts
      <3>2. a \in 0..Len(arrays') /\ (a # 0 => a \in DOMAIN arrays)
        BY <2>2, <1>4, OrderFacts
      <3>3. n <= IF a = 0 THEN 0 ELSE Len(arrays[a])
        BY DEF IInv, TypeOK, Fits
      <3>4. n <= IF a = 0 THEN 0 ELSE Len(arrays'[a])
        BY <3>2, <3>3, <1>2
      <3> QED
        BY <3>1, <3>2, <3>4, <2>2 DEF Fits
    <2> QED
      BY <2>5, <2>6, <2>7, <2>8, <2>9, <2>10, <1>1 DEF SliceHolds
  <1> QED
    BY <1>1, <1>2, <1>5, <1>7, <1>8, <1>9 DEF PlaceByPlace

\* Leaving closes the gap in the line.
LEMMA LineCloses ==
  ASSUME IInv, NEW i \in 1..order.len, Remove(i)
  PROVE  /\ line' \in Seq(1..admitted) /\ Len(line') = order.len - 1
         /\ \A j \in 1..(order.len - 1) : line'[j] = IF j < i THEN line[j] ELSE line[j + 1]
  <1> DEFINE front == SubSeq(line, 1, i - 1)
             back == SubSeq(line, i + 1, Len(line))
  <1>1. /\ line \in Seq(1..admitted) /\ Len(line) = order.len /\ order.len \in Nat
        /\ line' = front \o back
    BY OrderFacts DEF Remove
  <1>2. \A j \in 1..order.len : line[j] \in 1..admitted
    BY OrderFacts
  <1>3. /\ front \in Seq(1..admitted) /\ Len(front) = i - 1
        /\ \A j \in 1..(i - 1) : front[j] = line[j]
    <2>1. \A j \in 1..(i - 1) : line[j] \in 1..admitted
      BY <1>1, <1>2
    <2> QED
      BY <1>1, <2>1, SubSeqProperties
  <1>4. /\ back \in Seq(1..admitted) /\ Len(back) = order.len - i
        /\ \A j \in 1..(order.len - i) : back[j] = line[i + j]
    <2>1. \A j \in (i + 1)..order.len : line[j] \in 1..admitted
      BY <1>1, <1>2
    <2> QED
      BY <1>1, <2>1, SubSeqProperties
  <1> HIDE DEF front, back
  <1>5. /\ line' \in Seq(1..admitted) /\ Len(line') = order.len - 1
        /\ \A j \in 1..(order.len - 1) :
             line'[j] = IF j <= i - 1 THEN front[j] ELSE back[j - (i - 1)]
    <2>1. /\ line' \in Seq(1..admitted) /\ Len(line') = Len(front) + Len(back)
          /\ \A j \in 1..(Len(front) + Len(back)) :
               line'[j] = IF j <= Len(front) THEN front[j] ELSE back[j - Len(front)]
      BY <1>1, <1>3, <1>4, ConcatProperties
    <2>2. Len(front) + Len(back) = order.len - 1
      BY <1>1, <1>3, <1>4
    <2> QED
      BY <2>1, <2>2, <1>3
  <1>6. ASSUME NEW j \in 1..(order.len - 1)
        PROVE  line'[j] = IF j < i THEN line[j] ELSE line[j + 1]
    <2>1. CASE j < i
      BY <2>1, <1>1, <1>3, <1>5
    <2>2. CASE ~ (j < i)
      <3>1. line'[j] = back[j - (i - 1)] /\ j - (i - 1) \in 1..(order.len - i)
        BY <2>2, <1>1, <1>5
      <3>2. back[j - (i - 1)] = line[i + (j - (i - 1))]
        BY <3>1, <1>4
      <3>3. i + (j - (i - 1)) = j + 1
        BY <1>1
      <3> QED
        BY <2>2, <3>1, <3>2, <3>3
    <2> QED
      BY <2>1, <2>2
  <1> QED
    BY <1>5, <1>6

LEMMA RemoveWrites ==
  ASSUME IInv, NEW i \in 1..order.len, Remove(i)
  PROVE  /\ arrays' \in Seq(Seq(0..admitted)) /\ DOMAIN arrays' = DOMAIN arrays
         /\ Len(arrays') = Len(arrays)
         /\ \A a \in DOMAIN arrays : /\ Len(arrays'[a]) = Len(arrays[a])
                                     /\ a # order.array => arrays'[a] = arrays[a]
         /\ order' = [array |-> order.array, len |-> order.len - 1]
         /\ order.array \in DOMAIN arrays /\ order.len <= Len(Current)
         /\ \A j \in DOMAIN Current :
              arrays'[order.array][j] =
                IF j \in i..(order.len - 1) THEN Current[j + 1] ELSE Current[j]
  <1>1. /\ arrays' = [arrays EXCEPT ![order.array] =
                  [j \in DOMAIN @ |-> IF j \in i..(order.len - 1) THEN @[j + 1] ELSE @[j]]]
        /\ order' = [order EXCEPT !.len = @ - 1]
    BY DEF Remove
  <1>2. order.len \in Nat /\ order.array \in DOMAIN arrays /\ order.len <= Len(Current)
    BY OrderFacts
  <1>3. order' = [array |-> order.array, len |-> order.len - 1]
    BY <1>1, OrderFacts
  <1>4. /\ DOMAIN arrays' = DOMAIN arrays
        /\ \A a \in DOMAIN arrays : a # order.array => arrays'[a] = arrays[a]
        /\ arrays'[order.array] =
             [j \in DOMAIN Current |->
                IF j \in i..(order.len - 1) THEN Current[j + 1] ELSE Current[j]]
    BY <1>1, <1>2 DEF Current
  <1>5. /\ Len(Current) \in Nat /\ DOMAIN Current = 1..Len(Current)
        /\ \A j \in DOMAIN Current : Current[j] \in 0..admitted
    BY <1>2, OrderFacts DEF Current
  <1>6. arrays'[order.array] \in [1..Len(Current) -> 0..admitted]
    BY <1>2, <1>4, <1>5
  <1>7. /\ arrays'[order.array] \in Seq(0..admitted)
        /\ Len(arrays'[order.array]) = Len(Current)
    BY <1>5, <1>6, ListOf
  <1>8. arrays' = [a \in 1..Len(arrays) |-> arrays'[a]]
    BY <1>1, OrderFacts
  <1>9. \A a \in 1..Len(arrays) : arrays'[a] \in Seq(0..admitted)
    BY <1>4, <1>7, OrderFacts
  <1>10. arrays' \in [1..Len(arrays) -> Seq(0..admitted)]
    BY <1>8, <1>9
  <1>11. arrays' \in Seq(Seq(0..admitted)) /\ Len(arrays') = Len(arrays)
    BY <1>10, OrderFacts, ListOf
  <1> QED
    BY <1>2, <1>3, <1>4, <1>7, <1>11 DEF Current

LEMMA RemoveKeeps ==
  ASSUME IInv, NEW i \in 1..order.len, Remove(i)
  PROVE  PlaceByPlace'
  <1>1. /\ held' = Stale /\ admitted' = admitted /\ admitted \in Nat /\ order.len \in Nat
        /\ Len(arrays) \in Nat /\ DOMAIN arrays = 1..Len(arrays)
    BY OrderFacts DEF Remove
  <1>2. /\ arrays' \in Seq(Seq(0..admitted)) /\ DOMAIN arrays' = DOMAIN arrays
        /\ Len(arrays') = Len(arrays)
        /\ \A a \in DOMAIN arrays : /\ Len(arrays'[a]) = Len(arrays[a])
                                    /\ a # order.array => arrays'[a] = arrays[a]
        /\ order' = [array |-> order.array, len |-> order.len - 1]
        /\ order.array \in DOMAIN arrays /\ order.len <= Len(Current)
        /\ \A j \in DOMAIN Current :
             arrays'[order.array][j] =
               IF j \in i..(order.len - 1) THEN Current[j + 1] ELSE Current[j]
    BY RemoveWrites
  <1>3. order'.array = order.array /\ order'.len = order.len - 1 /\ order'.len \in Nat
    BY <1>1, <1>2
  <1>4. /\ line' \in Seq(1..admitted) /\ Len(line') = order.len - 1
        /\ \A j \in 1..(order.len - 1) : line'[j] = IF j < i THEN line[j] ELSE line[j + 1]
    BY LineCloses
  <1>5. \A j \in 1..order.len : /\ j \in DOMAIN Current /\ line[j] = Current[j]
                                /\ line[j] \in 1..admitted
    <2>1. DOMAIN Current = 1..Len(Current) /\ Len(Current) \in Nat
      BY <1>2, OrderFacts DEF Current
    <2>2. \A j \in 1..order.len : line[j] = Current[j] /\ line[j] \in 1..admitted
      BY OrderFacts
    <2>3. \A j \in 1..order.len : j \in 1..Len(Current)
      BY <2>1, <1>1, <1>2
    <2> QED
      BY <2>1, <2>2, <2>3
  <1>6. \A j \in 1..(order.len - 1) :
          line'[j] = IF j \in i..(order.len - 1) THEN Current[j + 1] ELSE Current[j]
    BY <1>1, <1>4, <1>5
  <1>7. LineHolds'
    <2>1. \A j \in 1..order'.len : line'[j] = arrays'[order'.array][j]
      <3>1. \A j \in 1..(order.len - 1) : j \in 1..order.len
        BY <1>1
      <3> QED
        BY <1>2, <1>3, <1>5, <1>6, <3>1
    <2>2. \A j, k \in 1..order.len : j < k => line[j] < line[k]
      BY OrderFacts
    <2>3. \A j, k \in 1..order'.len : j < k => line'[j] < line'[k]
      <3>1. SUFFICES ASSUME NEW j \in 1..(order.len - 1), NEW k \in 1..(order.len - 1), j < k
                     PROVE  line'[j] < line'[k]
        BY <1>3
      <3>2. /\ line'[j] = IF j < i THEN line[j] ELSE line[j + 1]
            /\ line'[k] = IF k < i THEN line[k] ELSE line[k + 1]
        BY <1>4
      <3>3. {j, k, j + 1, k + 1} \subseteq 1..order.len
        BY <1>1
      <3> QED
        BY <1>1, <1>5, <2>2, <3>1, <3>2, <3>3
    <2> QED
      BY <1>3, <1>4, <2>1, <2>3 DEF LineHolds, Current
  <1>8. Fits(order)'
    BY <1>1, <1>2, <1>3, SMTT(30) DEF Fits, Current
  <1>9. ASSUME NEW t \in held'
        PROVE  SliceHolds(t)'
    <2>1. PICK s \in held : t = [s EXCEPT !.left = TRUE]
      BY <1>1 DEF Stale
    <2> DEFINE a == s.slice.array
               n == s.slice.len
    <2>2. /\ t.call = s.call /\ t.slice = s.slice /\ t.shown = s.shown /\ t.left = TRUE
          /\ t \in [call: {"groups", "clear"}, slice: [array: Nat, len: Nat],
                   shown: Seq(0..admitted), left: BOOLEAN]
      <3>1. s \in [call: {"groups", "clear"}, slice: [array: Nat, len: Nat],
                   shown: Seq(0..admitted), left: BOOLEAN]
        BY DEF IInv, TypeOK
      <3> QED
        BY <2>1, <3>1
    <2>3. /\ n \in Nat /\ (n > 0 => a \in DOMAIN arrays /\ n <= Len(arrays[a]))
          /\ Len(s.shown) = n
      BY HeldFacts
    <2>4. \A j \in 1..n : a \in DOMAIN arrays /\ j \in DOMAIN arrays[a]
      <3>1. SUFFICES ASSUME NEW j \in 1..n PROVE a \in DOMAIN arrays /\ j \in DOMAIN arrays[a]
        OBVIOUS
      <3>2. a \in DOMAIN arrays /\ n <= Len(arrays[a])
        BY <2>3
      <3>3. DOMAIN arrays[a] = 1..Len(arrays[a]) /\ Len(arrays[a]) \in Nat
        BY <3>2, OrderFacts
      <3> QED
        BY <2>3, <3>2, <3>3
    <2>5. ASSUME a = order.array, n > 0
          PROVE  s.call # "clear"
      BY <2>5, HeldFacts
    <2>6. ASSUME s.call = "clear", NEW j \in 1..n
          PROVE  arrays'[a][j] = s.shown[j]
      <3>1. a # order.array
        BY <2>5, <2>6, <2>3
      <3>2. arrays[a][j] = s.shown[j]
        BY <2>6, HeldFacts
      <3> QED
        BY <3>1, <3>2, <2>4, <1>2
    \* In the line the next group is a younger one.
    <2>7. ASSUME NEW j \in 1..n
          PROVE  s.shown[j] <= arrays'[a][j]
      <3>1. s.shown[j] <= arrays[a][j] /\ s.shown[j] \in 0..admitted
        BY HeldFacts
      <3>2. CASE a # order.array
        BY <3>1, <3>2, <2>4, <1>2
      <3>3. CASE a = order.array /\ j \in i..(order.len - 1)
        <4>1. arrays'[a][j] = Current[j + 1] /\ arrays[a][j] = Current[j]
          BY <3>3, <2>4, <1>2 DEF Current
        <4>2. j \in 1..order.len /\ j + 1 \in 1..order.len /\ j < j + 1
          BY <3>3, <1>1
        <4>3. line[j] < line[j + 1]
          BY <4>2, OrderFacts
        <4>4. /\ Current[j] = line[j] /\ Current[j + 1] = line[j + 1]
              /\ line[j] \in 1..admitted /\ line[j + 1] \in 1..admitted
          BY <4>2, <1>5
        <4> QED
          BY <3>1, <4>1, <4>3, <4>4, <1>1
      <3>4. CASE a = order.array /\ j \notin i..(order.len - 1)
        BY <3>1, <3>4, <2>4, <1>2 DEF Current
      <3> QED
        BY <3>2, <3>3, <3>4
    <2>8. ASSUME NEW j \in 1..n, NEW k \in 1..order'.len, line'[k] = s.shown[j]
          PROVE  \E l \in 1..n : arrays'[a][l] = s.shown[j]
      <3>1. PICK p \in 1..order.len : /\ line[p] = s.shown[j] /\ p # i
                                      /\ k = IF p < i THEN p ELSE p - 1
        BY <2>8, <1>1, <1>3, <1>4, SMTT(30)
      <3>2. PICK l \in 1..n : arrays[a][l] = s.shown[j]
        BY <3>1, HeldFacts
      <3>3. CASE a # order.array
        BY <3>2, <3>3, <2>4, <1>2
      <3>4. CASE a = order.array
        \* A place further down the line would show an older group.
        <4>1. p <= n
          <5>1. SUFFICES ASSUME n < p PROVE FALSE
            BY <2>3, <1>1
          <5>2. l \in 1..order.len /\ l < p
            BY <5>1, <2>3, <1>1
          <5>3. line[l] < line[p]
            BY <5>2, OrderFacts
          <5>4. line[l] = Current[l] /\ Current[l] = s.shown[j]
            BY <5>2, <1>5, <3>2, <3>4 DEF Current
          <5> QED
            BY <5>2, <5>3, <5>4, <3>1, <1>5, <1>1
        <4>2. k \in 1..n
          BY <3>1, <4>1, <1>1, <1>3, <2>3
        <4>3. arrays'[a][k] = line'[k]
          BY <3>4, <1>7, <1>3 DEF LineHolds, Current
        <4> QED
          BY <4>2, <4>3, <2>8
      <3> QED
        BY <3>3, <3>4
    <2>9. Fits(s.slice)'
      <3>1. /\ s.slice \in [array: 0..Len(arrays), len: Nat]
            /\ n <= IF a = 0 THEN 0 ELSE Len(arrays[a])
        BY DEF IInv, TypeOK, Fits
      <3>2. a # 0 => a \in DOMAIN arrays
        BY <3>1, <1>1
      <3>3. n <= IF a = 0 THEN 0 ELSE Len(arrays'[a])
        BY <3>1, <3>2, <1>2
      <3> QED
        BY <3>1, <3>3, <1>2 DEF Fits
    <2> QED
      BY <2>2, <2>3, <2>5, <2>6, <2>7, <2>8, <2>9, <1>1, <1>3 DEF SliceHolds
  <1> QED
    BY <1>1, <1>2, <1>4, <1>7, <1>8, <1>9 DEF PlaceByPlace

\* What is given out is the line, as it is.
LEMMA GiveOutAdds ==
  ASSUME IInv, NEW call \in {"groups", "clear"}, GiveOut(call), UNCHANGED <<arrays, admitted>>,
         NEW t \in held',
         t \notin held
  PROVE  /\ t.call = call /\ t.slice = order /\ t.left = FALSE
         /\ t \in [call: {"groups", "clear"}, slice: [array: Nat, len: Nat],
                  shown: Seq(0..admitted), left: BOOLEAN]
         /\ Fits(order) /\ Len(t.shown) = order.len
         /\ \A i \in 1..order.len : t.shown[i] = arrays[order.array][i] /\ t.shown[i] \in Int
  <1>1. t = [call |-> call, slice |-> order, shown |-> Shows(order), left |-> FALSE]
    BY DEF GiveOut
  <1>2. Shows(order) = line
    BY DEF IInv, OrderIsLine
  <1>3. line \in Seq(0..admitted)
    <2>1. line \in [1..order.len -> 0..admitted]
      BY OrderFacts
    <2> QED
      BY <2>1, OrderFacts, ListOf
  <1>4. order \in [array: Nat, len: Nat]
    BY OrderFacts
  <1> QED
    BY <1>1, <1>2, <1>3, <1>4, OrderFacts DEF IInv, TypeOK, Current

LEMMA GroupsKeeps == IInv /\ Groups => PlaceByPlace'
  <1> SUFFICES ASSUME IInv, Groups PROVE PlaceByPlace'
    OBVIOUS
  <1>1. GiveOut("groups") /\ UNCHANGED <<arrays, order, line, admitted>>
    BY DEF Groups
  <1>2. /\ admitted \in Nat /\ arrays \in Seq(Seq(0..admitted)) /\ line \in Seq(1..admitted)
        /\ Fits(order)
    BY DEF IInv, TypeOK
  <1>3. LineHolds
    BY OrderFacts DEF LineHolds
  <1>4. ASSUME NEW t \in held' PROVE SliceHolds(t)'
    <2>1. CASE t \in held
      <3>1. SliceHolds(t)
        BY <2>1, HeldFacts DEF IInv, TypeOK, SliceHolds
      <3> QED
        BY <3>1, <1>1 DEF SliceHolds, Fits
    <2>2. CASE t \notin held
      <3>1. /\ t.call = "groups" /\ t.slice = order /\ t.left = FALSE
            /\ t \in [call: {"groups", "clear"}, slice: [array: Nat, len: Nat],
                     shown: Seq(0..admitted), left: BOOLEAN]
            /\ Fits(order) /\ Len(t.shown) = order.len
            /\ \A i \in 1..order.len : t.shown[i] = arrays[order.array][i] /\ t.shown[i] \in Int
        BY <1>1, <2>2, GiveOutAdds
      <3>2. order.len \in Nat
        BY OrderFacts
      <3>3. SliceHolds(t)
        BY <3>1, <3>2 DEF SliceHolds
      <3> QED
        BY <3>3, <1>1 DEF SliceHolds, Fits
    <2> QED
      BY <2>1, <2>2
  <1> QED
    BY <1>1, <1>2, <1>3, <1>4 DEF PlaceByPlace, LineHolds, Fits, Current

LEMMA ClearKeeps == IInv /\ Clear => PlaceByPlace'
  <1> SUFFICES ASSUME IInv, Clear PROVE PlaceByPlace'
    OBVIOUS
  <1>1. /\ GiveOut("clear") /\ UNCHANGED <<arrays, admitted>>
        /\ order' = Nil /\ line' = <<>>
    BY DEF Clear
  <1>2. /\ admitted \in Nat /\ arrays \in Seq(Seq(0..admitted)) /\ line' \in Seq(1..admitted)
        /\ Fits(order)' /\ order'.array = 0 /\ order'.len = 0 /\ 1..order'.len = {}
    BY <1>1 DEF IInv, TypeOK, Fits, Nil
  <1>3. LineHolds'
    BY <1>1, <1>2 DEF LineHolds
  <1>4. ASSUME NEW t \in held' PROVE SliceHolds(t)'
    <2>1. /\ t \in [call: {"groups", "clear"}, slice: [array: Nat, len: Nat],
                   shown: Seq(0..admitted), left: BOOLEAN]
          /\ Fits(t.slice)
          /\ Len(t.shown) = t.slice.len
          /\ t.call = "clear" \/ ~ t.left
               => \A i \in 1..t.slice.len : arrays[t.slice.array][i] = t.shown[i]
          /\ \A i \in 1..t.slice.len : t.shown[i] <= arrays[t.slice.array][i]
      <3>1. CASE t \in held
        BY <3>1, HeldFacts DEF IInv, TypeOK
      <3>2. CASE t \notin held
        <4>1. /\ t.call = "clear" /\ t.slice = order
              /\ t \in [call: {"groups", "clear"}, slice: [array: Nat, len: Nat],
                       shown: Seq(0..admitted), left: BOOLEAN]
              /\ Fits(order) /\ Len(t.shown) = order.len
              /\ \A i \in 1..order.len : t.shown[i] = arrays[order.array][i] /\ t.shown[i] \in Int
          BY <1>1, <3>2, GiveOutAdds
        <4> QED
          BY <4>1
      <3> QED
        BY <3>1, <3>2
    \* The slice is now nil, which has no place to write to.
    <2>2. ~ (t.slice.array = order'.array /\ t.slice.len > 0)
      BY <2>1, <1>2 DEF Fits
    <2>3. Fits(t.slice)'
      BY <2>1, <1>1 DEF Fits
    <2> QED
      BY <2>1, <2>2, <2>3, <1>1, <1>2 DEF SliceHolds
  <1> QED
    BY <1>1, <1>2, <1>3, <1>4 DEF PlaceByPlace

LEMMA InitHolds == Init => IInv
  <1> SUFFICES ASSUME Init PROVE IInv
    OBVIOUS
  <1>1. /\ arrays = <<>> /\ line = <<>> /\ held = {} /\ admitted = 0
        /\ order.array = 0 /\ order.len = 0 /\ Fits(order)
    BY DEF Init, Nil, Fits
  <1>2. Shows(order) = line
    BY <1>1 DEF Shows
  <1> QED
    BY <1>1, <1>2 DEF IInv, TypeOK, WritesBehind, OrderIsLine, ClearedStays,
       ListsHoldUntilDeparture, ListsOnlyMoveOn

LEMMA ToPlaces == IInv => PlaceByPlace
  <1> SUFFICES ASSUME IInv PROVE PlaceByPlace
    OBVIOUS
  <1>1. LineHolds
    BY OrderFacts DEF LineHolds
  <1>2. ASSUME NEW s \in held PROVE SliceHolds(s)
    BY HeldFacts DEF IInv, TypeOK, SliceHolds
  <1> QED
    BY <1>1, <1>2 DEF IInv, TypeOK, PlaceByPlace

LEMMA StutterKeeps ==
  ASSUME PlaceByPlace, UNCHANGED vars
  PROVE  PlaceByPlace'
  <1>1. /\ arrays' = arrays /\ order' = order /\ line' = line /\ held' = held
        /\ admitted' = admitted
    BY DEF vars
  <1>2. LineHolds' /\ Fits(order)'
    BY <1>1 DEF PlaceByPlace, LineHolds, Fits, Current
  <1>3. ASSUME NEW s \in held PROVE SliceHolds(s)'
    <2>1. SliceHolds(s)
      BY DEF PlaceByPlace
    <2>2. Fits(s.slice)'
      BY <2>1, <1>1 DEF SliceHolds, Fits
    <2> QED
      BY <2>1, <2>2, <1>1 DEF SliceHolds
  <1> QED
    BY <1>1, <1>2, <1>3 DEF PlaceByPlace

LEMMA NextKeeps == IInv /\ [Next]_vars => IInv'
  <1>1. PlaceByPlace' => IInv'
    BY FromPlaces, PTL
  <1>2. IInv /\ Next => PlaceByPlace'
    BY AdmitKeeps, RemoveKeeps, GroupsKeeps, ClearKeeps DEF Next
  <1>3. IInv /\ UNCHANGED vars => PlaceByPlace'
    BY ToPlaces, StutterKeeps
  <1> QED
    BY <1>1, <1>2, <1>3
-----------------------------------------------------------------------------
\* Whatever is admitted and whatever leaves, however the arrays are reused, the
\* slices stay within their arrays and out of each other's way.
THEOREM SlicesConsistent == Spec => []IInv
  BY InitHolds, NextKeeps, PTL DEF Spec

\* The queue's slice is the line of the groups that wait.
THEOREM OrderIsAlwaysLine == Spec => []OrderIsLine
  <1>1. IInv => OrderIsLine
    BY DEF IInv
  <1> QED
    BY <1>1, SlicesConsistent, PTL

\* The list that clear returned is never written into again.
THEOREM ClearedListStays == Spec => []ClearedStays
  <1>1. IInv => ClearedStays
    BY DEF IInv
  <1> QED
    BY <1>1, SlicesConsistent, PTL

\* The list that groups() returned stays what it was until a group leaves.
THEOREM ListsHold == Spec => []ListsHoldUntilDeparture
  <1>1. IInv => ListsHoldUntilDeparture
    BY DEF IInv
  <1> QED
    BY <1>1, SlicesConsistent, PTL

\* After that, its places only move on to younger groups, and it loses no group that
\* it showed and that still waits.
THEOREM ListsMoveOn == Spec => []ListsOnlyMoveOn
  <1>1. IInv => ListsOnlyMoveOn
    BY DEF IInv
  <1> QED
    BY <1>1, SlicesConsistent, PTL
=============================================================================
