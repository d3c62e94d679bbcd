---------------------------- MODULE ClientsProofs ----------------------------
(***************************************************************************)
(* Proofs about Clients.tla, for any number of groups and members in the   *)
(* tests that use many: each group is given to one thread, and each        *)
(* program leaves the queue as it expects to.                              *)
(***************************************************************************)
EXTENDS Clients, FiniteSetTheorems, SequenceTheorems, TLAPS

\* What the programs use for ids, for members and for the lists of members.
Ids == {"mehta-party", "okafor-party", "lobby-alpha", "lobby-beta", "18", "19", "request-7",
        "shift-a", "shift-b", "same"} \cup 0..Count
Names == {"asha", "raj", "priya", "ngozi", "chidi", "ada", "linus", "grace", "hedy", "alan"}
         \cup {"profile", "orders", "recommendations", "nurse-1", "nurse-2", "nurse-3"}
         \cup {"one", "two", "three"}
Shards == {"18", "19"} \X {"clicks", "views", "spend"}
People == Names \cup Shards \cup 1..Count
Lists == UNION {[1..n -> People] : n \in 0..(Count + 3)}

\* The statements that the programs are made of.
Ops == {"mark_ready", "mark_group_ready", "peek", "group_of", "release", "drain", "release_all",
        "cancel", "note", "start", "join", "respond", "until_produced", "while_queue", "again"}
Words == {<<>>, "up", "down", "producer", "canceller", "releaser", "produced"}
Args == Ids \cup People \cup Lists \cup Words
Calls == [op: {"admit"}, arg: Ids \X Lists, catch: BOOLEAN]
         \cup [op: Ops, arg: Args, catch: BOOLEAN]
-----------------------------------------------------------------------------
\* An interval from 1 is finite.
LEMMA UpToFinite ==
  ASSUME NEW n \in Nat
  PROVE  IsFiniteSet(1..n)
  BY FS_Interval

\* The programs use finitely many members.
LEMMA PeopleFinite == IsFiniteSet(People)
  <1>1. IsFiniteSet(Names)
    <2> DEFINE list == <<"asha", "raj", "priya", "ngozi", "chidi", "ada", "linus", "grace",
                         "hedy", "alan", "profile", "orders", "recommendations", "nurse-1",
                         "nurse-2", "nurse-3", "one", "two", "three">>
    <2>1. list \in Surjection(1..19, Names)
      BY DEF Surjection, Names
    <2>2. IsFiniteSet(1..19)
      BY UpToFinite
    <2> HIDE DEF list
    <2> QED
      BY <2>1, <2>2, FS_Surjection
  <1>2. IsFiniteSet(Shards)
    <2> DEFINE list == << <<"18", "clicks">>, <<"18", "views">>, <<"18", "spend">>,
                          <<"19", "clicks">>, <<"19", "views">>, <<"19", "spend">> >>
    <2>1. list \in Surjection(1..6, Shards)
      BY DEF Surjection, Shards
    <2>2. IsFiniteSet(1..6)
      BY UpToFinite
    <2> HIDE DEF list
    <2> QED
      BY <2>1, <2>2, FS_Surjection
  <1>3. IsFiniteSet(1..Count)
    BY CountAssumption, FS_Interval
  <1> QED
    BY <1>1, <1>2, <1>3, FS_Union DEF People

-----------------------------------------------------------------------------
\* Every program is made of such statements.

\* Calls with known ids and lists, and statements with known arguments, are calls.
LEMMA Statements ==
  /\ \A id \in Ids, list \in Lists : Do("admit", <<id, list>>) \in Calls
                                  /\ Try("admit", <<id, list>>) \in Calls
  /\ \A op \in Ops, arg \in Args :
       Do(op, arg) \in Calls /\ Try(op, arg) \in Calls
  BY DEF Do, Try, Calls

\* One statement for each argument.
LEMMA EachIsProgram ==
  ASSUME NEW op \in Ops, NEW n \in Nat, NEW args,
         DOMAIN args = 1..n, \A i \in 1..n : args[i] \in Args
  PROVE  /\ Each(op, args) \in Seq(Calls) /\ Len(Each(op, args)) = n
         /\ \A i \in 1..n : Each(op, args)[i] = Do(op, args[i])
  <1>1. Each(op, args) = [i \in 1..n |-> Do(op, args[i])]
    BY DEF Each
  <1>2. \A i \in 1..n : Do(op, args[i]) \in Calls
    BY Statements
  <1> QED
    BY <1>1, <1>2

\* Two lists of statements, one after the other.
LEMMA Then ==
  ASSUME NEW s \in Seq(Calls), NEW t \in Seq(Calls)
  PROVE  /\ s \o t \in Seq(Calls) /\ Len(s \o t) = Len(s) + Len(t)
         /\ \A i \in 1..Len(s) : (s \o t)[i] = s[i]
         /\ \A i \in 1..Len(t) : (s \o t)[Len(s) + i] = t[i]
  <1>1. /\ s \o t \in Seq(Calls) /\ Len(s \o t) = Len(s) + Len(t)
        /\ \A i \in 1..Len(s) : (s \o t)[i] = s[i]
    BY ConcatProperties
  <1>2. ASSUME NEW i \in 1..Len(t)
        PROVE  (s \o t)[Len(s) + i] = t[i]
    <2>1. /\ Len(s) + i \in 1..Len(s) + Len(t) /\ ~ (Len(s) + i <= Len(s))
          /\ Len(s) + i - Len(s) = i
      OBVIOUS
    <2> QED
      BY <2>1, ConcatProperties
  <1> QED
    BY <1>1, <1>2

\* The same, statement by statement, for a second part of at most four.
LEMMA ThenFew ==
  ASSUME NEW s \in Seq(Calls), NEW t \in Seq(Calls), NEW n \in Nat, Len(s) = n
  PROVE  /\ Len(t) >= 1 => (s \o t)[n + 1] = t[1]
         /\ Len(t) >= 2 => (s \o t)[n + 2] = t[2]
         /\ Len(t) >= 3 => (s \o t)[n + 3] = t[3]
         /\ Len(t) >= 4 => (s \o t)[n + 4] = t[4]
  <1>1. /\ Len(t) \in Nat
        /\ \A i \in 1..Len(t) : (s \o t)[n + i] = t[i]
    BY Then
  <1>2. /\ Len(t) >= 1 => 1 \in 1..Len(t)
        /\ Len(t) >= 2 => 2 \in 1..Len(t)
        /\ Len(t) >= 3 => 3 \in 1..Len(t)
        /\ Len(t) >= 4 => 4 \in 1..Len(t)
    BY <1>1
  <1> QED
    BY <1>1, <1>2

\* A list of at most three people is one that the programs may pass.
LEMMA ShortLists ==
  /\ \A a \in People : <<a>> \in Lists
  /\ \A a, b \in People : <<a, b>> \in Lists
  /\ \A a, b, c \in People : <<a, b, c>> \in Lists
  <1>1. {1, 2, 3} \subseteq 0..(Count + 3)
    BY CountAssumption
  <1>2. \A n \in 0..(Count + 3) : [1..n -> People] \subseteq Lists
    BY DEF Lists
  <1> HIDE DEF Lists
  <1>3. \A a \in People : <<a>> \in [1..1 -> People]
    OBVIOUS
  <1>4. \A a, b \in People : <<a, b>> \in [1..2 -> People]
    OBVIOUS
  <1>5. \A a, b, c \in People : <<a, b, c>> \in [1..3 -> People]
    OBVIOUS
  <1> QED
    BY <1>1, <1>2, <1>3, <1>4, <1>5

\* The same statement with two arguments.
LEMMA EachOfTwo ==
  ASSUME NEW op \in Ops, NEW a \in Args, NEW b \in Args
  PROVE  Each(op, <<a, b>>) = <<Do(op, a), Do(op, b)>> /\ Each(op, <<a, b>>) \in Seq(Calls)
  <1>1. Do(op, a) \in Calls /\ Do(op, b) \in Calls
    BY Statements
  <1>2. Each(op, <<a, b>>) = <<Do(op, a), Do(op, b)>>
    BY DEF Each
  <1>3. <<Do(op, a), Do(op, b)>> \in Seq(Calls)
    BY <1>1
  <1> QED
    BY <1>2, <1>3

\* The same statement with three arguments.
LEMMA EachOfThree ==
  ASSUME NEW op \in Ops, NEW a \in Args, NEW b \in Args, NEW c \in Args
  PROVE  /\ Each(op, <<a, b, c>>) = <<Do(op, a), Do(op, b), Do(op, c)>>
         /\ Each(op, <<a, b, c>>) \in Seq(Calls)
  <1>1. Do(op, a) \in Calls /\ Do(op, b) \in Calls /\ Do(op, c) \in Calls
    BY Statements
  <1>2. Each(op, <<a, b, c>>) = <<Do(op, a), Do(op, b), Do(op, c)>>
    BY DEF Each
  <1>3. <<Do(op, a), Do(op, b), Do(op, c)>> \in Seq(Calls)
    BY <1>1
  <1> QED
    BY <1>2, <1>3

\* The same statement with four arguments.
LEMMA EachOfFour ==
  ASSUME NEW op \in Ops, NEW a \in Args, NEW b \in Args, NEW c \in Args, NEW d \in Args
  PROVE  /\ Each(op, <<a, b, c, d>>) = <<Do(op, a), Do(op, b), Do(op, c), Do(op, d)>>
         /\ Each(op, <<a, b, c, d>>) \in Seq(Calls)
  <1>1. Do(op, a) \in Calls /\ Do(op, b) \in Calls /\ Do(op, c) \in Calls /\ Do(op, d) \in Calls
    BY Statements
  <1>2. Each(op, <<a, b, c, d>>) = <<Do(op, a), Do(op, b), Do(op, c), Do(op, d)>>
    BY DEF Each
  <1>3. <<Do(op, a), Do(op, b), Do(op, c), Do(op, d)>> \in Seq(Calls)
    BY <1>1
  <1> QED
    BY <1>2, <1>3

\* The words, ids and members are what statements may be about.
LEMMA Vocabulary ==
  /\ Names \subseteq People /\ Shards \subseteq People /\ 1..Count \subseteq People
  /\ People \subseteq Args /\ Ids \subseteq Args /\ Lists \subseteq Args /\ Words \subseteq Args
  /\ 0..Count \subseteq Ids
  BY DEF People, Args, Ids

\* The restaurant, statement by statement.
LEMMA RestaurantProgram ==
  LET main == Restaurant.program["main"]
  IN  /\ Restaurant.strict = TRUE /\ Restaurant.left = {} /\ Restaurant.taken = <<1, 2>>
      /\ DOMAIN Restaurant.program = {"main"}
      /\ main \in Seq(Calls) /\ Len(main) = 10
      /\ main[1] = Do("admit", <<"mehta-party", <<"asha", "raj", "priya">>>>)
      /\ main[2] = Do("admit", <<"okafor-party", <<"ngozi", "chidi">>>>)
      /\ main[3] = Do("mark_ready", "asha") /\ main[4] = Do("mark_ready", "raj")
      /\ main[5] = Do("mark_ready", "ngozi") /\ main[6] = Do("mark_ready", "chidi")
      /\ main[7] = Do("peek", <<>>) /\ main[8] = Do("group_of", "asha")
      /\ main[9] = Do("mark_ready", "priya") /\ main[10] = Do("release_all", <<>>)
  <1> DEFINE admits == << Do("admit", <<"mehta-party", <<"asha", "raj", "priya">>>>),
                          Do("admit", <<"okafor-party", <<"ngozi", "chidi">>>>) >>
             marks == Each("mark_ready", <<"asha", "raj", "ngozi", "chidi">>)
             rest == << Do("peek", <<>>), Do("group_of", "asha"), Do("mark_ready", "priya"),
                        Do("release_all", <<>>) >>
  <1>1. {"asha", "raj", "priya", "ngozi", "chidi"} \subseteq People
    BY Vocabulary DEF Names
  <1>2. "mehta-party" \in Ids /\ "okafor-party" \in Ids
    BY DEF Ids
  <1>3. {"mark_ready", "peek", "group_of", "release_all"} \subseteq Ops
    BY DEF Ops
  <1>4. <<>> \in Args /\ People \subseteq Args
    BY Vocabulary DEF Words
  <1>5. /\ admits \in Seq(Calls) /\ Len(admits) = 2
        /\ admits[1] = Do("admit", <<"mehta-party", <<"asha", "raj", "priya">>>>)
        /\ admits[2] = Do("admit", <<"okafor-party", <<"ngozi", "chidi">>>>)
    <2>1. <<"asha", "raj", "priya">> \in Lists /\ <<"ngozi", "chidi">> \in Lists
      BY <1>1, ShortLists
    <2>2. /\ Do("admit", <<"mehta-party", <<"asha", "raj", "priya">>>>) \in Calls
          /\ Do("admit", <<"okafor-party", <<"ngozi", "chidi">>>>) \in Calls
      BY <1>2, <2>1, Statements
    <2> QED
      BY <2>2
  <1>6. /\ marks \in Seq(Calls) /\ Len(marks) = 4
        /\ marks[1] = Do("mark_ready", "asha") /\ marks[2] = Do("mark_ready", "raj")
        /\ marks[3] = Do("mark_ready", "ngozi") /\ marks[4] = Do("mark_ready", "chidi")
    <2>1. /\ marks = <<Do("mark_ready", "asha"), Do("mark_ready", "raj"),
                       Do("mark_ready", "ngozi"), Do("mark_ready", "chidi")>>
          /\ marks \in Seq(Calls)
      BY <1>1, <1>3, <1>4, EachOfFour
    <2> QED
      BY <2>1
  <1>7. /\ rest \in Seq(Calls) /\ Len(rest) = 4
        /\ rest[1] = Do("peek", <<>>) /\ rest[2] = Do("group_of", "asha")
        /\ rest[3] = Do("mark_ready", "priya") /\ rest[4] = Do("release_all", <<>>)
    <2>1. /\ Do("peek", <<>>) \in Calls /\ Do("group_of", "asha") \in Calls
          /\ Do("mark_ready", "priya") \in Calls /\ Do("release_all", <<>>) \in Calls
      BY <1>1, <1>3, <1>4, Statements
    <2> QED
      BY <2>1
  <1>8. /\ Restaurant.program = [main |-> admits \o marks \o rest]
        /\ Restaurant.strict = TRUE /\ Restaurant.left = {} /\ Restaurant.taken = <<1, 2>>
    BY DEF Restaurant, Scenario
  <1> HIDE DEF admits, marks, rest
  <1>9. PICK two : two = admits \o marks
    OBVIOUS
  <1>10. PICK three : three = two \o rest
    OBVIOUS
  <1>11. /\ two \in Seq(Calls) /\ Len(two) = 6 /\ two[1] = admits[1] /\ two[2] = admits[2]
         /\ two[3] = marks[1] /\ two[4] = marks[2] /\ two[5] = marks[3] /\ two[6] = marks[4]
    <2>0. admits \in Seq(Calls) /\ marks \in Seq(Calls)
      BY <1>5, <1>6
    <2>1. /\ two \in Seq(Calls) /\ Len(two) = Len(admits) + Len(marks)
          /\ \A i \in 1..Len(admits) : two[i] = admits[i]
          /\ \A i \in 1..Len(marks) : two[Len(admits) + i] = marks[i]
      BY <1>9, <2>0, Then
    <2>2. Len(admits) = 2 /\ Len(marks) = 4
      BY <1>5, <1>6, <1>9
    <2>3. \A i \in 1..4 : two[2 + i] = marks[i]
      BY <2>1, <2>2
    <2> QED
      BY <2>1, <2>2, <2>3
  <1>12. /\ three \in Seq(Calls) /\ Len(three) = 10 /\ \A i \in 1..6 : three[i] = two[i]
         /\ three[7] = rest[1] /\ three[8] = rest[2] /\ three[9] = rest[3] /\ three[10] = rest[4]
    <2>0. two \in Seq(Calls) /\ rest \in Seq(Calls)
      BY <1>7, <1>11
    <2>1. /\ three \in Seq(Calls) /\ Len(three) = Len(two) + Len(rest)
          /\ \A i \in 1..Len(two) : three[i] = two[i]
          /\ \A i \in 1..Len(rest) : three[Len(two) + i] = rest[i]
      BY <1>10, <2>0, Then
    <2>2. Len(two) = 6 /\ Len(rest) = 4
      BY <1>7, <1>10, <1>11
    <2>3. \A i \in 1..4 : three[6 + i] = rest[i]
      BY <2>1, <2>2
    <2> QED
      BY <2>1, <2>2, <2>3
  <1>13. Restaurant.program["main"] = three /\ DOMAIN Restaurant.program = {"main"}
    BY <1>8, <1>9, <1>10
  <1>14. /\ three[1] = admits[1] /\ three[2] = admits[2] /\ three[3] = marks[1]
         /\ three[4] = marks[2] /\ three[5] = marks[3] /\ three[6] = marks[4]
    BY <1>11, <1>12
  <1> QED
    BY <1>5, <1>6, <1>7, <1>8, <1>12, <1>13, <1>14

\* The lobbies, statement by statement.
LEMMA MatchmakingProgram ==
  LET main == Matchmaking.program["main"]
  IN  /\ Matchmaking.strict = FALSE /\ Matchmaking.left = {} /\ Matchmaking.taken = <<2, 1>>
      /\ DOMAIN Matchmaking.program = {"main"}
      /\ main \in Seq(Calls) /\ Len(main) = 10
      /\ main[1] = Do("admit", <<"lobby-alpha", <<"ada", "linus", "grace">>>>)
      /\ main[2] = Do("admit", <<"lobby-beta", <<"hedy", "alan">>>>)
      /\ main[3] = Do("mark_ready", "ada") /\ main[4] = Do("mark_ready", "hedy")
      /\ main[5] = Do("mark_ready", "alan") /\ main[6] = Do("release", <<>>)
      /\ main[7] = Do("group_of", "ada") /\ main[8] = Do("mark_ready", "linus")
      /\ main[9] = Do("mark_ready", "grace") /\ main[10] = Do("release", <<>>)
  <1> DEFINE admits == << Do("admit", <<"lobby-alpha", <<"ada", "linus", "grace">>>>),
                          Do("admit", <<"lobby-beta", <<"hedy", "alan">>>>) >>
             first == Each("mark_ready", <<"ada", "hedy", "alan">>)
             out == << Do("release", <<>>), Do("group_of", "ada") >>
             second == Each("mark_ready", <<"linus", "grace">>)
             rest == << Do("release", <<>>) >>
  <1>1. {"ada", "linus", "grace", "hedy", "alan"} \subseteq People
    BY Vocabulary DEF Names
  <1>2. "lobby-alpha" \in Ids /\ "lobby-beta" \in Ids
    BY DEF Ids
  <1>3. {"mark_ready", "release", "group_of"} \subseteq Ops
    BY DEF Ops
  <1>4. <<>> \in Args /\ People \subseteq Args
    BY Vocabulary DEF Words
  <1>5. /\ admits \in Seq(Calls) /\ Len(admits) = 2
        /\ admits[1] = Do("admit", <<"lobby-alpha", <<"ada", "linus", "grace">>>>)
        /\ admits[2] = Do("admit", <<"lobby-beta", <<"hedy", "alan">>>>)
    <2>1. <<"ada", "linus", "grace">> \in Lists /\ <<"hedy", "alan">> \in Lists
      BY <1>1, ShortLists
    <2>2. /\ Do("admit", <<"lobby-alpha", <<"ada", "linus", "grace">>>>) \in Calls
          /\ Do("admit", <<"lobby-beta", <<"hedy", "alan">>>>) \in Calls
      BY <1>2, <2>1, Statements
    <2> QED
      BY <2>2
  <1>6. /\ first \in Seq(Calls) /\ Len(first) = 3 /\ first[1] = Do("mark_ready", "ada")
        /\ first[2] = Do("mark_ready", "hedy") /\ first[3] = Do("mark_ready", "alan")
    <2>1. /\ first = <<Do("mark_ready", "ada"), Do("mark_ready", "hedy"), Do("mark_ready", "alan")>>
          /\ first \in Seq(Calls)
      BY <1>1, <1>3, <1>4, EachOfThree
    <2> QED
      BY <2>1
  <1>7. /\ second \in Seq(Calls) /\ Len(second) = 2
        /\ second[1] = Do("mark_ready", "linus") /\ second[2] = Do("mark_ready", "grace")
    <2>1. /\ second = <<Do("mark_ready", "linus"), Do("mark_ready", "grace")>>
          /\ second \in Seq(Calls)
      BY <1>1, <1>3, <1>4, EachOfTwo
    <2> QED
      BY <2>1
  <1>8. /\ out \in Seq(Calls) /\ Len(out) = 2
        /\ out[1] = Do("release", <<>>) /\ out[2] = Do("group_of", "ada")
        /\ rest \in Seq(Calls) /\ Len(rest) = 1 /\ rest[1] = Do("release", <<>>)
    <2>1. Do("release", <<>>) \in Calls /\ Do("group_of", "ada") \in Calls
      BY <1>1, <1>3, <1>4, Statements
    <2> QED
      BY <2>1
  <1>9. /\ Matchmaking.program = [main |-> admits \o first \o out \o second \o rest]
        /\ Matchmaking.strict = FALSE /\ Matchmaking.left = {} /\ Matchmaking.taken = <<2, 1>>
    BY DEF Matchmaking, Scenario
  <1> HIDE DEF admits, first, out, second, rest
  <1>10. PICK two : two = admits \o first
    OBVIOUS
  <1>11. PICK three : three = two \o out
    OBVIOUS
  <1>12. PICK four : four = three \o second
    OBVIOUS
  <1>13. PICK five : five = four \o rest
    OBVIOUS
  <1>14. /\ two \in Seq(Calls) /\ Len(two) = 5 /\ two[1] = admits[1] /\ two[2] = admits[2]
         /\ two[3] = first[1] /\ two[4] = first[2] /\ two[5] = first[3]
    <2>0. admits \in Seq(Calls) /\ first \in Seq(Calls)
      BY <1>5, <1>6
    <2>1. /\ two \in Seq(Calls) /\ Len(two) = Len(admits) + Len(first)
          /\ \A i \in 1..Len(admits) : two[i] = admits[i]
          /\ \A i \in 1..Len(first) : two[Len(admits) + i] = first[i]
      BY <1>10, <2>0, Then
    <2>2. Len(admits) = 2 /\ Len(first) = 3
      BY <1>5, <1>6, <1>10
    <2>3. \A i \in 1..3 : two[2 + i] = first[i]
      BY <2>1, <2>2
    <2> QED
      BY <2>1, <2>2, <2>3
  <1>15. /\ three \in Seq(Calls) /\ Len(three) = 7 /\ \A i \in 1..5 : three[i] = two[i]
         /\ three[6] = out[1] /\ three[7] = out[2]
    <2>0. two \in Seq(Calls) /\ out \in Seq(Calls)
      BY <1>8, <1>14
    <2>1. /\ three \in Seq(Calls) /\ Len(three) = Len(two) + Len(out)
          /\ \A i \in 1..Len(two) : three[i] = two[i]
          /\ \A i \in 1..Len(out) : three[Len(two) + i] = out[i]
      BY <1>11, <2>0, Then
    <2>2. Len(two) = 5 /\ Len(out) = 2
      BY <1>8, <1>11, <1>14
    <2>3. \A i \in 1..2 : three[5 + i] = out[i]
      BY <2>1, <2>2
    <2> QED
      BY <2>1, <2>2, <2>3
  <1>16. /\ four \in Seq(Calls) /\ Len(four) = 9 /\ \A i \in 1..7 : four[i] = three[i]
         /\ four[8] = second[1] /\ four[9] = second[2]
    <2>0. three \in Seq(Calls) /\ second \in Seq(Calls)
      BY <1>7, <1>15
    <2>1. /\ four \in Seq(Calls) /\ Len(four) = Len(three) + Len(second)
          /\ \A i \in 1..Len(three) : four[i] = three[i]
          /\ \A i \in 1..Len(second) : four[Len(three) + i] = second[i]
      BY <1>12, <2>0, Then
    <2>2. Len(three) = 7 /\ Len(second) = 2
      BY <1>7, <1>12, <1>15
    <2>3. \A i \in 1..2 : four[7 + i] = second[i]
      BY <2>1, <2>2
    <2> QED
      BY <2>1, <2>2, <2>3
  <1>17. /\ five \in Seq(Calls) /\ Len(five) = 10 /\ \A i \in 1..9 : five[i] = four[i]
         /\ five[10] = rest[1]
    <2>0. four \in Seq(Calls) /\ rest \in Seq(Calls)
      BY <1>8, <1>16
    <2>1. /\ five \in Seq(Calls) /\ Len(five) = Len(four) + Len(rest)
          /\ \A i \in 1..Len(four) : five[i] = four[i]
          /\ \A i \in 1..Len(rest) : five[Len(four) + i] = rest[i]
      BY <1>13, <2>0, Then
    <2>2. Len(four) = 9 /\ Len(rest) = 1
      BY <1>8, <1>13, <1>16
    <2>3. \A i \in 1..1 : five[9 + i] = rest[i]
      BY <2>1, <2>2
    <2> QED
      BY <2>1, <2>2, <2>3
  <1>18. Matchmaking.program["main"] = five /\ DOMAIN Matchmaking.program = {"main"}
    <2>1. five = admits \o first \o out \o second \o rest
      BY <1>10, <1>11, <1>12, <1>13
    <2> QED
      BY <1>9, <2>1
  <1>19. /\ five[1] = admits[1] /\ five[2] = admits[2] /\ five[3] = first[1]
         /\ five[4] = first[2] /\ five[5] = first[3] /\ five[6] = out[1] /\ five[7] = out[2]
         /\ five[8] = second[1] /\ five[9] = second[2] /\ five[10] = rest[1]
    BY <1>14, <1>15, <1>16, <1>17
  <1> QED
    BY <1>5, <1>6, <1>7, <1>8, <1>9, <1>17, <1>18, <1>19

\* The batches, statement by statement.
LEMMA BatchesProgram ==
  LET main == Batches.program["main"]
      of18 == <<<<"18", "clicks">>, <<"18", "views">>, <<"18", "spend">>>>
      of19 == <<<<"19", "clicks">>, <<"19", "views">>, <<"19", "spend">>>>
  IN  /\ Batches.strict = TRUE /\ Batches.left = {} /\ Batches.taken = <<1, 2>>
      /\ DOMAIN Batches.program = {"main"}
      /\ main \in Seq(Calls) /\ Len(main) = 9
      /\ main[1] = Do("admit", <<"18", of18>>) /\ main[2] = Do("admit", <<"19", of19>>)
      /\ main[3] = Do("mark_ready", <<"18", "clicks">>)
      /\ main[4] = Do("mark_ready", <<"18", "views">>)
      /\ main[5] = Do("mark_ready", <<"18", "spend">>)
      /\ main[6] = Do("mark_ready", <<"19", "clicks">>)
      /\ main[7] = Do("mark_ready", <<"19", "views">>)
      /\ main[8] = Do("release_all", <<>>) /\ main[9] = Do("cancel", "19")
  <1> DEFINE of18 == <<<<"18", "clicks">>, <<"18", "views">>, <<"18", "spend">>>>
             of19 == <<<<"19", "clicks">>, <<"19", "views">>, <<"19", "spend">>>>
             admits == << Do("admit", <<"18", of18>>), Do("admit", <<"19", of19>>) >>
             first == Each("mark_ready", of18)
             second == Each("mark_ready", Front(of19))
             rest == << Do("release_all", <<>>), Do("cancel", "19") >>
  <1>1. /\ \A x \in {"18", "19"}, y \in {"clicks", "views", "spend"} : <<x, y>> \in People
        /\ "18" \in Ids /\ "19" \in Ids
    BY Vocabulary DEF Shards, Ids
  <1>2. of18 \in Lists /\ of19 \in Lists
    BY <1>1, ShortLists
  <1>3. {"mark_ready", "release_all", "cancel"} \subseteq Ops
    BY DEF Ops
  <1>4. <<>> \in Args /\ People \subseteq Args /\ Ids \subseteq Args
    BY Vocabulary DEF Words
  <1>5. Front(of19) = <<<<"19", "clicks">>, <<"19", "views">>>>
    <2>1. PICK s : s = of19
      OBVIOUS
    <2>2. PICK u : u = <<<<"19", "clicks">>, <<"19", "views">>>>
      OBVIOUS
    <2>3. /\ s \in Seq(People) /\ Len(s) = 3 /\ u \in Seq(People) /\ Len(u) = 2
          /\ u[1] = s[1] /\ u[2] = s[2]
      BY <1>1, <2>1, <2>2
    <2>4. Front(s) = SubSeq(s, 1, 2)
      BY <2>3 DEF Front
    <2>5. SubSeq(s, 1, 2) = u
      BY <2>3
    <2> QED
      BY <2>1, <2>2, <2>4, <2>5
  <1>6. \A x \in {"18", "19"}, y \in {"clicks", "views", "spend"} : <<x, y>> \in Args
    BY <1>1, <1>4
  <1>7. /\ first \in Seq(Calls) /\ Len(first) = 3
        /\ first[1] = Do("mark_ready", <<"18", "clicks">>)
        /\ first[2] = Do("mark_ready", <<"18", "views">>)
        /\ first[3] = Do("mark_ready", <<"18", "spend">>)
    <2>1. /\ first = <<Do("mark_ready", <<"18", "clicks">>), Do("mark_ready", <<"18", "views">>),
                       Do("mark_ready", <<"18", "spend">>)>>
          /\ first \in Seq(Calls)
      BY <1>3, <1>6, EachOfThree
    <2> QED
      BY <2>1
  <1>8. /\ second \in Seq(Calls) /\ Len(second) = 2
        /\ second[1] = Do("mark_ready", <<"19", "clicks">>)
        /\ second[2] = Do("mark_ready", <<"19", "views">>)
    <2>1. PICK s : s = Each("mark_ready", <<<<"19", "clicks">>, <<"19", "views">>>>)
      OBVIOUS
    <2>2. /\ s = <<Do("mark_ready", <<"19", "clicks">>), Do("mark_ready", <<"19", "views">>)>>
          /\ s \in Seq(Calls)
      BY <1>3, <1>6, <2>1, EachOfTwo
    <2>3. second = s
      BY <1>5, <2>1
    <2> HIDE DEF second
    <2> QED
      BY <2>2, <2>3
  <1>9. /\ Batches.program = [main |-> admits \o first \o second \o rest]
        /\ Batches.strict = TRUE /\ Batches.left = {} /\ Batches.taken = <<1, 2>>
    BY DEF Batches, Scenario
  <1> HIDE DEF of18, of19
  <1>10. /\ admits \in Seq(Calls) /\ Len(admits) = 2
         /\ admits[1] = Do("admit", <<"18", of18>>) /\ admits[2] = Do("admit", <<"19", of19>>)
    <2>1. Do("admit", <<"18", of18>>) \in Calls /\ Do("admit", <<"19", of19>>) \in Calls
      BY <1>1, <1>2, Statements
    <2> QED
      BY <2>1
  <1>11. /\ rest \in Seq(Calls) /\ Len(rest) = 2
         /\ rest[1] = Do("release_all", <<>>) /\ rest[2] = Do("cancel", "19")
    <2>1. Do("release_all", <<>>) \in Calls /\ Do("cancel", "19") \in Calls
      BY <1>1, <1>3, <1>4, Statements
    <2> QED
      BY <2>1
  <1> HIDE DEF admits, first, second, rest
  <1>12. PICK two : two = admits \o first
    OBVIOUS
  <1>13. PICK three : three = two \o second
    OBVIOUS
  <1>14. PICK four : four = three \o rest
    OBVIOUS
  <1>15. /\ two \in Seq(Calls) /\ Len(two) = 5 /\ two[1] = admits[1] /\ two[2] = admits[2]
         /\ two[3] = first[1] /\ two[4] = first[2] /\ two[5] = first[3]
    <2>0. admits \in Seq(Calls) /\ first \in Seq(Calls)
      BY <1>7, <1>10
    <2>1. /\ two \in Seq(Calls) /\ Len(two) = Len(admits) + Len(first)
          /\ \A i \in 1..Len(admits) : two[i] = admits[i]
          /\ \A i \in 1..Len(first) : two[Len(admits) + i] = first[i]
      BY <1>12, <2>0, Then
    <2>2. Len(admits) = 2 /\ Len(first) = 3
      BY <1>7, <1>10, <1>12
    <2>3. \A i \in 1..3 : two[2 + i] = first[i]
      BY <2>1, <2>2
    <2> QED
      BY <2>1, <2>2, <2>3
  <1>16. /\ three \in Seq(Calls) /\ Len(three) = 7 /\ \A i \in 1..5 : three[i] = two[i]
         /\ three[6] = second[1] /\ three[7] = second[2]
    <2>0. two \in Seq(Calls) /\ second \in Seq(Calls)
      BY <1>8, <1>15
    <2>1. /\ three \in Seq(Calls) /\ Len(three) = Len(two) + Len(second)
          /\ \A i \in 1..Len(two) : three[i] = two[i]
          /\ \A i \in 1..Len(second) : three[Len(two) + i] = second[i]
      BY <1>13, <2>0, Then
    <2>2. Len(two) = 5 /\ Len(second) = 2
      BY <1>8, <1>13, <1>15
    <2>3. \A i \in 1..2 : three[5 + i] = second[i]
      BY <2>1, <2>2
    <2> QED
      BY <2>1, <2>2, <2>3
  <1>17. /\ four \in Seq(Calls) /\ Len(four) = 9 /\ \A i \in 1..7 : four[i] = three[i]
         /\ four[8] = rest[1] /\ four[9] = rest[2]
    <2>0. three \in Seq(Calls) /\ rest \in Seq(Calls)
      BY <1>11, <1>16
    <2>1. /\ four \in Seq(Calls) /\ Len(four) = Len(three) + Len(rest)
          /\ \A i \in 1..Len(three) : four[i] = three[i]
          /\ \A i \in 1..Len(rest) : four[Len(three) + i] = rest[i]
      BY <1>14, <2>0, Then
    <2>2. Len(three) = 7 /\ Len(rest) = 2
      BY <1>11, <1>14, <1>16
    <2>3. \A i \in 1..2 : four[7 + i] = rest[i]
      BY <2>1, <2>2
    <2> QED
      BY <2>1, <2>2, <2>3
  <1>18. Batches.program["main"] = four /\ DOMAIN Batches.program = {"main"}
    BY <1>9, <1>12, <1>13, <1>14
  <1>19. /\ four[1] = admits[1] /\ four[2] = admits[2] /\ four[3] = first[1]
         /\ four[4] = first[2] /\ four[5] = first[3] /\ four[6] = second[1]
         /\ four[7] = second[2] /\ four[8] = rest[1] /\ four[9] = rest[2]
    BY <1>15, <1>16, <1>17
  <1> HIDE DEF of18, of19
  <1>20. /\ four[1] = Do("admit", <<"18", of18>>) /\ four[2] = Do("admit", <<"19", of19>>)
    BY <1>10, <1>19
  <1>21. /\ four[3] = Do("mark_ready", <<"18", "clicks">>)
         /\ four[4] = Do("mark_ready", <<"18", "views">>)
         /\ four[5] = Do("mark_ready", <<"18", "spend">>)
         /\ four[6] = Do("mark_ready", <<"19", "clicks">>)
         /\ four[7] = Do("mark_ready", <<"19", "views">>)
         /\ four[8] = Do("release_all", <<>>) /\ four[9] = Do("cancel", "19")
    BY <1>7, <1>8, <1>11, <1>19
  <1> QED
    BY <1>9, <1>17, <1>18, <1>20, <1>21 DEF of18, of19

\* The guarded shifts, statement by statement.
LEMMA GuardedProgram ==
  LET main == Guarded.program["main"]
  IN  /\ Guarded.strict = TRUE /\ Guarded.left = {"shift-a"} /\ Guarded.taken = <<>>
      /\ DOMAIN Guarded.program = {"main"}
      /\ main \in Seq(Calls) /\ Len(main) = 3
      /\ main[1] = Do("admit", <<"shift-a", <<"nurse-1", "nurse-2">>>>)
      /\ main[2] = Try("admit", <<"shift-b", <<"nurse-2", "nurse-3">>>>)
      /\ main[3] = Do("group_of", "nurse-2")
  <1>1. {"nurse-1", "nurse-2", "nurse-3"} \subseteq People
    BY Vocabulary DEF Names
  <1>2. "shift-a" \in Ids /\ "shift-b" \in Ids /\ "group_of" \in Ops
    BY DEF Ids, Ops
  <1>3. <<"nurse-1", "nurse-2">> \in Lists /\ <<"nurse-2", "nurse-3">> \in Lists
    BY <1>1, ShortLists
  <1>4. /\ Do("admit", <<"shift-a", <<"nurse-1", "nurse-2">>>>) \in Calls
        /\ Try("admit", <<"shift-b", <<"nurse-2", "nurse-3">>>>) \in Calls
        /\ Do("group_of", "nurse-2") \in Calls
    BY <1>1, <1>2, <1>3, Vocabulary, Statements
  <1>5. PICK main : main = << Do("admit", <<"shift-a", <<"nurse-1", "nurse-2">>>>),
                              Try("admit", <<"shift-b", <<"nurse-2", "nurse-3">>>>),
                              Do("group_of", "nurse-2") >>
    OBVIOUS
  <1>6. /\ main \in Seq(Calls) /\ Len(main) = 3
        /\ main[1] = Do("admit", <<"shift-a", <<"nurse-1", "nurse-2">>>>)
        /\ main[2] = Try("admit", <<"shift-b", <<"nurse-2", "nurse-3">>>>)
        /\ main[3] = Do("group_of", "nurse-2")
    BY <1>4, <1>5
  <1>7. /\ Guarded.program = [main |-> main]
        /\ Guarded.strict = TRUE /\ Guarded.left = {"shift-a"} /\ Guarded.taken = <<>>
    BY <1>5 DEF Guarded, Scenario
  <1> QED
    BY <1>6, <1>7

\* The request and its parts, statement by statement.
LEMMA FanOutProgram ==
  LET main == FanOut.program["main"]
      parts == {"profile", "orders", "recommendations"}
  IN  /\ FanOut.strict /\ FanOut.left = {} /\ FanOut.taken = <<1>>
      /\ DOMAIN FanOut.program = {"main"} \cup parts
      /\ main \in Seq(Calls) /\ Len(main) = 9
      /\ main[1] = Do("admit", <<"request-7", <<"profile", "orders", "recommendations">>>>)
      /\ main[2] = Do("start", "profile") /\ main[3] = Do("start", "orders")
      /\ main[4] = Do("start", "recommendations")
      /\ main[5] = Do("join", "profile") /\ main[6] = Do("join", "orders")
      /\ main[7] = Do("join", "recommendations")
      /\ main[8] = Do("release", <<>>)
      /\ main[9] = Do("respond", <<"profile", "orders", "recommendations">>)
      /\ \A t \in parts : /\ FanOut.program[t] \in Seq(Calls)
                          /\ FanOut.program[t] = << Do("note", t), Do("mark_ready", t) >>
  <1> DEFINE list == <<"profile", "orders", "recommendations">>
             parts == {"profile", "orders", "recommendations"}
             first == << Do("admit", <<"request-7", list>>) >>
             starts == Each("start", list)
             joins == Each("join", list)
             rest == << Do("release", <<>>), Do("respond", list) >>
             main == first \o starts \o joins \o rest
  <1>1. parts \subseteq People /\ parts \subseteq Args /\ "request-7" \in Ids /\ <<>> \in Args
    BY Vocabulary DEF Names, Ids, Words
  <1>2. {"start", "join", "release", "respond", "note", "mark_ready"} \subseteq Ops
    BY DEF Ops
  <1>3. list \in Lists /\ list \in Args /\ Range(list) = parts
    <2>1. list \in Lists
      BY <1>1, ShortLists
    <2>2. Range(list) = parts
      BY DEF Range
    <2> QED
      BY <2>1, <2>2, Vocabulary
  <1>4. /\ FanOut.strict /\ FanOut.left = {} /\ FanOut.taken = <<1>>
        /\ FanOut.program = [t \in {"main"} \cup parts |->
             IF t = "main" THEN main ELSE << Do("note", t), Do("mark_ready", t) >>]
    BY <1>3 DEF FanOut, Scenario
  <1>5. first \in Seq(Calls) /\ Len(first) = 1 /\ first[1] = Do("admit", <<"request-7", list>>)
    <2>1. Do("admit", <<"request-7", list>>) \in Calls
      BY <1>1, <1>3, Statements
    <2> QED
      BY <2>1
  <1>6. /\ starts \in Seq(Calls) /\ Len(starts) = 3 /\ starts[1] = Do("start", "profile")
        /\ starts[2] = Do("start", "orders") /\ starts[3] = Do("start", "recommendations")
    <2>1. starts \in Seq(Calls) /\ starts = <<Do("start", "profile"), Do("start", "orders"),
                                              Do("start", "recommendations")>>
      BY <1>1, <1>2, EachOfThree
    <2> QED
      BY <2>1
  <1>7. /\ joins \in Seq(Calls) /\ Len(joins) = 3 /\ joins[1] = Do("join", "profile")
        /\ joins[2] = Do("join", "orders") /\ joins[3] = Do("join", "recommendations")
    <2>1. joins \in Seq(Calls) /\ joins = <<Do("join", "profile"), Do("join", "orders"),
                                            Do("join", "recommendations")>>
      BY <1>1, <1>2, EachOfThree
    <2> QED
      BY <2>1
  <1>8. /\ rest \in Seq(Calls) /\ Len(rest) = 2
        /\ rest[1] = Do("release", <<>>) /\ rest[2] = Do("respond", list)
    <2>1. Do("release", <<>>) \in Calls /\ Do("respond", list) \in Calls
      BY <1>1, <1>2, <1>3, Statements
    <2> QED
      BY <2>1
  <1>9. \A t \in parts : /\ << Do("note", t), Do("mark_ready", t) >> \in Seq(Calls)
                         /\ t # "main"
    <2>1. \A t \in parts : Do("note", t) \in Calls /\ Do("mark_ready", t) \in Calls
      BY <1>1, <1>2, Statements
    <2> QED
      BY <2>1
  <1> HIDE DEF first, starts, joins, rest
  <1>10. PICK two : two = first \o starts
    OBVIOUS
  <1>11. PICK three : three = two \o joins
    OBVIOUS
  <1>12. PICK four : four = three \o rest
    OBVIOUS
  <1>14. /\ two \in Seq(Calls) /\ Len(two) = 4 /\ two[1] = first[1]
         /\ two[2] = starts[1] /\ two[3] = starts[2] /\ two[4] = starts[3]
    <2>1. /\ two \in Seq(Calls) /\ Len(two) = Len(first) + Len(starts)
          /\ \A i \in 1..Len(first) : two[i] = first[i]
      BY <1>5, <1>6, <1>10, Then
    <2>2. /\ Len(starts) >= 1 => two[1 + 1] = starts[1]
          /\ Len(starts) >= 2 => two[1 + 2] = starts[2]
          /\ Len(starts) >= 3 => two[1 + 3] = starts[3]
      BY <1>5, <1>6, <1>10, ThenFew
    <2>3. Len(first) = 1 /\ Len(starts) = 3
      BY <1>5, <1>6
    <2> QED
      BY <2>1, <2>2, <2>3
  <1>15. /\ three \in Seq(Calls) /\ Len(three) = 7 /\ \A i \in 1..4 : three[i] = two[i]
         /\ three[5] = joins[1] /\ three[6] = joins[2] /\ three[7] = joins[3]
    <2>1. /\ three \in Seq(Calls) /\ Len(three) = Len(two) + Len(joins)
          /\ \A i \in 1..Len(two) : three[i] = two[i]
      BY <1>7, <1>14, <1>11, Then
    <2>2. /\ Len(joins) >= 1 => three[4 + 1] = joins[1]
          /\ Len(joins) >= 2 => three[4 + 2] = joins[2]
          /\ Len(joins) >= 3 => three[4 + 3] = joins[3]
      BY <1>7, <1>14, <1>11, ThenFew
    <2>3. Len(two) = 4 /\ Len(joins) = 3
      BY <1>7, <1>14
    <2> QED
      BY <2>1, <2>2, <2>3
  <1>16. /\ four \in Seq(Calls) /\ Len(four) = 9 /\ \A i \in 1..7 : four[i] = three[i]
         /\ four[8] = rest[1] /\ four[9] = rest[2]
    <2>1. /\ four \in Seq(Calls) /\ Len(four) = Len(three) + Len(rest)
          /\ \A i \in 1..Len(three) : four[i] = three[i]
      BY <1>8, <1>15, <1>12, Then
    <2>2. /\ Len(rest) >= 1 => four[7 + 1] = rest[1]
          /\ Len(rest) >= 2 => four[7 + 2] = rest[2]
      BY <1>8, <1>15, <1>12, ThenFew
    <2>3. Len(three) = 7 /\ Len(rest) = 2
      BY <1>8, <1>15
    <2> QED
      BY <2>1, <2>2, <2>3
  <1>13. main = four
    BY <1>10, <1>11, <1>12
  <1> HIDE DEF main
  <1> QED
    BY <1>4, <1>5, <1>6, <1>7, <1>8, <1>9, <1>14, <1>15, <1>16, <1>13

\* A list of statements, by its parts.
LEMMA PairsJoin ==
  ASSUME NEW s \in Seq(Calls), NEW t \in Seq(Calls), Len(s) = 2, Len(t) = 2
  PROVE  s \o t = <<s[1], s[2], t[1], t[2]>>
  <1>1. PICK u : u = s \o t
    OBVIOUS
  <1>2. u \in Seq(Calls) /\ Len(u) = 4 /\ u[1] = s[1] /\ u[2] = s[2]
    <2>1. u \in Seq(Calls) /\ Len(u) = Len(s) + Len(t) /\ \A i \in 1..Len(s) : u[i] = s[i]
      BY <1>1, Then
    <2> QED
      BY <2>1
  <1>3. u[3] = t[1] /\ u[4] = t[2]
    <2>1. /\ Len(t) >= 1 => u[2 + 1] = t[1]
          /\ Len(t) >= 2 => u[2 + 2] = t[2]
      BY <1>1, ThenFew
    <2> QED
      BY <2>1
  <1>4. u = <<u[1], u[2], u[3], u[4]>>
    BY <1>2
  <1> QED
    BY <1>1, <1>2, <1>3, <1>4

\* The same with three and three.
LEMMA TriplesJoin ==
  ASSUME NEW s \in Seq(Calls), NEW t \in Seq(Calls), Len(s) = 3, Len(t) = 3
  PROVE  s \o t = <<s[1], s[2], s[3], t[1], t[2], t[3]>>
  <1>1. PICK u : u = s \o t
    OBVIOUS
  <1>2. u \in Seq(Calls) /\ Len(u) = 6 /\ u[1] = s[1] /\ u[2] = s[2] /\ u[3] = s[3]
    <2>1. u \in Seq(Calls) /\ Len(u) = Len(s) + Len(t) /\ \A i \in 1..Len(s) : u[i] = s[i]
      BY <1>1, Then
    <2> QED
      BY <2>1
  <1>3. u[4] = t[1] /\ u[5] = t[2] /\ u[6] = t[3]
    <2>1. /\ Len(t) >= 1 => u[3 + 1] = t[1]
          /\ Len(t) >= 2 => u[3 + 2] = t[2]
          /\ Len(t) >= 3 => u[3 + 3] = t[3]
      BY <1>1, ThenFew
    <2> QED
      BY <2>1
  <1>4. u = <<u[1], u[2], u[3], u[4], u[5], u[6]>>
    BY <1>2
  <1> QED
    BY <1>1, <1>2, <1>3, <1>4

\* Groups given one after the other.
LEMMA OneAndOne ==
  /\ \A a, b \in Nat : <<a>> \o <<b>> = <<a, b>>
  /\ \A a \in Nat : <<>> \o <<a>> = <<a>>
  <1>1. ASSUME NEW a \in Nat, NEW b \in Nat
        PROVE  <<a>> \o <<b>> = <<a, b>>
    <2>1. PICK s : s = <<a>>
      OBVIOUS
    <2>2. PICK u : u = <<b>>
      OBVIOUS
    <2>3. PICK v : v = s \o u
      OBVIOUS
    <2>4. s \in Seq(Nat) /\ u \in Seq(Nat) /\ Len(s) = 1 /\ Len(u) = 1 /\ s[1] = a /\ u[1] = b
      BY <2>1, <2>2
    <2>5. v \in Seq(Nat) /\ Len(v) = 2 /\ v[1] = a /\ v[2] = b
      <3>1. /\ v \in Seq(Nat) /\ Len(v) = Len(s) + Len(u)
            /\ \A i \in 1..Len(v) : v[i] = IF i <= Len(s) THEN s[i] ELSE u[i - Len(s)]
        BY <2>3, <2>4, ConcatProperties
      <3>2. Len(v) = 2 /\ \A i \in 1..2 : v[i] = IF i <= 1 THEN s[i] ELSE u[i - 1]
        BY <2>4, <3>1
      <3>3. PICK one, two \in 1..2 : one = 1 /\ two = 2
        OBVIOUS
      <3>4. v[one] = s[one] /\ v[two] = u[two - 1]
        BY <3>2, <3>3
      <3> QED
        BY <2>4, <3>1, <3>2, <3>3, <3>4
    <2>6. v = <<v[1], v[2]>>
      BY <2>5
    <2> QED
      BY <2>1, <2>2, <2>3, <2>5, <2>6
  <1>2. ASSUME NEW a \in Nat
        PROVE  <<>> \o <<a>> = <<a>>
    <2>1. <<a>> \in Seq(Nat)
      OBVIOUS
    <2> QED
      BY <2>1, ConcatEmptySeq
  <1> QED
    BY <1>1, <1>2

\* release_all gives the groups in the order of their numbers.
LEMMA InOrder ==
  ASSUME NEW gs \in Seq(Nat), \A i, j \in DOMAIN gs : i < j => gs[i] < gs[j]
  PROVE  /\ Range(gs) = {1} => gs = <<1>>
         /\ Range(gs) = {1, 2} => gs = <<1, 2>>
  <1>1. PICK n \in Nat : n = Len(gs)
    OBVIOUS
  <1>2. DOMAIN gs = 1..n /\ \A i \in 1..n : gs[i] \in Range(gs) /\ gs[i] \in Nat
    BY <1>1 DEF Range
  <1>3. ASSUME Range(gs) = {1} PROVE gs = <<1>>
    <2>1. \A i \in 1..n : gs[i] = 1
      BY <1>2, <1>3
    <2>2. n < 2
      <3>1. n >= 2 => 1 \in 1..n /\ 2 \in 1..n
        OBVIOUS
      <3> QED
        BY <1>2, <2>1, <3>1
    <2>3. n # 0
      <3>1. \E i \in DOMAIN gs : gs[i] = 1
        BY <1>3 DEF Range
      <3> QED
        BY <1>2, <3>1
    <2>4. n = 1 /\ gs[1] = 1
      BY <2>1, <2>2, <2>3
    <2>5. Len(gs) = 1 /\ gs \in Seq(Nat)
      BY <1>1, <2>4
    <2>6. gs = <<gs[1]>>
      BY <2>5
    <2> QED
      BY <2>4, <2>6
  <1>4. ASSUME Range(gs) = {1, 2} PROVE gs = <<1, 2>>
    <2>1. \A i \in 1..n : gs[i] \in {1, 2}
      BY <1>2, <1>4
    <2>2. PICK i \in 1..n : gs[i] = 1
      BY <1>2, <1>4 DEF Range
    <2>3. PICK j \in 1..n : gs[j] = 2
      BY <1>2, <1>4 DEF Range
    <2>4. n >= 2
      BY <2>2, <2>3
    <2>5. ~ (n >= 3)
      <3>1. n >= 3 => 1 \in 1..n /\ 2 \in 1..n /\ 3 \in 1..n
        OBVIOUS
      <3>2. ASSUME n >= 3 PROVE gs[1] < gs[2] /\ gs[2] < gs[3]
        <4>1. \A k, l \in 1..n : k < l => gs[k] < gs[l]
          BY <1>2
        <4>2. PICK k, l, m \in 1..n : k = 1 /\ l = 2 /\ m = 3
          BY <3>1, <3>2
        <4>3. gs[k] < gs[l] /\ gs[l] < gs[m]
          BY <4>1, <4>2
        <4> QED
          BY <4>2, <4>3
      <3>3. n >= 3 => gs[1] \in {1, 2} /\ gs[2] \in {1, 2} /\ gs[3] \in {1, 2}
        BY <2>1, <3>1
      <3> QED
        BY <3>2, <3>3
    <2>6. n = 2 /\ 1 \in 1..n /\ 2 \in 1..n
      BY <2>4, <2>5
    <2>7. gs[1] < gs[2] /\ gs[1] \in {1, 2} /\ gs[2] \in {1, 2}
      BY <1>2, <2>1, <2>6
    <2>8. gs[1] = 1 /\ gs[2] = 2
      BY <2>7
    <2>9. Len(gs) = 2 /\ gs \in Seq(Nat)
      BY <1>1, <2>6
    <2>10. gs = <<gs[1], gs[2]>>
      BY <2>9
    <2> QED
      BY <2>8, <2>10
  <1> QED
    BY <1>3, <1>4

\* The main thread starts some threads and then joins them.
LEMMA RunOfTwo ==
  ASSUME NEW a \in Args, NEW b \in Args
  PROVE  /\ Run(<<a, b>>) = <<Do("start", a), Do("start", b), Do("join", a), Do("join", b)>>
         /\ Run(<<a, b>>) \in Seq(Calls)
  <1>1. {"start", "join"} \subseteq Ops
    BY DEF Ops
  <1>2. PICK s : s = Each("start", <<a, b>>)
    OBVIOUS
  <1>3. PICK t : t = Each("join", <<a, b>>)
    OBVIOUS
  <1>4. /\ s = <<Do("start", a), Do("start", b)>> /\ s \in Seq(Calls)
        /\ t = <<Do("join", a), Do("join", b)>> /\ t \in Seq(Calls)
    BY <1>1, <1>2, <1>3, EachOfTwo
  <1>5. Len(s) = 2 /\ Len(t) = 2
    BY <1>4
  <1>6. s \o t = <<s[1], s[2], t[1], t[2]>> /\ s \o t \in Seq(Calls)
    BY <1>4, <1>5, PairsJoin, Then
  <1>7. /\ s[1] = Do("start", a) /\ s[2] = Do("start", b)
        /\ t[1] = Do("join", a) /\ t[2] = Do("join", b)
    BY <1>4
  <1> QED
    BY <1>2, <1>3, <1>6, <1>7 DEF Run

\* The same with three threads.
LEMMA RunOfThree ==
  ASSUME NEW a \in Args, NEW b \in Args, NEW c \in Args
  PROVE  /\ Run(<<a, b, c>>) = <<Do("start", a), Do("start", b), Do("start", c),
                                 Do("join", a), Do("join", b), Do("join", c)>>
         /\ Run(<<a, b, c>>) \in Seq(Calls)
  <1>1. {"start", "join"} \subseteq Ops
    BY DEF Ops
  <1>2. PICK s : s = Each("start", <<a, b, c>>)
    OBVIOUS
  <1>3. PICK t : t = Each("join", <<a, b, c>>)
    OBVIOUS
  <1>4. /\ s = <<Do("start", a), Do("start", b), Do("start", c)>> /\ s \in Seq(Calls)
        /\ t = <<Do("join", a), Do("join", b), Do("join", c)>> /\ t \in Seq(Calls)
    BY <1>1, <1>2, <1>3, EachOfThree
  <1>5. Len(s) = 3 /\ Len(t) = 3
    BY <1>4
  <1>6. s \o t = <<s[1], s[2], s[3], t[1], t[2], t[3]>> /\ s \o t \in Seq(Calls)
    BY <1>4, <1>5, TriplesJoin, Then
  <1>7. /\ s[1] = Do("start", a) /\ s[2] = Do("start", b) /\ s[3] = Do("start", c)
        /\ t[1] = Do("join", a) /\ t[2] = Do("join", b) /\ t[3] = Do("join", c)
    BY <1>4
  <1> QED
    BY <1>2, <1>3, <1>6, <1>7 DEF Run

\* Numbers are admitted one by one, and each group is marked before the next comes.
LEMMA AdmittedProgram ==
  /\ Admitted \in Seq(Calls) /\ Len(Admitted) = 2 * Count
  /\ \A k \in 1..Count :
       /\ 2 * k - 1 \in 1..(2 * Count) /\ 2 * k \in 1..(2 * Count)
       /\ Admitted[2 * k - 1] = Do("admit", <<k, <<k>>>>)
       /\ Admitted[2 * k] = Do("mark_group_ready", k)
  /\ \A i \in 1..(2 * Count) : \E k \in 1..Count : i = 2 * k - 1 \/ i = 2 * k
  <1>1. \A i \in 1..(2 * Count) : \E k \in 1..Count : i = 2 * k - 1 \/ i = 2 * k
    <2> TAKE i \in 1..(2 * Count)
    <2> DEFINE k == (i + 1) \div 2
    <2>1. k \in 1..Count
      BY CountAssumption
    <2>2. i = 2 * k - 1 \/ i = 2 * k
      OBVIOUS
    <2> QED
      BY <2>1, <2>2
  <1>2. ASSUME NEW k \in 1..Count
        PROVE  /\ 2 * k - 1 \in 1..(2 * Count) /\ 2 * k \in 1..(2 * Count)
               /\ Admitted[2 * k - 1] = Do("admit", <<k, <<k>>>>)
               /\ Admitted[2 * k] = Do("mark_group_ready", k)
    <2>1. 2 * k - 1 \in 1..(2 * Count) /\ 2 * k \in 1..(2 * Count)
      BY CountAssumption
    <2>2. /\ (2 * k - 1) % 2 = 1 /\ (2 * k) % 2 # 1
          /\ (2 * k - 1 + 1) \div 2 = k /\ (2 * k) \div 2 = k
      OBVIOUS
    <2> QED
      BY <2>1, <2>2 DEF Admitted
  <1>3. ASSUME NEW k \in 1..Count
        PROVE  Do("admit", <<k, <<k>>>>) \in Calls /\ Do("mark_group_ready", k) \in Calls
    <2>1. k \in People /\ k \in Ids /\ k \in Args /\ "mark_group_ready" \in Ops
      BY CountAssumption, Vocabulary DEF Ops
    <2> QED
      BY <2>1, ShortLists, Statements
  <1>4. Admitted \in [1..(2 * Count) -> Calls]
    <2>1. DOMAIN Admitted = 1..(2 * Count) /\ Admitted = [i \in 1..(2 * Count) |-> Admitted[i]]
      BY DEF Admitted
    <2>2. \A i \in 1..(2 * Count) : Admitted[i] \in Calls
      BY <1>1, <1>2, <1>3
    <2> QED
      BY <2>1, <2>2
  <1> HIDE DEF Admitted
  <1>5. 2 * Count \in Nat
    BY CountAssumption
  <1> QED
    BY <1>1, <1>2, <1>4, <1>5

\* Main admits the numbers and then runs two threads.
LEMMA AdmittedThenTwo ==
  ASSUME NEW a \in Args, NEW b \in Args
  PROVE  LET main == Admitted \o Run(<<a, b>>)
         IN  /\ main \in Seq(Calls) /\ Len(main) = 2 * Count + 4
             /\ \A i \in 1..(2 * Count) : main[i] = Admitted[i]
             /\ main[2 * Count + 1] = Do("start", a) /\ main[2 * Count + 2] = Do("start", b)
             /\ main[2 * Count + 3] = Do("join", a) /\ main[2 * Count + 4] = Do("join", b)
  <1>1. PICK s : s = Admitted
    OBVIOUS
  <1>2. PICK t : t = Run(<<a, b>>)
    OBVIOUS
  <1>3. PICK u : u = s \o t
    OBVIOUS
  <1>4. /\ t = <<Do("start", a), Do("start", b), Do("join", a), Do("join", b)>>
        /\ t \in Seq(Calls)
    BY <1>2, RunOfTwo
  <1>5. /\ Len(t) = 4 /\ t[1] = Do("start", a) /\ t[2] = Do("start", b)
        /\ t[3] = Do("join", a) /\ t[4] = Do("join", b)
    BY <1>4
  <1>6. s \in Seq(Calls) /\ Len(s) = 2 * Count
    BY <1>1, AdmittedProgram
  <1>7. PICK n \in Nat : n = 2 * Count
    BY CountAssumption
  <1>8. /\ u \in Seq(Calls) /\ Len(u) = Len(s) + Len(t)
        /\ \A i \in 1..Len(s) : u[i] = s[i]
        /\ \A i \in 1..Len(t) : u[Len(s) + i] = t[i]
    BY <1>3, <1>4, <1>6, Then
  <1>9. /\ u[n + 1] = t[1] /\ u[n + 2] = t[2] /\ u[n + 3] = t[3] /\ u[n + 4] = t[4]
    <2>1. Len(s) = n /\ 1..Len(t) = 1..4
      BY <1>5, <1>6, <1>7
    <2>2. \A i \in 1..4 : u[n + i] = t[i]
      BY <1>8, <2>1
    <2>3. 1 \in 1..4 /\ 2 \in 1..4 /\ 3 \in 1..4 /\ 4 \in 1..4
      OBVIOUS
    <2> QED
      BY <2>2, <2>3
  <1>10. Len(u) = n + 4 /\ \A i \in 1..n : u[i] = s[i]
    BY <1>5, <1>6, <1>7, <1>8
  <1> QED
    BY <1>1, <1>2, <1>3, <1>5, <1>7, <1>8, <1>9, <1>10

\* The threads that drain, statement by statement.
LEMMA DrainsProgram ==
  ASSUME NEW strict \in BOOLEAN
  PROVE  LET program == Drains(strict).program
             main == program["main"]
         IN  /\ Drains(strict).strict = strict /\ Drains(strict).left = {}
             /\ Drains(strict).taken = <<>>
             /\ DOMAIN program = {"main", "one", "two"}
             /\ main \in Seq(Calls) /\ Len(main) = 2 * Count + 4
             /\ \A i \in 1..(2 * Count) : main[i] = Admitted[i]
             /\ main[2 * Count + 1] = Do("start", "one")
             /\ main[2 * Count + 2] = Do("start", "two")
             /\ main[2 * Count + 3] = Do("join", "one")
             /\ main[2 * Count + 4] = Do("join", "two")
             /\ \A t \in {"one", "two"} : /\ program[t] \in Seq(Calls) /\ Len(program[t]) = 1
                                          /\ program[t][1] = Do("drain", <<>>)
  <1>1. "one" \in Args /\ "two" \in Args /\ <<>> \in Args /\ "drain" \in Ops
    BY Vocabulary DEF Names, Words, Ops
  <1>2. /\ Drains(strict).strict = strict /\ Drains(strict).left = {}
        /\ Drains(strict).taken = <<>>
        /\ Drains(strict).program = [main |-> Admitted \o Run(<<"one", "two">>),
                                     one |-> << Do("drain", <<>>) >>,
                                     two |-> << Do("drain", <<>>) >>]
    BY DEF Drains, Scenario
  <1>3. PICK d : d = Do("drain", <<>>)
    OBVIOUS
  <1>4. << d >> \in Seq(Calls) /\ Len(<< d >>) = 1 /\ << d >>[1] = d
    BY <1>1, <1>3, Statements
  <1>5. PICK main : main = Admitted \o Run(<<"one", "two">>)
    OBVIOUS
  <1>6. /\ main \in Seq(Calls) /\ Len(main) = 2 * Count + 4
        /\ \A i \in 1..(2 * Count) : main[i] = Admitted[i]
        /\ main[2 * Count + 1] = Do("start", "one") /\ main[2 * Count + 2] = Do("start", "two")
        /\ main[2 * Count + 3] = Do("join", "one") /\ main[2 * Count + 4] = Do("join", "two")
    BY <1>1, <1>5, AdmittedThenTwo
  <1>7. /\ DOMAIN Drains(strict).program = {"main", "one", "two"}
        /\ Drains(strict).program["main"] = main
        /\ Drains(strict).program["one"] = << d >> /\ Drains(strict).program["two"] = << d >>
    BY <1>2, <1>3, <1>5
  <1> QED
    BY <1>2, <1>3, <1>4, <1>6, <1>7

\* Cancelling against releasing, statement by statement.
LEMMA CancelReleaseProgram ==
  LET program == CancelRelease.program
      main == program["main"]
  IN  /\ CancelRelease.strict = FALSE /\ CancelRelease.left = {} /\ CancelRelease.taken = <<>>
      /\ DOMAIN program = {"main", "canceller", "releaser"}
      /\ main \in Seq(Calls) /\ Len(main) = 2 * Count + 4
      /\ \A i \in 1..(2 * Count) : main[i] = Admitted[i]
      /\ main[2 * Count + 1] = Do("start", "canceller")
      /\ main[2 * Count + 2] = Do("start", "releaser")
      /\ main[2 * Count + 3] = Do("join", "canceller")
      /\ main[2 * Count + 4] = Do("join", "releaser")
      /\ program["canceller"] \in Seq(Calls) /\ Len(program["canceller"]) = Count
      /\ \A i \in 1..Count : program["canceller"][i] = Try("cancel", i)
      /\ program["releaser"] \in Seq(Calls) /\ Len(program["releaser"]) = 3
      /\ program["releaser"] =
           << Do("while_queue", <<>>), Do("release_all", <<>>), Do("again", <<>>) >>
  <1>1. /\ "canceller" \in Args /\ "releaser" \in Args /\ <<>> \in Args
        /\ {"cancel", "while_queue", "release_all", "again"} \subseteq Ops
    BY Vocabulary DEF Words, Ops
  <1>2. /\ CancelRelease.strict = FALSE /\ CancelRelease.left = {}
        /\ CancelRelease.taken = <<>>
        /\ CancelRelease.program =
             [main |-> Admitted \o Run(<<"canceller", "releaser">>),
              canceller |-> [i \in 1..Count |-> Try("cancel", i)],
              releaser |-> << Do("while_queue", <<>>), Do("release_all", <<>>),
                              Do("again", <<>>) >>]
    BY DEF CancelRelease, Scenario
  <1>3. PICK loop : loop = << Do("while_queue", <<>>), Do("release_all", <<>>),
                              Do("again", <<>>) >>
    OBVIOUS
  <1>4. loop \in Seq(Calls) /\ Len(loop) = 3
    BY <1>1, <1>3, Statements
  <1>5. PICK cancels : cancels = [i \in 1..Count |-> Try("cancel", i)]
    OBVIOUS
  <1>6. /\ cancels \in Seq(Calls) /\ Len(cancels) = Count
        /\ \A i \in 1..Count : cancels[i] = Try("cancel", i)
    <2>1. \A i \in 1..Count : Try("cancel", i) \in Calls
      BY <1>1, Vocabulary, Statements
    <2> QED
      BY <1>5, <2>1, CountAssumption
  <1>7. PICK main : main = Admitted \o Run(<<"canceller", "releaser">>)
    OBVIOUS
  <1>8. /\ main \in Seq(Calls) /\ Len(main) = 2 * Count + 4
        /\ \A i \in 1..(2 * Count) : main[i] = Admitted[i]
        /\ main[2 * Count + 1] = Do("start", "canceller")
        /\ main[2 * Count + 2] = Do("start", "releaser")
        /\ main[2 * Count + 3] = Do("join", "canceller")
        /\ main[2 * Count + 4] = Do("join", "releaser")
    BY <1>1, <1>7, AdmittedThenTwo
  <1>9. /\ DOMAIN CancelRelease.program = {"main", "canceller", "releaser"}
        /\ CancelRelease.program["main"] = main
        /\ CancelRelease.program["canceller"] = cancels
        /\ CancelRelease.program["releaser"] = loop
    BY <1>2, <1>3, <1>5, <1>7
  <1> QED
    BY <1>2, <1>3, <1>4, <1>6, <1>8, <1>9

\* The applicants for one id, statement by statement.
LEMMA SameIdProgram ==
  LET program == SameId.program
      main == program["main"]
  IN  /\ SameId.strict = TRUE /\ SameId.left = {"same"} /\ SameId.taken = <<>>
      /\ DOMAIN program = {"main", "one", "two", "three"}
      /\ main \in Seq(Calls) /\ Len(main) = 6
      /\ main = <<Do("start", "one"), Do("start", "two"), Do("start", "three"),
                  Do("join", "one"), Do("join", "two"), Do("join", "three")>>
      /\ \A t \in {"one", "two", "three"} :
           /\ program[t] \in Seq(Calls) /\ Len(program[t]) = 1
           /\ program[t][1] = Try("admit", <<"same", <<t>>>>)
  <1>1. {"one", "two", "three"} \subseteq People /\ {"one", "two", "three"} \subseteq Args
    BY Vocabulary DEF Names
  <1>2. /\ SameId.strict = TRUE /\ SameId.left = {"same"} /\ SameId.taken = <<>>
        /\ SameId.program = [main |-> Run(<<"one", "two", "three">>),
                             one |-> << Try("admit", <<"same", <<"one">>>>) >>,
                             two |-> << Try("admit", <<"same", <<"two">>>>) >>,
                             three |-> << Try("admit", <<"same", <<"three">>>>) >>]
    BY DEF SameId, Scenario
  <1>3. ASSUME NEW t \in {"one", "two", "three"}
        PROVE  SameId.program[t] = << Try("admit", <<"same", <<t>>>>) >>
    BY <1>2
  <1>4. ASSUME NEW t \in {"one", "two", "three"}
        PROVE  /\ SameId.program[t] \in Seq(Calls) /\ Len(SameId.program[t]) = 1
               /\ SameId.program[t][1] = Try("admit", <<"same", <<t>>>>)
    <2>1. <<t>> \in Lists /\ "same" \in Ids
      BY <1>1, ShortLists DEF Ids
    <2>2. PICK call : call = Try("admit", <<"same", <<t>>>>)
      OBVIOUS
    <2>3. call \in Calls
      BY <2>1, <2>2, Statements
    <2>4. << call >> \in Seq(Calls) /\ Len(<< call >>) = 1 /\ << call >>[1] = call
      BY <2>3
    <2> QED
      BY <1>3, <2>2, <2>4
  <1>5. PICK main : main = Run(<<"one", "two", "three">>)
    OBVIOUS
  <1>6. /\ main = <<Do("start", "one"), Do("start", "two"), Do("start", "three"),
                    Do("join", "one"), Do("join", "two"), Do("join", "three")>>
        /\ main \in Seq(Calls)
    BY <1>1, <1>5, RunOfThree
  <1>7. Len(main) = 6
    BY <1>6
  <1>8. DOMAIN SameId.program = {"main", "one", "two", "three"} /\ SameId.program["main"] = main
    BY <1>2, <1>5
  <1> QED
    BY <1>2, <1>4, <1>6, <1>7, <1>8

\* The producer and the consumers, statement by statement.
LEMMA ProducersConsumersProgram ==
  LET program == ProducersConsumers.program
      main == program["main"]
      producer == program["producer"]
  IN  /\ ProducersConsumers.strict = FALSE /\ ProducersConsumers.left = {}
      /\ ProducersConsumers.taken = <<>>
      /\ DOMAIN program = {"main", "producer", "one", "two"}
      /\ main \in Seq(Calls) /\ Len(main) = 6
      /\ main = <<Do("start", "producer"), Do("start", "one"), Do("start", "two"),
                  Do("join", "producer"), Do("join", "one"), Do("join", "two")>>
      /\ producer \in Seq(Calls) /\ Len(producer) = 2 * Count + 1
      /\ \A i \in 1..(2 * Count) : producer[i] = Admitted[i]
      /\ producer[2 * Count + 1] = Do("note", "produced")
      /\ \A t \in {"one", "two"} :
           /\ program[t] \in Seq(Calls) /\ Len(program[t]) = 2
           /\ program[t] = << Do("release_all", <<>>), Do("until_produced", <<>>) >>
  <1>1. /\ {"producer", "one", "two", "produced"} \subseteq Args /\ <<>> \in Args
        /\ {"note", "release_all", "until_produced"} \subseteq Ops
    BY Vocabulary DEF Names, Words, Ops
  <1>2. /\ ProducersConsumers.strict = FALSE /\ ProducersConsumers.left = {}
        /\ ProducersConsumers.taken = <<>>
        /\ ProducersConsumers.program =
             [main |-> Run(<<"producer", "one", "two">>),
              producer |-> Admitted \o << Do("note", "produced") >>,
              one |-> << Do("release_all", <<>>), Do("until_produced", <<>>) >>,
              two |-> << Do("release_all", <<>>), Do("until_produced", <<>>) >>]
    BY DEF ProducersConsumers, Scenario
  <1>3. PICK loop : loop = << Do("release_all", <<>>), Do("until_produced", <<>>) >>
    OBVIOUS
  <1>4. loop \in Seq(Calls) /\ Len(loop) = 2
    BY <1>1, <1>3, Statements
  <1>5. PICK main : main = Run(<<"producer", "one", "two">>)
    OBVIOUS
  <1>6. /\ main = <<Do("start", "producer"), Do("start", "one"), Do("start", "two"),
                    Do("join", "producer"), Do("join", "one"), Do("join", "two")>>
        /\ main \in Seq(Calls)
    BY <1>1, <1>5, RunOfThree
  <1>7. Len(main) = 6
    BY <1>6
  <1>8. PICK last : last = << Do("note", "produced") >>
    OBVIOUS
  <1>9. last \in Seq(Calls) /\ Len(last) = 1 /\ last[1] = Do("note", "produced")
    BY <1>1, <1>8, Statements
  <1>10. PICK producer : producer = Admitted \o last
    OBVIOUS
  <1>11. /\ producer \in Seq(Calls) /\ Len(producer) = 2 * Count + 1
         /\ \A i \in 1..(2 * Count) : producer[i] = Admitted[i]
         /\ producer[2 * Count + 1] = Do("note", "produced")
    <2>1. Admitted \in Seq(Calls) /\ Len(Admitted) = 2 * Count /\ 2 * Count \in Nat
      BY AdmittedProgram, CountAssumption
    <2>2. /\ producer \in Seq(Calls) /\ Len(producer) = Len(Admitted) + Len(last)
          /\ \A i \in 1..Len(Admitted) : producer[i] = Admitted[i]
      BY <1>9, <1>10, <2>1, Then
    <2>3. Len(last) >= 1 => producer[2 * Count + 1] = last[1]
      BY <1>9, <1>10, <2>1, ThenFew
    <2>4. Len(last) >= 1
      BY <1>9
    <2> QED
      BY <1>9, <2>1, <2>2, <2>3, <2>4
  <1>12. /\ DOMAIN ProducersConsumers.program = {"main", "producer", "one", "two"}
         /\ ProducersConsumers.program["main"] = main
         /\ ProducersConsumers.program["producer"] = producer
         /\ ProducersConsumers.program["one"] = loop
         /\ ProducersConsumers.program["two"] = loop
    BY <1>2, <1>3, <1>5, <1>8, <1>10
  <1> QED
    BY <1>2, <1>3, <1>4, <1>6, <1>7, <1>11, <1>12

\* The two markers, statement by statement.
LEMMA HalvesProgram ==
  LET program == Halves.program
      main == program["main"]
      up == program["up"]
      down == program["down"]
  IN  /\ Halves.strict = TRUE /\ Halves.left = {} /\ Halves.taken = <<1>>
      /\ DOMAIN program = {"main", "up", "down"}
      /\ main \in Seq(Calls) /\ Len(main) = 6
      /\ main[1] = Do("admit", <<0, Numbers>>) /\ main[6] = Do("release", <<>>)
      /\ main[2] = Do("start", "up") /\ main[3] = Do("start", "down")
      /\ main[4] = Do("join", "up") /\ main[5] = Do("join", "down")
      /\ up \in Seq(Calls) /\ Len(up) = Count
      /\ \A i \in 1..Count : up[i] = Do("mark_ready", i)
      /\ down \in Seq(Calls) /\ Len(down) = Count
      /\ \A i \in 1..Count : down[i] = Do("mark_ready", Count + 1 - i)
  <1>1. /\ {"up", "down"} \subseteq Args /\ <<>> \in Args /\ 0 \in Ids
        /\ {"mark_ready", "release"} \subseteq Ops
    BY Vocabulary, CountAssumption DEF Words, Ops
  <1>2. /\ Halves.strict = TRUE /\ Halves.left = {} /\ Halves.taken = <<1>>
        /\ Halves.program =
             [main |-> << Do("admit", <<0, Numbers>>) >> \o Run(<<"up", "down">>)
                       \o << Do("release", <<>>) >>,
              up   |-> Each("mark_ready", Numbers),
              down |-> Each("mark_ready", Reverse(Numbers))]
    BY DEF Halves, Scenario
  <1>3. /\ Numbers \in Lists /\ DOMAIN Numbers = 1..Count /\ Len(Numbers) = Count
        /\ \A i \in 1..Count : Numbers[i] = i
    <2>1. Numbers \in [1..Count -> People] /\ Count \in 0..(Count + 3)
      BY Vocabulary, CountAssumption DEF Numbers
    <2>2. Numbers \in Lists
      BY <2>1 DEF Lists
    <2>3. /\ DOMAIN Numbers = 1..Count /\ Len(Numbers) = Count
          /\ \A i \in 1..Count : Numbers[i] = i
      BY CountAssumption DEF Numbers
    <2> QED
      BY <2>2, <2>3
  <1>4. /\ DOMAIN Reverse(Numbers) = 1..Count
        /\ \A i \in 1..Count : Reverse(Numbers)[i] = Count + 1 - i
    BY <1>3, CountAssumption DEF Reverse
  <1>5. PICK up : up = Each("mark_ready", Numbers)
    OBVIOUS
  <1>6. PICK down : down = Each("mark_ready", Reverse(Numbers))
    OBVIOUS
  <1>7. /\ up \in Seq(Calls) /\ Len(up) = Count
        /\ \A i \in 1..Count : up[i] = Do("mark_ready", Numbers[i])
    <2>1. \A i \in 1..Count : Numbers[i] \in Args
      BY <1>3, Vocabulary
    <2> QED
      BY <1>1, <1>3, <1>5, <2>1, CountAssumption, EachIsProgram
  <1>8. /\ down \in Seq(Calls) /\ Len(down) = Count
        /\ \A i \in 1..Count : down[i] = Do("mark_ready", Reverse(Numbers)[i])
    <2>1. \A i \in 1..Count : Count + 1 - i \in 1..Count
      BY CountAssumption
    <2>2. \A i \in 1..Count : Reverse(Numbers)[i] \in Args
      BY <1>4, <2>1, Vocabulary
    <2> QED
      BY <1>1, <1>4, <1>6, <2>2, CountAssumption, EachIsProgram
  <1>9. PICK first : first = << Do("admit", <<0, Numbers>>) >>
    OBVIOUS
  <1>10. /\ first \in Seq(Calls) /\ Len(first) = 1
         /\ first[1] = Do("admit", <<0, Numbers>>)
    BY <1>1, <1>3, <1>9, Statements
  <1>11. PICK run : run = Run(<<"up", "down">>)
    OBVIOUS
  <1>12. /\ run = <<Do("start", "up"), Do("start", "down"), Do("join", "up"), Do("join", "down")>>
         /\ run \in Seq(Calls)
    BY <1>1, <1>11, RunOfTwo
  <1>13. PICK last : last = << Do("release", <<>>) >>
    OBVIOUS
  <1>14. last \in Seq(Calls) /\ Len(last) = 1 /\ last[1] = Do("release", <<>>)
    BY <1>1, <1>13, Statements
  <1>15. PICK five : five = first \o run
    OBVIOUS
  <1>16. PICK main : main = five \o last
    OBVIOUS
  <1>17. /\ five \in Seq(Calls) /\ Len(five) = 5 /\ five[1] = first[1]
         /\ five[2] = run[1] /\ five[3] = run[2] /\ five[4] = run[3] /\ five[5] = run[4]
    <2>1. /\ five \in Seq(Calls) /\ Len(five) = Len(first) + Len(run)
          /\ \A i \in 1..Len(first) : five[i] = first[i]
          /\ \A i \in 1..Len(run) : five[Len(first) + i] = run[i]
      <3>1. first \in Seq(Calls) /\ run \in Seq(Calls)
        BY <1>10, <1>12
      <3> QED
        BY <3>1, <1>15, Then
    <2>2. Len(first) = 1 /\ Len(run) = 4
      BY <1>10, <1>12
    <2>3. 1 \in 1..4 /\ 2 \in 1..4 /\ 3 \in 1..4 /\ 4 \in 1..4 /\ 1 \in 1..1
      OBVIOUS
    <2>4. /\ five[1 + 1] = run[1] /\ five[1 + 2] = run[2]
          /\ five[1 + 3] = run[3] /\ five[1 + 4] = run[4]
      BY <2>1, <2>2, <2>3
    <2>5. five[1] = first[1] /\ Len(five) = 5
      BY <2>1, <2>2, <2>3
    <2>6. five[2] = run[1] /\ five[3] = run[2] /\ five[4] = run[3] /\ five[5] = run[4]
      BY <2>4
    <2>7. five \in Seq(Calls)
      BY <2>1
    <2> QED
      BY <2>5, <2>6, <2>7
  <1>18. /\ main \in Seq(Calls) /\ Len(main) = 6 /\ \A i \in 1..5 : main[i] = five[i]
         /\ main[6] = last[1]
    <2>1. /\ main \in Seq(Calls) /\ Len(main) = Len(five) + Len(last)
          /\ \A i \in 1..Len(five) : main[i] = five[i]
      BY <1>14, <1>17, <1>16, Then
    <2>2. Len(last) >= 1 => main[5 + 1] = last[1]
      BY <1>14, <1>17, <1>16, ThenFew
    <2>3. Len(five) = 5 /\ Len(last) = 1
      BY <1>14, <1>17
    <2> QED
      BY <2>1, <2>2, <2>3
  <1>19. /\ run[1] = Do("start", "up") /\ run[2] = Do("start", "down")
         /\ run[3] = Do("join", "up") /\ run[4] = Do("join", "down")
    BY <1>12
  <1>20. /\ DOMAIN Halves.program = {"main", "up", "down"}
         /\ Halves.program["main"] = main
         /\ Halves.program["up"] = up /\ Halves.program["down"] = down
    BY <1>2, <1>5, <1>6, <1>9, <1>11, <1>13, <1>15, <1>16
  <1>21. /\ main[1] = Do("admit", <<0, Numbers>>) /\ main[6] = Do("release", <<>>)
         /\ main[2] = Do("start", "up") /\ main[3] = Do("start", "down")
         /\ main[4] = Do("join", "up") /\ main[5] = Do("join", "down")
    BY <1>10, <1>14, <1>17, <1>18, <1>19
  <1>22. /\ \A i \in 1..Count : up[i] = Do("mark_ready", i)
         /\ \A i \in 1..Count : down[i] = Do("mark_ready", Count + 1 - i)
    BY <1>3, <1>4, <1>7, <1>8
  <1> QED
    BY <1>2, <1>7, <1>8, <1>18, <1>20, <1>21, <1>22

\* Each scenario has a policy and a main thread, and its programs are made of such calls.
LEMMA Programs ==
  ASSUME NEW s \in Scenarios
  PROVE  /\ s.strict \in BOOLEAN /\ "main" \in DOMAIN s.program
         /\ \A t \in DOMAIN s.program : s.program[t] \in Seq(Calls)
  <1> DEFINE Fine(r) == /\ r.strict \in BOOLEAN /\ "main" \in DOMAIN r.program
                        /\ \A t \in DOMAIN r.program : r.program[t] \in Seq(Calls)
  <1>1. Fine(Restaurant) /\ Fine(Matchmaking)
    BY RestaurantProgram, MatchmakingProgram
  <1>2. Fine(Batches) /\ Fine(Guarded)
    BY BatchesProgram, GuardedProgram
  <1>3. Fine(FanOut)
    BY FanOutProgram
  <1>4. Fine(Halves)
    BY HalvesProgram
  <1>5. Fine(Drains(TRUE))
    <2>1. TRUE \in BOOLEAN
      OBVIOUS
    <2> QED
      BY <2>1, DrainsProgram
  <1>6. Fine(Drains(FALSE))
    <2>1. FALSE \in BOOLEAN
      OBVIOUS
    <2> QED
      BY <2>1, DrainsProgram
  <1>7. Fine(SameId)
    BY SameIdProgram
  <1>8. Fine(ProducersConsumers)
    BY ProducersConsumersProgram
  <1>9. Fine(CancelRelease)
    BY CancelReleaseProgram
  <1> HIDE DEF Fine
  <1>10. \/ s = Restaurant \/ s = Matchmaking \/ s = Batches \/ s = FanOut \/ s = Guarded
         \/ s = Halves \/ s = Drains(TRUE) \/ s = Drains(FALSE) \/ s = SameId
         \/ s = ProducersConsumers \/ s = CancelRelease
    BY Zenon DEF Scenarios
  <1>11. Fine(s)
    BY <1>1, <1>2, <1>3, <1>4, <1>5, <1>6, <1>7, <1>8, <1>9, <1>10, Zenon
  <1> QED
    BY <1>11 DEF Fine
-----------------------------------------------------------------------------
\* The queue under either policy, with what TitoProofs.tla proves of it.
Strict == INSTANCE TitoProofs WITH
  StrictOrder <- TRUE, CompactSlack <- 8, GroupIds <- Ids, Members <- People,
  MaxAdmissions <- Count + 2, MaxGroupSize <- Count + 3
Relaxed == INSTANCE TitoProofs WITH
  StrictOrder <- FALSE, CompactSlack <- 8, GroupIds <- Ids, Members <- People,
  MaxAdmissions <- Count + 2, MaxGroupSize <- Count + 3

\* The constants satisfy what Tito.tla assumes, under either policy.
LEMMA SameAssumptions ==
  /\ TRUE \in BOOLEAN /\ FALSE \in BOOLEAN
  /\ Strict!IsFiniteSet(People) /\ Relaxed!IsFiniteSet(People)
  /\ Count + 2 \in Nat /\ Count + 3 \in Nat /\ 8 \in Nat
  BY CountAssumption, PeopleFinite
     DEF Strict!IsFiniteSet, Relaxed!IsFiniteSet, IsFiniteSet

\* Each instance of the queue counts as this module does.
LEMMA SameCardinality ==
  \A S : /\ Q(TRUE)!Cardinality(S) = Cardinality(S) /\ Q(FALSE)!Cardinality(S) = Cardinality(S)
         /\ Strict!Cardinality(S) = Cardinality(S) /\ Relaxed!Cardinality(S) = Cardinality(S)
  BY DEF Q!Cardinality, Strict!Cardinality, Relaxed!Cardinality, Cardinality

\* The queue of Clients.tla is that of Tito.tla under the policy of the scenario.

\* Strictly ordered, call by call.
LEMMA StrictQueue ==
  /\ \A id, list : Q(TRUE)!Admit(id, list) <=> Strict!Admit(id, list)
  /\ \A id, list : Q(TRUE)!AdmitRefused(id, list) <=> Strict!AdmitRefused(id, list)
  /\ \A m : Q(TRUE)!MarkReady(m) <=> Strict!MarkReady(m)
  /\ \A m : Q(TRUE)!MarkReadyRefused(m) <=> Strict!MarkReadyRefused(m)
  /\ \A id : Q(TRUE)!MarkGroupReady(id) <=> Strict!MarkGroupReady(id)
  /\ \A id : Q(TRUE)!MarkGroupReadyRefused(id) <=> Strict!MarkGroupReadyRefused(id)
  /\ \A id : Q(TRUE)!Cancel(id) <=> Strict!Cancel(id)
  /\ \A id : Q(TRUE)!CancelRefused(id) <=> Strict!CancelRefused(id)
  /\ Q(TRUE)!Peek <=> Strict!Peek
  /\ Q(TRUE)!Release <=> Strict!Release
  /\ Q(TRUE)!ReleaseNone <=> Strict!ReleaseNone
  /\ Q(TRUE)!ReleaseAll <=> Strict!ReleaseAll
  /\ Q(TRUE)!NextOut = Strict!NextOut /\ Q(TRUE)!AllOut = Strict!AllOut
  <1>1. /\ \A id, list : Q(TRUE)!Admissible(id, list) <=> Strict!Admissible(id, list)
        /\ \A call : Q(TRUE)!Refuse(call) <=> Strict!Refuse(call)
    BY DEF Q!Admissible, Strict!Admissible, Q!WellFormed, Strict!WellFormed,
           Q!Refuse, Strict!Refuse, Q!Raises, Strict!Raises, Q!Returns, Strict!Returns,
           Q!Range, Strict!Range, Q!IsInjective, Strict!IsInjective, Q!queue, Strict!queue
  <1>2. \A call, value, gs : Q(TRUE)!Returns(call, value, gs) = Strict!Returns(call, value, gs)
    BY DEF Q!Returns, Strict!Returns
  <1>3. /\ \A id, list : Q(TRUE)!AdmitRefused(id, list) <=> Strict!AdmitRefused(id, list)
        /\ \A m : Q(TRUE)!MarkReadyRefused(m) <=> Strict!MarkReadyRefused(m)
        /\ \A id : Q(TRUE)!MarkGroupReadyRefused(id) <=> Strict!MarkGroupReadyRefused(id)
        /\ \A id : Q(TRUE)!CancelRefused(id) <=> Strict!CancelRefused(id)
    BY <1>1 DEF Q!AdmitRefused, Strict!AdmitRefused, Q!MarkReadyRefused, Strict!MarkReadyRefused,
                Q!MarkGroupReadyRefused, Strict!MarkGroupReadyRefused, Q!CancelRefused,
                Strict!CancelRefused
  <1>4. \A id, list : Q(TRUE)!Admit(id, list) <=> Strict!Admit(id, list)
    BY <1>1, <1>2
       DEF Q!Admit, Strict!Admit, Q!Put, Strict!Put, Q!NewGroup, Strict!NewGroup,
           Q!IndexMembers, Strict!IndexMembers, Q!Range, Strict!Range
  <1>5. /\ \A h, ms : Q(TRUE)!Marked(h, ms) = Strict!Marked(h, ms)
        /\ \A h, ms : Q(TRUE)!Completes(h, ms) <=> Strict!Completes(h, ms)
        /\ \A h : Q(TRUE)!NoteReady(h) <=> Strict!NoteReady(h)
        /\ \A g : Q(TRUE)!IsReady(g) <=> Strict!IsReady(g)
    <2>1. ASSUME NEW h, NEW ms
          PROVE  Q(TRUE)!Marked(h, ms) = Strict!Marked(h, ms)
      <3>1. PICK n : n = Q(TRUE)!Cardinality(ms \ group[h].ready)
        OBVIOUS
      <3>2. n = Strict!Cardinality(ms \ group[h].ready)
        BY <3>1, SameCardinality, Zenon
      <3> QED
        BY <3>1, <3>2, Zenon DEF Q!Marked, Strict!Marked
    <2>2. ASSUME NEW h, NEW ms
          PROVE  Q(TRUE)!Completes(h, ms) <=> Strict!Completes(h, ms)
      BY SameCardinality DEF Q!Completes, Strict!Completes
    <2>3. \A h : Q(TRUE)!NoteReady(h) <=> Strict!NoteReady(h)
      BY DEF Q!NoteReady, Strict!NoteReady, Q!Put, Strict!Put
    <2>4. ASSUME NEW g
          PROVE  Q(TRUE)!IsReady(g) <=> Strict!IsReady(g)
      BY SameCardinality DEF Q!IsReady, Strict!IsReady
    <2> QED
      BY <2>1, <2>2, <2>3, <2>4, Zenon
  <1>6. ASSUME NEW h, NEW ms
        PROVE  Q(TRUE)!MarkMembers(h, ms) <=> Strict!MarkMembers(h, ms)
    <2>1. Q(TRUE)!Marked(h, ms) = Strict!Marked(h, ms)
      BY <1>5, Zenon
    <2>2. Q(TRUE)!Completes(h, ms) <=> Strict!Completes(h, ms)
      BY <1>5, Zenon
    <2>3. Q(TRUE)!NoteReady(h) <=> Strict!NoteReady(h)
      BY <1>5, Zenon
    <2> QED
      BY <2>1, <2>2, <2>3, Zenon DEF Q!MarkMembers, Strict!MarkMembers
  <1>7. /\ \A h, m : Q(TRUE)!GroupMarkReady(h, m) <=> Strict!GroupMarkReady(h, m)
        /\ \A m : Q(TRUE)!MarkReady(m) <=> Strict!MarkReady(m)
        /\ \A id : Q(TRUE)!MarkGroupReady(id) <=> Strict!MarkGroupReady(id)
    <2>1. \A h, m : Q(TRUE)!GroupMarkReady(h, m) <=> Strict!GroupMarkReady(h, m)
      BY <1>2, <1>5, <1>6
         DEF Q!GroupMarkReady, Strict!GroupMarkReady, Q!Answer, Strict!Answer
    <2> QED
      BY <1>2, <1>6, <2>1
         DEF Q!MarkReady, Strict!MarkReady, Q!MarkGroupReady, Strict!MarkGroupReady
  <1>8. /\ Q(TRUE)!NextOut = Strict!NextOut /\ Q(TRUE)!AllOut = Strict!AllOut
        /\ Q(TRUE)!Purged = Strict!Purged
    BY <1>5 DEF Q!NextOut, Strict!NextOut, Q!AllOut, Strict!AllOut, Q!Purged, Strict!Purged,
                Q!Waiting, Strict!Waiting, Q!Live, Strict!Live
  <1>9. \A hs : Q(TRUE)!Remove(hs) <=> Strict!Remove(hs)
    BY DEF Q!Remove, Strict!Remove, Q!Without, Strict!Without, Q!Restrict, Strict!Restrict,
           Q!Detached, Strict!Detached, Q!Handles, Strict!Handles
  <1>10. \A h, heap : Q(TRUE)!RemoveOne(h, heap) <=> Strict!RemoveOne(h, heap)
    <2>1. \A heap, live : Q(TRUE)!Compacted(heap, live) = Strict!Compacted(heap, live)
      BY SameCardinality DEF Q!Compacted, Strict!Compacted
    <2> QED
      BY <1>9, <2>1 DEF Q!RemoveOne, Strict!RemoveOne
  <1>11. Q(TRUE)!Peek <=> Strict!Peek
    BY <1>2, <1>8 DEF Q!Peek, Strict!Peek
  <1>12. /\ Q(TRUE)!Release <=> Strict!Release
         /\ Q(TRUE)!ReleaseNone <=> Strict!ReleaseNone
    BY <1>2, <1>8, <1>10 DEF Q!Release, Strict!Release, Q!ReleaseNone, Strict!ReleaseNone
  <1>13. \A id : Q(TRUE)!Cancel(id) <=> Strict!Cancel(id)
    BY <1>2, <1>10 DEF Q!Cancel, Strict!Cancel
  <1>14. Q(TRUE)!ReleaseAll <=> Strict!ReleaseAll
    <2>1. \A hs, key : Q(TRUE)!Sorted(hs, key) = Strict!Sorted(hs, key)
      BY SameCardinality DEF Q!Sorted, Strict!Sorted
    <2>2. \A h : Q(TRUE)!Age(h) = Strict!Age(h)
      BY DEF Q!Age, Strict!Age
    <2> QED
      BY <1>2, <1>8, <1>9, <2>1, <2>2 DEF Q!ReleaseAll, Strict!ReleaseAll
  <1> QED
    BY <1>3, <1>4, <1>7, <1>8, <1>11, <1>12, <1>13, <1>14, Zenon

\* In order of readiness, call by call.
LEMMA RelaxedQueue ==
  /\ \A id, list : Q(FALSE)!Admit(id, list) <=> Relaxed!Admit(id, list)
  /\ \A id, list : Q(FALSE)!AdmitRefused(id, list) <=> Relaxed!AdmitRefused(id, list)
  /\ \A m : Q(FALSE)!MarkReady(m) <=> Relaxed!MarkReady(m)
  /\ \A m : Q(FALSE)!MarkReadyRefused(m) <=> Relaxed!MarkReadyRefused(m)
  /\ \A id : Q(FALSE)!MarkGroupReady(id) <=> Relaxed!MarkGroupReady(id)
  /\ \A id : Q(FALSE)!MarkGroupReadyRefused(id) <=> Relaxed!MarkGroupReadyRefused(id)
  /\ \A id : Q(FALSE)!Cancel(id) <=> Relaxed!Cancel(id)
  /\ \A id : Q(FALSE)!CancelRefused(id) <=> Relaxed!CancelRefused(id)
  /\ Q(FALSE)!Peek <=> Relaxed!Peek
  /\ Q(FALSE)!Release <=> Relaxed!Release
  /\ Q(FALSE)!ReleaseNone <=> Relaxed!ReleaseNone
  /\ Q(FALSE)!ReleaseAll <=> Relaxed!ReleaseAll
  /\ Q(FALSE)!NextOut = Relaxed!NextOut /\ Q(FALSE)!AllOut = Relaxed!AllOut
  <1>1. /\ \A id, list : Q(FALSE)!Admissible(id, list) <=> Relaxed!Admissible(id, list)
        /\ \A call : Q(FALSE)!Refuse(call) <=> Relaxed!Refuse(call)
    BY DEF Q!Admissible, Relaxed!Admissible, Q!WellFormed, Relaxed!WellFormed,
           Q!Refuse, Relaxed!Refuse, Q!Raises, Relaxed!Raises, Q!Returns, Relaxed!Returns,
           Q!Range, Relaxed!Range, Q!IsInjective, Relaxed!IsInjective, Q!queue, Relaxed!queue
  <1>2. \A call, value, gs : Q(FALSE)!Returns(call, value, gs) = Relaxed!Returns(call, value, gs)
    BY DEF Q!Returns, Relaxed!Returns
  <1>3. /\ \A id, list : Q(FALSE)!AdmitRefused(id, list) <=> Relaxed!AdmitRefused(id, list)
        /\ \A m : Q(FALSE)!MarkReadyRefused(m) <=> Relaxed!MarkReadyRefused(m)
        /\ \A id : Q(FALSE)!MarkGroupReadyRefused(id) <=> Relaxed!MarkGroupReadyRefused(id)
        /\ \A id : Q(FALSE)!CancelRefused(id) <=> Relaxed!CancelRefused(id)
    BY <1>1 DEF Q!AdmitRefused, Relaxed!AdmitRefused, Q!MarkReadyRefused, Relaxed!MarkReadyRefused,
                Q!MarkGroupReadyRefused, Relaxed!MarkGroupReadyRefused, Q!CancelRefused,
                Relaxed!CancelRefused
  <1>4. \A id, list : Q(FALSE)!Admit(id, list) <=> Relaxed!Admit(id, list)
    BY <1>1, <1>2
       DEF Q!Admit, Relaxed!Admit, Q!Put, Relaxed!Put, Q!NewGroup, Relaxed!NewGroup,
           Q!IndexMembers, Relaxed!IndexMembers, Q!Range, Relaxed!Range
  <1>5. /\ \A h, ms : Q(FALSE)!Marked(h, ms) = Relaxed!Marked(h, ms)
        /\ \A h, ms : Q(FALSE)!Completes(h, ms) <=> Relaxed!Completes(h, ms)
        /\ \A h : Q(FALSE)!NoteReady(h) <=> Relaxed!NoteReady(h)
        /\ \A g : Q(FALSE)!IsReady(g) <=> Relaxed!IsReady(g)
    <2>1. ASSUME NEW h, NEW ms
          PROVE  Q(FALSE)!Marked(h, ms) = Relaxed!Marked(h, ms)
      <3>1. PICK n : n = Q(FALSE)!Cardinality(ms \ group[h].ready)
        OBVIOUS
      <3>2. n = Relaxed!Cardinality(ms \ group[h].ready)
        BY <3>1, SameCardinality, Zenon
      <3> QED
        BY <3>1, <3>2, Zenon DEF Q!Marked, Relaxed!Marked
    <2>2. ASSUME NEW h, NEW ms
          PROVE  Q(FALSE)!Completes(h, ms) <=> Relaxed!Completes(h, ms)
      BY SameCardinality DEF Q!Completes, Relaxed!Completes
    <2>3. \A h : Q(FALSE)!NoteReady(h) <=> Relaxed!NoteReady(h)
      BY DEF Q!NoteReady, Relaxed!NoteReady, Q!Put, Relaxed!Put
    <2>4. ASSUME NEW g
          PROVE  Q(FALSE)!IsReady(g) <=> Relaxed!IsReady(g)
      BY SameCardinality DEF Q!IsReady, Relaxed!IsReady
    <2> QED
      BY <2>1, <2>2, <2>3, <2>4, Zenon
  <1>6. ASSUME NEW h, NEW ms
        PROVE  Q(FALSE)!MarkMembers(h, ms) <=> Relaxed!MarkMembers(h, ms)
    <2>1. Q(FALSE)!Marked(h, ms) = Relaxed!Marked(h, ms)
      BY <1>5, Zenon
    <2>2. Q(FALSE)!Completes(h, ms) <=> Relaxed!Completes(h, ms)
      BY <1>5, Zenon
    <2>3. Q(FALSE)!NoteReady(h) <=> Relaxed!NoteReady(h)
      BY <1>5, Zenon
    <2> QED
      BY <2>1, <2>2, <2>3, Zenon DEF Q!MarkMembers, Relaxed!MarkMembers
  <1>7. /\ \A h, m : Q(FALSE)!GroupMarkReady(h, m) <=> Relaxed!GroupMarkReady(h, m)
        /\ \A m : Q(FALSE)!MarkReady(m) <=> Relaxed!MarkReady(m)
        /\ \A id : Q(FALSE)!MarkGroupReady(id) <=> Relaxed!MarkGroupReady(id)
    <2>1. \A h, m : Q(FALSE)!GroupMarkReady(h, m) <=> Relaxed!GroupMarkReady(h, m)
      BY <1>2, <1>5, <1>6
         DEF Q!GroupMarkReady, Relaxed!GroupMarkReady, Q!Answer, Relaxed!Answer
    <2> QED
      BY <1>2, <1>6, <2>1
         DEF Q!MarkReady, Relaxed!MarkReady, Q!MarkGroupReady, Relaxed!MarkGroupReady
  <1>8. /\ Q(FALSE)!NextOut = Relaxed!NextOut /\ Q(FALSE)!AllOut = Relaxed!AllOut
        /\ Q(FALSE)!Purged = Relaxed!Purged
    BY <1>5 DEF Q!NextOut, Relaxed!NextOut, Q!AllOut, Relaxed!AllOut, Q!Purged, Relaxed!Purged,
                Q!Waiting, Relaxed!Waiting, Q!Live, Relaxed!Live
  <1>9. \A hs : Q(FALSE)!Remove(hs) <=> Relaxed!Remove(hs)
    BY DEF Q!Remove, Relaxed!Remove, Q!Without, Relaxed!Without, Q!Restrict, Relaxed!Restrict,
           Q!Detached, Relaxed!Detached, Q!Handles, Relaxed!Handles
  <1>10. \A h, heap : Q(FALSE)!RemoveOne(h, heap) <=> Relaxed!RemoveOne(h, heap)
    <2>1. \A heap, live : Q(FALSE)!Compacted(heap, live) = Relaxed!Compacted(heap, live)
      BY SameCardinality DEF Q!Compacted, Relaxed!Compacted
    <2> QED
      BY <1>9, <2>1 DEF Q!RemoveOne, Relaxed!RemoveOne
  <1>11. Q(FALSE)!Peek <=> Relaxed!Peek
    BY <1>2, <1>8 DEF Q!Peek, Relaxed!Peek
  <1>12. /\ Q(FALSE)!Release <=> Relaxed!Release
         /\ Q(FALSE)!ReleaseNone <=> Relaxed!ReleaseNone
    BY <1>2, <1>8, <1>10 DEF Q!Release, Relaxed!Release, Q!ReleaseNone, Relaxed!ReleaseNone
  <1>13. \A id : Q(FALSE)!Cancel(id) <=> Relaxed!Cancel(id)
    BY <1>2, <1>10 DEF Q!Cancel, Relaxed!Cancel
  <1>14. Q(FALSE)!ReleaseAll <=> Relaxed!ReleaseAll
    <2>1. \A hs, key : Q(FALSE)!Sorted(hs, key) = Relaxed!Sorted(hs, key)
      BY SameCardinality DEF Q!Sorted, Relaxed!Sorted
    <2>2. \A h : Q(FALSE)!Age(h) = Relaxed!Age(h)
      BY DEF Q!Age, Relaxed!Age
    <2> QED
      BY <1>2, <1>8, <1>9, <2>1, <2>2 DEF Q!ReleaseAll, Relaxed!ReleaseAll
  <1> QED
    BY <1>3, <1>4, <1>7, <1>8, <1>11, <1>12, <1>13, <1>14, Zenon
-----------------------------------------------------------------------------
\* The queue that a program uses is alive and keeps the invariant of Tito.tla.
QInv == alive /\ IF scenario.strict THEN Strict!IInv ELSE Relaxed!IInv

Record == [group_id: Ids, members: SUBSET People, ready: SUBSET People, ready_count: Nat,
           sequence: Nat, on_ready: BOOLEAN]

\* What the indexes of the queue say between calls.
LEMMA IndexFacts ==
  ASSUME scenario \in Scenarios, QInv
  PROVE  /\ Len(group) \in Nat /\ DOMAIN group = 1..Len(group) /\ group \in Seq(Record)
         /\ \A h \in DOMAIN group :
              group[h].members \subseteq People /\ group[h].ready \subseteq group[h].members
         /\ DOMAIN groups \subseteq Ids
         /\ \A id \in DOMAIN groups :
              groups[id] \in DOMAIN group /\ group[groups[id]].group_id = id
         /\ \A id \in DOMAIN groups : \A m \in group[groups[id]].members :
              m \in DOMAIN member_index /\ member_index[m] = id
         /\ \A m \in DOMAIN member_index :
              /\ member_index[m] \in DOMAIN groups
              /\ m \in group[groups[member_index[m]]].members
         /\ DOMAIN groups = {} => ready_groups = <<>>
         /\ scenario.strict => ready_groups = <<>>
  <1>1. ASSUME NEW d, d = [x \in {} |-> x] PROVE d = <<>>
    BY <1>1
  <1>2. scenario.strict \in BOOLEAN
    BY Programs
  <1>3. CASE scenario.strict
    <2>1. Strict!IInv
      BY <1>3 DEF QInv
    <2>2. Strict!EmptyDict = <<>>
      BY <1>1 DEF Strict!EmptyDict
    <2>3. group \in Seq(Record)
      BY <2>1 DEF Strict!IInv, Strict!TypeOK, Strict!GroupRecord, Record
    <2> QED
      BY <2>1, <2>2, <2>3, SameAssumptions, Strict!IndexFacts
  <1>4. CASE ~ scenario.strict
    <2>1. Relaxed!IInv
      BY <1>4 DEF QInv
    <2>2. Relaxed!EmptyDict = <<>>
      BY <1>1 DEF Relaxed!EmptyDict
    <2>3. group \in Seq(Record)
      BY <2>1 DEF Relaxed!IInv, Relaxed!TypeOK, Relaxed!GroupRecord, Record
    <2> QED
      BY <1>4, <2>1, <2>2, <2>3, SameAssumptions, Relaxed!IndexFacts
  <1> QED
    BY <1>3, <1>4

\* What release and release_all may give, by the flags of the groups that wait.
LEMMA OutFacts ==
  ASSUME scenario \in Scenarios, QInv, NEW strict \in Policy
  PROVE  /\ Q(strict)!NextOut \subseteq Waiting /\ Q(strict)!AllOut \subseteq Waiting
         /\ Q(strict)!NextOut = {h \in Q(strict)!AllOut : \A g \in Q(strict)!AllOut : h <= g}
         /\ Q(strict)!NextOut = {} => Q(strict)!AllOut = {}
         /\ \A h \in Waiting : h \in Q(strict)!AllOut <=>
              /\ group[h].ready = group[h].members
              /\ strict => \A g \in Waiting : g < h => group[g].ready = group[g].members
         /\ Q(strict)!ReleaseAll =>
              /\ Range(result'.groups) = Q(strict)!AllOut
              /\ IsInjective(result'.groups)
              /\ result'.groups \in Seq(Q(strict)!AllOut)
              /\ \A i, j \in DOMAIN result'.groups :
                   i < j => result'.groups[i] < result'.groups[j]
  <1>1. strict = scenario.strict /\ strict \in BOOLEAN
    BY Programs DEF Policy
  <1>2. CASE strict = TRUE
    <2>1. Strict!IInv
      BY <1>1, <1>2 DEF QInv
    <2>2. Strict!Waiting = Waiting
      BY DEF Strict!Waiting, Waiting, Range
    <2>3. /\ Strict!NextOut \subseteq Waiting /\ Strict!AllOut \subseteq Waiting
          /\ Strict!NextOut = {h \in Strict!AllOut : \A g \in Strict!AllOut : h <= g}
          /\ Strict!NextOut = {} => Strict!AllOut = {}
          /\ \A h \in Waiting : h \in Strict!AllOut <=>
               /\ group[h].ready = group[h].members
               /\ TRUE => \A g \in Waiting : g < h => group[g].ready = group[g].members
      BY <2>1, <2>2, SameAssumptions, Strict!OutFacts
    <2>4. ASSUME Strict!ReleaseAll
          PROVE  /\ Range(result'.groups) = Strict!AllOut
                 /\ IsInjective(result'.groups)
                 /\ result'.groups \in Seq(Strict!AllOut)
                 /\ \A i, j \in DOMAIN result'.groups :
                      i < j => result'.groups[i] < result'.groups[j]
      <3>1. /\ Strict!Range(result'.groups) = Strict!AllOut
            /\ Strict!IsInjective(result'.groups)
            /\ result'.groups \in Seq(Strict!AllOut)
            /\ \A i, j \in DOMAIN result'.groups :
                 i < j => result'.groups[i] < result'.groups[j]
        BY <2>1, <2>4, SameAssumptions, Strict!AllNamedOnce
      <3> QED
        BY <3>1 DEF Strict!Range, Range, Strict!IsInjective, IsInjective
    <2>5. /\ Q(TRUE)!NextOut = Strict!NextOut /\ Q(TRUE)!AllOut = Strict!AllOut
          /\ Q(TRUE)!ReleaseAll <=> Strict!ReleaseAll
      BY StrictQueue
    <2> QED
      BY <1>2, <2>3, <2>4, <2>5, Zenon
  <1>3. CASE strict = FALSE
    <2>1. Relaxed!IInv
      BY <1>1, <1>3 DEF QInv
    <2>2. Relaxed!Waiting = Waiting
      BY DEF Relaxed!Waiting, Waiting, Range
    <2>3. /\ Relaxed!NextOut \subseteq Waiting /\ Relaxed!AllOut \subseteq Waiting
          /\ Relaxed!NextOut = {h \in Relaxed!AllOut : \A g \in Relaxed!AllOut : h <= g}
          /\ Relaxed!NextOut = {} => Relaxed!AllOut = {}
          /\ \A h \in Waiting : h \in Relaxed!AllOut <=>
               /\ group[h].ready = group[h].members
               /\ FALSE => \A g \in Waiting : g < h => group[g].ready = group[g].members
      BY <2>1, <2>2, SameAssumptions, Relaxed!OutFacts
    <2>4. ASSUME Relaxed!ReleaseAll
          PROVE  /\ Range(result'.groups) = Relaxed!AllOut
                 /\ IsInjective(result'.groups)
                 /\ result'.groups \in Seq(Relaxed!AllOut)
                 /\ \A i, j \in DOMAIN result'.groups :
                      i < j => result'.groups[i] < result'.groups[j]
      <3>1. /\ Relaxed!Range(result'.groups) = Relaxed!AllOut
            /\ Relaxed!IsInjective(result'.groups)
            /\ result'.groups \in Seq(Relaxed!AllOut)
            /\ \A i, j \in DOMAIN result'.groups :
                 i < j => result'.groups[i] < result'.groups[j]
        BY <2>1, <2>4, SameAssumptions, Relaxed!AllNamedOnce
      <3> QED
        BY <3>1 DEF Relaxed!Range, Range, Relaxed!IsInjective, IsInjective
    <2>5. /\ Q(FALSE)!NextOut = Relaxed!NextOut /\ Q(FALSE)!AllOut = Relaxed!AllOut
          /\ Q(FALSE)!ReleaseAll <=> Relaxed!ReleaseAll
      BY RelaxedQueue
    <2> QED
      BY <1>3, <2>3, <2>4, <2>5, Zenon
  <1> QED
    BY <1>1, <1>2, <1>3

\* No call drops the queue.
LEMMA StaysAlive ==
  ASSUME alive, NEW strict \in BOOLEAN
  PROVE  /\ \A id, list : Q(strict)!Admit(id, list) \/ Q(strict)!AdmitRefused(id, list) => alive'
         /\ \A m : Q(strict)!MarkReady(m) \/ Q(strict)!MarkReadyRefused(m) => alive'
         /\ \A id : Q(strict)!MarkGroupReady(id) \/ Q(strict)!MarkGroupReadyRefused(id) => alive'
         /\ \A id : Q(strict)!Cancel(id) \/ Q(strict)!CancelRefused(id) => alive'
         /\ Q(strict)!Peek => alive'
         /\ Q(strict)!Release \/ Q(strict)!ReleaseNone \/ Q(strict)!ReleaseAll => alive'
  BY DEF Q!Admit, Q!AdmitRefused, Q!MarkReady, Q!MarkReadyRefused, Q!MarkGroupReady,
         Q!MarkGroupReadyRefused, Q!Cancel, Q!CancelRefused, Q!Peek, Q!Release, Q!ReleaseNone,
         Q!ReleaseAll, Q!Refuse, Q!queue, Q!GroupMarkReady, Q!MarkMembers, Q!RemoveOne, Q!Remove

\* Every call keeps the invariant.
LEMMA CallKeeps ==
  ASSUME scenario \in Scenarios, QInv, scenario' = scenario, NEW strict \in Policy
  PROVE  /\ \A id \in Ids, list \in Lists : Q(strict)!Admit(id, list) => QInv'
         /\ \A id, list : Q(strict)!AdmitRefused(id, list) => QInv'
         /\ \A m : Q(strict)!MarkReady(m) \/ Q(strict)!MarkReadyRefused(m) => QInv'
         /\ \A id : Q(strict)!MarkGroupReady(id) \/ Q(strict)!MarkGroupReadyRefused(id) => QInv'
         /\ \A id : Q(strict)!Cancel(id) \/ Q(strict)!CancelRefused(id) => QInv'
         /\ Q(strict)!Peek => QInv'
         /\ Q(strict)!Release \/ Q(strict)!ReleaseNone \/ Q(strict)!ReleaseAll => QInv'
  <1>1. strict = scenario.strict /\ strict \in BOOLEAN /\ alive
    BY Programs DEF Policy, QInv
  <1>2. CASE strict = TRUE
    <2>1. Strict!IInv
      BY <1>1, <1>2 DEF QInv
    <2>2. Strict!IInv' /\ alive' => QInv'
      BY <1>1, <1>2 DEF QInv
    <2>3. Lists = Strict!MemberLists
      BY DEF Lists, Strict!MemberLists
    <2>4. \A id \in Ids, list \in Lists : Strict!Admit(id, list) => Strict!IInv'
      BY <2>1, <2>3, SameAssumptions, Strict!AdmitPreserves
    <2>5. \A call : Strict!Refuse(call) => Strict!IInv'
      BY <2>1, SameAssumptions, Strict!RefusePreserves
    <2>6. /\ \A id, list : Strict!AdmitRefused(id, list) => Strict!IInv'
          /\ \A m : Strict!MarkReadyRefused(m) => Strict!IInv'
          /\ \A id : Strict!MarkGroupReadyRefused(id) => Strict!IInv'
          /\ \A id : Strict!CancelRefused(id) => Strict!IInv'
      BY <2>5 DEF Strict!AdmitRefused, Strict!MarkReadyRefused, Strict!MarkGroupReadyRefused,
                  Strict!CancelRefused
    <2>7. DOMAIN member_index \subseteq People /\ DOMAIN groups \subseteq Ids
      BY <2>1 DEF Strict!IInv, Strict!TypeOK
    <2>8. /\ \A m \in People : Strict!MarkReady(m) => Strict!IInv'
          /\ \A id \in Ids : Strict!MarkGroupReady(id) => Strict!IInv'
          /\ \A id \in Ids : Strict!Cancel(id) => Strict!IInv'
      BY <2>1, SameAssumptions, Strict!MarkingPreserves, Strict!CancelPreserves
    <2>9. /\ \A m : Strict!MarkReady(m) => m \in People
          /\ \A id : Strict!MarkGroupReady(id) => id \in Ids
          /\ \A id : Strict!Cancel(id) => id \in Ids
      BY <2>7 DEF Strict!MarkReady, Strict!MarkGroupReady, Strict!Cancel
    <2>10. /\ Strict!Peek => Strict!IInv'
           /\ Strict!Release \/ Strict!ReleaseNone => Strict!IInv'
           /\ Strict!ReleaseAll => Strict!IInv'
      BY <2>1, SameAssumptions, Strict!PeekPreserves, Strict!ReleasePreserves,
         Strict!ReleaseAllPreserves
    <2>11. /\ \A id, list : Q(strict)!Admit(id, list) \/ Q(strict)!AdmitRefused(id, list) => alive'
           /\ \A m : Q(strict)!MarkReady(m) \/ Q(strict)!MarkReadyRefused(m) => alive'
           /\ \A id : Q(strict)!MarkGroupReady(id) \/ Q(strict)!MarkGroupReadyRefused(id) => alive'
           /\ \A id : Q(strict)!Cancel(id) \/ Q(strict)!CancelRefused(id) => alive'
           /\ Q(strict)!Peek => alive'
           /\ Q(strict)!Release \/ Q(strict)!ReleaseNone \/ Q(strict)!ReleaseAll => alive'
      BY <1>1, StaysAlive
    <2> QED
      BY <1>2, <2>2, <2>4, <2>6, <2>8, <2>9, <2>10, <2>11, StrictQueue, Zenon
  <1>3. CASE strict = FALSE
    <2>1. Relaxed!IInv
      BY <1>1, <1>3 DEF QInv
    <2>2. Relaxed!IInv' /\ alive' => QInv'
      BY <1>1, <1>3 DEF QInv
    <2>3. Lists = Relaxed!MemberLists
      BY DEF Lists, Relaxed!MemberLists
    <2>4. \A id \in Ids, list \in Lists : Relaxed!Admit(id, list) => Relaxed!IInv'
      BY <2>1, <2>3, SameAssumptions, Relaxed!AdmitPreserves
    <2>5. \A call : Relaxed!Refuse(call) => Relaxed!IInv'
      BY <2>1, SameAssumptions, Relaxed!RefusePreserves
    <2>6. /\ \A id, list : Relaxed!AdmitRefused(id, list) => Relaxed!IInv'
          /\ \A m : Relaxed!MarkReadyRefused(m) => Relaxed!IInv'
          /\ \A id : Relaxed!MarkGroupReadyRefused(id) => Relaxed!IInv'
          /\ \A id : Relaxed!CancelRefused(id) => Relaxed!IInv'
      BY <2>5 DEF Relaxed!AdmitRefused, Relaxed!MarkReadyRefused, Relaxed!MarkGroupReadyRefused,
                  Relaxed!CancelRefused
    <2>7. DOMAIN member_index \subseteq People /\ DOMAIN groups \subseteq Ids
      BY <2>1 DEF Relaxed!IInv, Relaxed!TypeOK
    <2>8. /\ \A m \in People : Relaxed!MarkReady(m) => Relaxed!IInv'
          /\ \A id \in Ids : Relaxed!MarkGroupReady(id) => Relaxed!IInv'
          /\ \A id \in Ids : Relaxed!Cancel(id) => Relaxed!IInv'
      BY <2>1, SameAssumptions, Relaxed!MarkingPreserves, Relaxed!CancelPreserves
    <2>9. /\ \A m : Relaxed!MarkReady(m) => m \in People
          /\ \A id : Relaxed!MarkGroupReady(id) => id \in Ids
          /\ \A id : Relaxed!Cancel(id) => id \in Ids
      BY <2>7 DEF Relaxed!MarkReady, Relaxed!MarkGroupReady, Relaxed!Cancel
    <2>10. /\ Relaxed!Peek => Relaxed!IInv'
           /\ Relaxed!Release \/ Relaxed!ReleaseNone => Relaxed!IInv'
           /\ Relaxed!ReleaseAll => Relaxed!IInv'
      BY <2>1, SameAssumptions, Relaxed!PeekPreserves, Relaxed!ReleasePreserves,
         Relaxed!ReleaseAllPreserves
    <2>11. /\ \A id, list : Q(strict)!Admit(id, list) \/ Q(strict)!AdmitRefused(id, list) => alive'
           /\ \A m : Q(strict)!MarkReady(m) \/ Q(strict)!MarkReadyRefused(m) => alive'
           /\ \A id : Q(strict)!MarkGroupReady(id) \/ Q(strict)!MarkGroupReadyRefused(id) => alive'
           /\ \A id : Q(strict)!Cancel(id) \/ Q(strict)!CancelRefused(id) => alive'
           /\ Q(strict)!Peek => alive'
           /\ Q(strict)!Release \/ Q(strict)!ReleaseNone \/ Q(strict)!ReleaseAll => alive'
      BY <1>1, StaysAlive
    <2> QED
      BY <1>3, <2>2, <2>4, <2>6, <2>8, <2>9, <2>10, <2>11, RelaxedQueue, Zenon
  <1> QED
    BY <1>1, <1>2, <1>3
-----------------------------------------------------------------------------
\* What a call does, as far as the programs can tell.

\* Nothing.
Rests == UNCHANGED <<group, groups, member_index>>

\* The groups hs leave.
Leaves(hs) ==
  /\ DOMAIN group' = DOMAIN group
  /\ \A g \in DOMAIN group : /\ group'[g].group_id = group[g].group_id
                             /\ group'[g].members = group[g].members
                             /\ group'[g].ready = group[g].ready
  /\ Waiting' = Waiting \ hs
  /\ DOMAIN groups' \subseteq DOMAIN groups
  /\ \A id \in DOMAIN groups : id \notin DOMAIN groups' <=> groups[id] \in hs
  /\ \A id \in DOMAIN groups' : groups'[id] = groups[id]

\* The members ms of h are marked.
Marks(h, ms) ==
  /\ DOMAIN group' = DOMAIN group
  /\ \A g \in DOMAIN group : /\ group'[g].group_id = group[g].group_id
                             /\ group'[g].members = group[g].members
                             /\ group'[g].ready =
                                  IF g = h THEN group[g].ready \cup ms ELSE group[g].ready
  /\ UNCHANGED <<groups, member_index>>

\* A group comes.
Comes(id, list) ==
  LET h == Len(group) + 1
  IN  /\ id \notin DOMAIN groups
      /\ list # <<>> /\ IsInjective(list) /\ Range(list) \cap DOMAIN member_index = {}
      /\ h \notin DOMAIN group /\ DOMAIN group' = DOMAIN group \cup {h}
      /\ \A g \in DOMAIN group : group'[g] = group[g]
      /\ group'[h].group_id = id /\ group'[h].members = Range(list) /\ group'[h].ready = {}
      /\ DOMAIN groups' = DOMAIN groups \cup {id}
      /\ \A x \in DOMAIN groups : groups'[x] = groups[x]
      /\ groups'[id] = h
      /\ Waiting' = Waiting \cup {h}

\* Groups that are removed leave.
LEMMA RemoveEffect ==
  ASSUME scenario \in Scenarios, QInv, NEW strict \in Policy, NEW hs \in SUBSET Waiting,
         Q(strict)!Remove(hs)
  PROVE  Leaves(hs)
  <1>1. /\ DOMAIN group = 1..Len(group) /\ group \in Seq(Record)
        /\ \A id \in DOMAIN groups : groups[id] \in DOMAIN group /\ group[groups[id]].group_id = id
    BY IndexFacts
  <1>2. group' = [h \in DOMAIN group |->
                    IF h \in hs THEN [group[h] EXCEPT !.on_ready = FALSE] ELSE group[h]]
    BY DEF Q!Remove, Q!Detached, Q!Handles
  <1>3. ASSUME NEW g \in DOMAIN group
        PROVE  /\ group'[g].group_id = group[g].group_id
               /\ group'[g].members = group[g].members
               /\ group'[g].ready = group[g].ready
    <2>1. group[g] \in Record
      BY <1>1
    <2>2. group'[g] = IF g \in hs THEN [group[g] EXCEPT !.on_ready = FALSE] ELSE group[g]
      BY <1>2
    <2> QED
      BY <2>1, <2>2 DEF Record
  <1>4. /\ DOMAIN groups' = DOMAIN groups \ {group[h].group_id : h \in hs}
        /\ \A id \in DOMAIN groups' : groups'[id] = groups[id]
    BY DEF Q!Remove, Q!Without, Q!Restrict
  <1>5. \A h \in hs : \E id \in DOMAIN groups : h = groups[id]
    BY DEF Waiting, Range
  <1>6. \A id \in DOMAIN groups : id \notin DOMAIN groups' <=> groups[id] \in hs
    BY <1>1, <1>4, <1>5
  <1>7. Waiting' = Waiting \ hs
    BY <1>4, <1>6 DEF Waiting, Range
  <1> QED
    BY <1>2, <1>3, <1>4, <1>6, <1>7 DEF Leaves

\* Members that are marked become ready, and nothing else changes.
LEMMA MarkEffect ==
  ASSUME scenario \in Scenarios, QInv, NEW strict \in Policy, NEW h \in DOMAIN group, NEW ms,
         Q(strict)!MarkMembers(h, ms)
  PROVE  Marks(h, ms)
  <1>1. group \in Seq(Record)
    BY IndexFacts
  <1>2. group' = [group EXCEPT ![h] = Q(strict)!Marked(h, ms)]
    BY DEF Q!MarkMembers
  <1>3. PICK n : n = group[h].ready_count + Q(strict)!Cardinality(ms \ group[h].ready)
    OBVIOUS
  <1>4. PICK r \in Record : r = group[h]
    BY <1>1
  <1>5. PICK u : u = r.ready \cup ms
    OBVIOUS
  <1>6. Q(strict)!Marked(h, ms) = [r EXCEPT !.ready = u, !.ready_count = n]
    BY <1>3, <1>4, <1>5, Zenon DEF Q!Marked
  <1>7. PICK v : v = [r EXCEPT !.ready = u, !.ready_count = n]
    OBVIOUS
  <1>8. v.group_id = r.group_id /\ v.members = r.members /\ v.ready = u
    BY <1>7 DEF Record
  <1>9. group' = [group EXCEPT ![h] = v]
    BY <1>2, <1>6, <1>7
  <1>10. /\ DOMAIN group' = DOMAIN group
         /\ \A g \in DOMAIN group : group'[g] = IF g = h THEN v ELSE group[g]
    BY <1>1, <1>9
  <1> QED
    BY <1>4, <1>5, <1>8, <1>10 DEF Marks, Q!MarkMembers

\* An admission brings one group, of the members in the list.
LEMMA AdmitEffect ==
  ASSUME scenario \in Scenarios, QInv, NEW strict \in Policy, NEW id, NEW list,
         Q(strict)!Admit(id, list)
  PROVE  /\ Comes(id, list)
         /\ member_index' = [m \in DOMAIN member_index \cup Range(list) |->
                               IF m \in Range(list) THEN id ELSE member_index[m]]
         /\ result'.value = "Group"
  <1>1. /\ DOMAIN group = 1..Len(group) /\ group \in Seq(Record) /\ Len(group) \in Nat
        /\ \A x \in DOMAIN groups : groups[x] \in DOMAIN group
    BY IndexFacts
  <1>2. PICK rec : rec = Q(strict)!NewGroup(id, list)
    OBVIOUS
  <1>3. rec.group_id = id /\ rec.members = Range(list) /\ rec.ready = {}
    BY <1>2 DEF Q!NewGroup, Q!Range, Range
  <1>4. group' = Append(group, rec)
    BY <1>2 DEF Q!Admit
  <1>5. PICK h : h = Len(group) + 1
    OBVIOUS
  <1>6. /\ h \notin DOMAIN group /\ DOMAIN group' = DOMAIN group \cup {h}
        /\ \A g \in DOMAIN group : group'[g] = group[g]
        /\ group'[h] = rec
    BY <1>1, <1>4, <1>5
  <1>7. /\ id \notin DOMAIN groups /\ list # <<>> /\ IsInjective(list)
        /\ Range(list) \cap DOMAIN member_index = {}
    BY DEF Q!Admit, Q!Admissible, Q!WellFormed, Q!IsInjective, Q!Range, IsInjective, Range
  <1>8. /\ DOMAIN groups' = DOMAIN groups \cup {id}
        /\ \A x \in DOMAIN groups : groups'[x] = groups[x]
        /\ groups'[id] = h
    BY <1>5, <1>7 DEF Q!Admit, Q!Put
  <1>9. Waiting' = Waiting \cup {h}
    BY <1>7, <1>8 DEF Waiting, Range
  <1>10. /\ member_index' = [m \in DOMAIN member_index \cup Range(list) |->
                              IF m \in Range(list) THEN id ELSE member_index[m]]
         /\ result'.value = "Group"
    BY DEF Q!Admit, Q!IndexMembers, Q!Range, Range, Q!Returns
  <1> QED
    BY <1>3, <1>5, <1>6, <1>7, <1>8, <1>9, <1>10 DEF Comes

\* A refusal changes nothing that the programs can tell.
LEMMA RefuseEffect ==
  ASSUME NEW strict, NEW call, Q(strict)!Refuse(call)
  PROVE  Rests /\ result'.groups = <<>> /\ result'.value = "TitoError"
  BY DEF Q!Refuse, Q!Raises, Q!Returns, Q!queue, Rests

\* What each call does, by its outcome.
LEMMA CallEffects ==
  ASSUME scenario \in Scenarios, QInv, NEW strict \in Policy
  PROVE  /\ \A id, list : Q(strict)!Admit(id, list) => Comes(id, list) /\ result'.value = "Group"
         /\ \A id, list : Q(strict)!AdmitRefused(id, list) =>
              /\ Rests /\ result'.value = "TitoError"
              /\ list # <<>> /\ IsInjective(list) => \/ id \in DOMAIN groups
                                                   \/ Range(list) \cap DOMAIN member_index # {}
         /\ \A m : Q(strict)!MarkReady(m) =>
              /\ m \in DOMAIN member_index /\ Marks(groups[member_index[m]], {m})
              /\ result'.value # "TitoError"
         /\ \A m : Q(strict)!MarkReadyRefused(m) => Rests /\ m \notin DOMAIN member_index
         /\ \A id : Q(strict)!MarkGroupReady(id) =>
              /\ id \in DOMAIN groups /\ Marks(groups[id], group[groups[id]].members)
              /\ result'.value # "TitoError"
         /\ \A id : Q(strict)!MarkGroupReadyRefused(id) => Rests /\ id \notin DOMAIN groups
         /\ Q(strict)!Peek => Rests /\ result'.value # "TitoError"
         /\ Q(strict)!Release =>
              \E h \in Q(strict)!NextOut : Leaves({h}) /\ result'.groups = <<h>>
         /\ Q(strict)!ReleaseNone => Rests /\ result'.groups = <<>> /\ Q(strict)!NextOut = {}
         /\ Q(strict)!ReleaseAll => Leaves(Q(strict)!AllOut) /\ result'.value # "TitoError"
         /\ \A id : Q(strict)!Cancel(id) =>
              /\ id \in DOMAIN groups /\ Leaves({groups[id]}) /\ result'.groups = <<groups[id]>>
              /\ result'.value # "TitoError"
         /\ \A id : Q(strict)!CancelRefused(id) =>
              /\ Rests /\ result'.groups = <<>> /\ id \notin DOMAIN groups
  <1>0. /\ \A id \in DOMAIN groups : groups[id] \in DOMAIN group /\ groups[id] \in Waiting
        /\ \A m \in DOMAIN member_index : member_index[m] \in DOMAIN groups
    BY IndexFacts DEF Waiting, Range
  <1>1. ASSUME NEW id, NEW list, Q(strict)!Admit(id, list)
        PROVE  Comes(id, list) /\ result'.value = "Group"
    BY <1>1, AdmitEffect
  <1>2. ASSUME NEW id, NEW list, Q(strict)!AdmitRefused(id, list)
        PROVE  /\ Rests /\ result'.value = "TitoError"
               /\ list # <<>> /\ IsInjective(list) => \/ id \in DOMAIN groups
                                                    \/ Range(list) \cap DOMAIN member_index # {}
    <2>1. Rests /\ result'.value = "TitoError"
      BY <1>2, RefuseEffect DEF Q!AdmitRefused
    <2>2. ~ Q(strict)!Admissible(id, list)
      BY <1>2 DEF Q!AdmitRefused
    <2> QED
      BY <2>1, <2>2
         DEF Q!Admissible, Q!WellFormed, Q!IsInjective, IsInjective, Q!Range, Range
  <1>3. ASSUME NEW m, Q(strict)!MarkReady(m)
        PROVE  /\ m \in DOMAIN member_index /\ Marks(groups[member_index[m]], {m})
               /\ result'.value # "TitoError"
    <2>1. /\ m \in DOMAIN member_index
          /\ Q(strict)!MarkMembers(groups[member_index[m]], {m})
          /\ result'.value # "TitoError"
      BY <1>3 DEF Q!MarkReady, Q!GroupMarkReady, Q!Returns, Q!Answer
    <2>2. groups[member_index[m]] \in DOMAIN group
      BY <1>0, <2>1
    <2> QED
      BY <2>1, <2>2, MarkEffect
  <1>4. ASSUME NEW m, Q(strict)!MarkReadyRefused(m)
        PROVE  Rests /\ m \notin DOMAIN member_index
    BY <1>4, RefuseEffect DEF Q!MarkReadyRefused
  <1>5. ASSUME NEW id, Q(strict)!MarkGroupReady(id)
        PROVE  /\ id \in DOMAIN groups /\ Marks(groups[id], group[groups[id]].members)
               /\ result'.value # "TitoError"
    <2>1. /\ id \in DOMAIN groups
          /\ Q(strict)!MarkMembers(groups[id], group[groups[id]].members)
          /\ result'.value # "TitoError"
      BY <1>5 DEF Q!MarkGroupReady, Q!Returns
    <2>2. groups[id] \in DOMAIN group
      BY <1>0, <2>1
    <2> QED
      BY <2>1, <2>2, MarkEffect
  <1>6. ASSUME NEW id, Q(strict)!MarkGroupReadyRefused(id)
        PROVE  Rests /\ id \notin DOMAIN groups
    BY <1>6, RefuseEffect DEF Q!MarkGroupReadyRefused
  <1>7. ASSUME Q(strict)!Peek
        PROVE  Rests /\ result'.value # "TitoError"
    BY <1>7 DEF Q!Peek, Q!Returns, Rests
  <1>8. ASSUME Q(strict)!Release
        PROVE  \E h \in Q(strict)!NextOut : Leaves({h}) /\ result'.groups = <<h>>
    <2>1. PICK h \in Q(strict)!NextOut :
            /\ Q(strict)!RemoveOne(h, Q(strict)!Purged)
            /\ result' = Q(strict)!Returns("release", "Group", <<h>>)
      BY <1>8 DEF Q!Release
    <2>2. Q(strict)!Remove({h}) /\ result'.groups = <<h>>
      BY <2>1 DEF Q!RemoveOne, Q!Returns
    <2>3. {h} \in SUBSET Waiting
      BY OutFacts
    <2>4. Leaves({h})
      BY <2>2, <2>3, RemoveEffect
    <2> QED
      BY <2>2, <2>4
  <1>9. ASSUME Q(strict)!ReleaseNone
        PROVE  Rests /\ result'.groups = <<>> /\ Q(strict)!NextOut = {}
    BY <1>9 DEF Q!ReleaseNone, Q!Returns, Rests
  <1>10. ASSUME Q(strict)!ReleaseAll
         PROVE  Leaves(Q(strict)!AllOut) /\ result'.value # "TitoError"
    <2>1. Q(strict)!Remove(Q(strict)!AllOut) /\ result'.value # "TitoError"
      BY <1>10 DEF Q!ReleaseAll, Q!Returns
    <2>2. Q(strict)!AllOut \in SUBSET Waiting
      BY OutFacts
    <2> QED
      BY <2>1, <2>2, RemoveEffect
  <1>11. ASSUME NEW id, Q(strict)!Cancel(id)
         PROVE  /\ id \in DOMAIN groups /\ Leaves({groups[id]}) /\ result'.groups = <<groups[id]>>
                /\ result'.value # "TitoError"
    <2>1. /\ id \in DOMAIN groups /\ Q(strict)!Remove({groups[id]})
          /\ result'.groups = <<groups[id]>> /\ result'.value # "TitoError"
      BY <1>11 DEF Q!Cancel, Q!RemoveOne, Q!Returns
    <2>2. {groups[id]} \in SUBSET Waiting
      BY <1>0, <2>1
    <2> QED
      BY <2>1, <2>2, RemoveEffect
  <1>12. ASSUME NEW id, Q(strict)!CancelRefused(id)
         PROVE  Rests /\ result'.groups = <<>> /\ id \notin DOMAIN groups
    BY <1>12, RefuseEffect DEF Q!CancelRefused
  <1> QED
    BY <1>1, <1>2, <1>3, <1>4, <1>5, <1>6, <1>7, <1>8, <1>9, <1>10, <1>11, <1>12, Zenon

-----------------------------------------------------------------------------
\* Each group is given to one thread.

\* A waiting group is in no thread's hands, another one in exactly one place.
Once(h) == IF h \in Waiting THEN ClaimsOf(h) = {} ELSE \E c : ClaimsOf(h) = {c}

\* The inductive invariant.
CInv ==
  /\ scenario \in Scenarios
  /\ QInv
  /\ at \in [Threads -> Int]
  /\ failed \subseteq Threads
  /\ claims \in [Threads -> Seq(DOMAIN group)]
  /\ \A h \in DOMAIN group : Once(h)
  /\ \A h \in DOMAIN group : group[h].members # {}

\* A group that is in nobody's hands or in one place is counted so.
LEMMA OnceCounts ==
  ASSUME NEW h, Once(h)
  PROVE  Cardinality(ClaimsOf(h)) = IF h \in Waiting THEN 0 ELSE 1
  <1>1. CASE h \in Waiting
    BY <1>1, FS_EmptySet DEF Once
  <1>2. CASE h \notin Waiting
    <2>1. PICK c : ClaimsOf(h) = {c}
      BY <1>2 DEF Once
    <2> QED
      BY <1>2, <2>1, FS_Singleton
  <1> QED
    BY <1>1, <1>2

\* A group is in a thread's hands where its list names it.
LEMMA ClaimsMeaning ==
  ASSUME claims \in [Threads -> Seq(DOMAIN group)]
  PROVE  \A h, c : c \in ClaimsOf(h) <=>
           \E t \in Threads : \E i \in 1..Len(claims[t]) : c = <<t, i>> /\ claims[t][i] = h
  <1>1. \A t \in Threads : DOMAIN claims[t] = 1..Len(claims[t])
    OBVIOUS
  <1> QED
    BY <1>1 DEF ClaimsOf

\* A thread that is given groups that waited until then keeps every group in one place.
LEMMA TakenOnce ==
  ASSUME CInv, NEW t \in Threads, NEW hs \in SUBSET Waiting, NEW gs \in Seq(hs),
         Range(gs) = hs, IsInjective(gs),
         claims' = [claims EXCEPT ![t] = @ \o gs], scenario' = scenario,
         Waiting' = Waiting \ hs, DOMAIN group' = DOMAIN group
  PROVE  claims' \in [Threads -> Seq(DOMAIN group')] /\ \A h \in DOMAIN group' : Once(h)'
  <1>1. /\ claims \in [Threads -> Seq(DOMAIN group)] /\ Waiting \subseteq DOMAIN group
        /\ Threads' = Threads
    BY IndexFacts DEF CInv, Waiting, Range, Threads
  <1>2. PICK mine \in Seq(DOMAIN group) : mine = claims[t]
    BY <1>1
  <1>3. gs \in Seq(DOMAIN group)
    BY <1>1
  <1>4. PICK now : now = mine \o gs
    OBVIOUS
  <1>5. /\ now \in Seq(DOMAIN group) /\ Len(now) = Len(mine) + Len(gs)
        /\ \A i \in 1..Len(mine) : now[i] = mine[i]
        /\ \A i \in 1..Len(gs) : now[Len(mine) + i] = gs[i]
    BY <1>3, <1>4
  <1>6. claims' = [claims EXCEPT ![t] = now]
    BY <1>2, <1>4
  <1>7. /\ claims' \in [Threads -> Seq(DOMAIN group)]
        /\ claims'[t] = now /\ \A u \in Threads : u # t => claims'[u] = claims[u]
    BY <1>1, <1>5, <1>6
  <1>8. \A h, c : c \in ClaimsOf(h) <=>
           \E u \in Threads : \E i \in 1..Len(claims[u]) : c = <<u, i>> /\ claims[u][i] = h
    BY <1>1, ClaimsMeaning
  <1>9. \A h, c : c \in ClaimsOf(h)' <=>
           \E u \in Threads : \E i \in 1..Len(claims'[u]) : c = <<u, i>> /\ claims'[u][i] = h
    <2>1. \A u \in Threads : DOMAIN claims'[u] = 1..Len(claims'[u])
      BY <1>7
    <2> QED
      BY <1>1, <2>1 DEF ClaimsOf
  <1>10. ASSUME NEW h \in DOMAIN group PROVE Once(h)'
    <2>1. Once(h)
      BY DEF CInv
    <2>2. Len(mine) \in Nat /\ Len(gs) \in Nat
      BY <1>2
    <2>3. \A i \in 1..Len(now) : \/ i \in 1..Len(mine) /\ now[i] = mine[i]
                                 \/ \E j \in 1..Len(gs) : i = Len(mine) + j /\ now[i] = gs[j]
      <3> TAKE i \in 1..Len(now)
      <3>1. CASE i <= Len(mine)
        BY <1>5, <2>2, <3>1
      <3>2. CASE i > Len(mine)
        <4>1. i - Len(mine) \in 1..Len(gs) /\ i = Len(mine) + (i - Len(mine))
          BY <1>5, <2>2, <3>2
        <4> QED
          BY <1>5, <4>1
      <3> QED
        BY <1>5, <2>2, <3>1, <3>2
    <2>4. \A i \in 1..Len(gs) : gs[i] \in hs /\ Len(mine) + i \in 1..Len(now)
      BY <1>5, <2>2
    <2>5. \A i \in 1..Len(mine) : i \in 1..Len(now)
      BY <1>5, <2>2
    <2>6. CASE h \notin hs
      <3>1. \A c : c \in ClaimsOf(h)' <=> c \in ClaimsOf(h)
        <4>1. ASSUME NEW c, c \in ClaimsOf(h)' PROVE c \in ClaimsOf(h)
          <5>1. PICK u \in Threads : \E i \in 1..Len(claims'[u]) : c = <<u, i>> /\ claims'[u][i] = h
            BY <1>9, <4>1
          <5>0. PICK i \in 1..Len(claims'[u]) : c = <<u, i>> /\ claims'[u][i] = h
            BY <5>1
          <5>2. CASE u # t
            BY <1>7, <1>8, <5>0, <5>2
          <5>3. CASE u = t
            <6>1. i \in 1..Len(mine) /\ mine[i] = h
              BY <1>7, <2>3, <2>4, <2>6, <5>0, <5>3
            <6> QED
              BY <1>2, <1>8, <5>0, <5>3, <6>1
          <5> QED
            BY <5>2, <5>3
        <4>2. ASSUME NEW c, c \in ClaimsOf(h) PROVE c \in ClaimsOf(h)'
          <5>1. PICK u \in Threads : \E i \in 1..Len(claims[u]) : c = <<u, i>> /\ claims[u][i] = h
            BY <1>8, <4>2
          <5>0. PICK i \in 1..Len(claims[u]) : c = <<u, i>> /\ claims[u][i] = h
            BY <5>1
          <5>2. CASE u # t
            BY <1>7, <1>9, <5>0, <5>2
          <5>3. CASE u = t
            BY <1>2, <1>5, <1>7, <1>9, <2>5, <5>0, <5>3
          <5> QED
            BY <5>2, <5>3
        <4> QED
          BY <4>1, <4>2
      <3>2. h \in Waiting' <=> h \in Waiting
        BY <2>6
      <3>3. ClaimsOf(h)' = ClaimsOf(h)
        BY <3>1
      <3> QED
        BY <2>1, <3>2, <3>3 DEF Once
    <2>7. CASE h \in hs
      <3>1. ClaimsOf(h) = {} /\ h \notin Waiting'
        BY <2>1, <2>7 DEF Once
      <3>2. PICK j \in 1..Len(gs) : gs[j] = h
        BY <2>7 DEF Range
      <3>3. \A i \in 1..Len(gs) : gs[i] = h => i = j
        BY <3>2 DEF IsInjective
      <3>4. <<t, Len(mine) + j>> \in ClaimsOf(h)'
        <4>1. Len(mine) + j \in 1..Len(claims'[t]) /\ claims'[t][Len(mine) + j] = h
          BY <1>5, <1>7, <2>4, <3>2
        <4> QED
          BY <1>9, <4>1
      <3>5. ASSUME NEW c, c \in ClaimsOf(h)' PROVE c = <<t, Len(mine) + j>>
        <4>1. PICK u \in Threads : \E i \in 1..Len(claims'[u]) : c = <<u, i>> /\ claims'[u][i] = h
          BY <1>9, <3>5
        <4>0. PICK i \in 1..Len(claims'[u]) : c = <<u, i>> /\ claims'[u][i] = h
          BY <4>1
        <4>2. ~ (u # t)
          BY <1>7, <1>8, <3>1, <4>0
        <4>3. \A k \in 1..Len(mine) : mine[k] # h
          BY <1>2, <1>8, <3>1
        <4>4. i = Len(mine) + j
          BY <1>7, <2>3, <3>3, <4>0, <4>2, <4>3
        <4> QED
          BY <4>0, <4>2, <4>4
      <3>6. ClaimsOf(h)' = {<<t, Len(mine) + j>>}
        BY <3>4, <3>5
      <3> QED
        BY <3>1, <3>6 DEF Once
    <2> QED
      BY <2>6, <2>7
  <1> QED
    BY <1>7, <1>10, <1>1

\* The statement that a thread is at is one of those that the programs are made of.
LEMMA AtCall ==
  ASSUME CInv, NEW t \in Threads, NEW op, At(t, op)
  PROVE  /\ at[t] \in 1..Len(scenario.program[t])
         /\ Statement(t) \in Calls /\ Statement(t).op = op
         /\ op = "admit" => /\ Statement(t).arg[1] \in Ids /\ Statement(t).arg[2] \in Lists
  <1>1. /\ scenario.program[t] \in Seq(Calls) /\ at[t] \in Int /\ at[t] > 0
        /\ ~ (at[t] > Len(scenario.program[t]))
    BY Programs DEF CInv, Threads, At, Over, Finished
  <1>2. at[t] \in 1..Len(scenario.program[t])
    BY <1>1
  <1>3. Statement(t) \in Calls
    BY <1>1, <1>2 DEF Statement
  <1>4. Statement(t).op = op
    BY DEF At
  <1>5. ASSUME NEW c \in Calls, c.op = "admit"
        PROVE  c.arg[1] \in Ids /\ c.arg[2] \in Lists
    <2>1. "admit" \notin Ops
      BY DEF Ops
    <2> QED
      BY <1>5, <2>1 DEF Calls
  <1> QED
    BY <1>2, <1>3, <1>4, <1>5

\* Returned, for a call that raises and for one that does not.
LEMMA Answered ==
  ASSUME NEW t, Returned(t)
  PROVE  /\ scenario' = scenario /\ noted' = noted
         /\ result'.value = "TitoError" =>
              IF Statement(t).catch THEN Advance(t) ELSE Fail(t)
         /\ result'.value # "TitoError" => Advance(t)
         /\ Advance(t) \/ Fail(t)
  BY DEF Returned

\* A thread that is given no group has what it had.
LEMMA TakeNothing ==
  ASSUME NEW S, claims \in [Threads -> Seq(S)], NEW t \in Threads
  PROVE  [claims EXCEPT ![t] = @ \o <<>>] = claims
  <1>1. PICK mine \in Seq(S) : mine = claims[t]
    OBVIOUS
  <1>2. mine \o <<>> = mine
    OBVIOUS
  <1>3. [claims EXCEPT ![t] = mine] = claims
    BY <1>1
  <1> QED
    BY <1>1, <1>2, <1>3

\* What a turn of a thread does.
LEMMA TurnEffects ==
  ASSUME CInv, NEW t \in Threads
  PROVE  LET arg == Statement(t).arg
         IN
    /\ Admit(t) =>
         /\ arg[1] \in Ids /\ arg[2] \in Lists /\ QInv' /\ claims' = claims /\ noted' = noted
         /\ \/ Comes(arg[1], arg[2]) /\ Advance(t)
            \/ /\ Rests /\ IF Statement(t).catch THEN Advance(t) ELSE Fail(t)
               /\ arg[2] # <<>> /\ IsInjective(arg[2]) =>
                    \/ arg[1] \in DOMAIN groups
                    \/ Range(arg[2]) \cap DOMAIN member_index # {}
    /\ MarkReady(t) =>
         /\ QInv' /\ claims' = claims /\ noted' = noted
         /\ \/ arg \in DOMAIN member_index /\ Marks(groups[member_index[arg]], {arg}) /\ Advance(t)
            \/ arg \notin DOMAIN member_index /\ Rests /\ (Advance(t) \/ Fail(t))
    /\ MarkGroupReady(t) =>
         /\ QInv' /\ claims' = claims /\ noted' = noted
         /\ \/ arg \in DOMAIN groups /\ Marks(groups[arg], group[groups[arg]].members) /\ Advance(t)
            \/ arg \notin DOMAIN groups /\ Rests /\ (Advance(t) \/ Fail(t))
    /\ Peek(t) => QInv' /\ claims' = claims /\ noted' = noted /\ Rests /\ Advance(t)
    /\ GroupOf(t) =>
         /\ UNCHANGED <<queue, noted, claims>>
         /\ IF arg \in DOMAIN member_index THEN Advance(t) ELSE Fail(t)
    /\ Release(t) =>
         /\ QInv' /\ noted' = noted
         /\ \/ \E strict \in Policy : \E h \in Q(strict)!NextOut :
                 Leaves({h}) /\ claims' = [claims EXCEPT ![t] = @ \o <<h>>] /\ Advance(t)
            \/ \E strict \in Policy : Q(strict)!NextOut = {} /\ Rests /\ claims' = claims /\ Fail(t)
    /\ Drain(t) =>
         /\ QInv' /\ noted' = noted
         /\ \/ \E strict \in Policy : \E h \in Q(strict)!NextOut :
                 /\ Leaves({h}) /\ claims' = [claims EXCEPT ![t] = @ \o <<h>>]
                 /\ UNCHANGED <<at, failed>>
            \/ \E strict \in Policy :
                 Q(strict)!NextOut = {} /\ Rests /\ claims' = claims /\ Advance(t)
    /\ ReleaseAll(t) =>
         /\ QInv' /\ noted' = noted /\ Advance(t)
         /\ \E strict \in Policy : \E gs \in Seq(Q(strict)!AllOut) :
              /\ Leaves(Q(strict)!AllOut) /\ claims' = [claims EXCEPT ![t] = @ \o gs]
              /\ Range(gs) = Q(strict)!AllOut /\ IsInjective(gs)
              /\ \A i, j \in DOMAIN gs : i < j => gs[i] < gs[j]
    /\ Cancel(t) =>
         /\ QInv' /\ noted' = noted
         /\ \/ /\ arg \in DOMAIN groups /\ Leaves({groups[arg]}) /\ Advance(t)
               /\ claims' = [claims EXCEPT ![t] = @ \o <<groups[arg]>>]
            \/ /\ arg \notin DOMAIN groups /\ Rests /\ (Advance(t) \/ Fail(t))
               /\ claims' = claims
  <1> DEFINE arg == Statement(t).arg
  <1>0. scenario \in Scenarios /\ QInv /\ claims \in [Threads -> Seq(DOMAIN group)]
    BY DEF CInv
  <1>1. ASSUME Admit(t)
        PROVE  /\ arg[1] \in Ids /\ arg[2] \in Lists /\ QInv' /\ claims' = claims /\ noted' = noted
               /\ \/ Comes(arg[1], arg[2]) /\ Advance(t)
                  \/ /\ Rests /\ IF Statement(t).catch THEN Advance(t) ELSE Fail(t)
                     /\ arg[2] # <<>> /\ IsInjective(arg[2]) =>
                          \/ arg[1] \in DOMAIN groups
                          \/ Range(arg[2]) \cap DOMAIN member_index # {}
    <2>1. At(t, "admit") /\ Returned(t) /\ claims' = claims
      BY <1>1 DEF Admit
    <2>2. arg[1] \in Ids /\ arg[2] \in Lists
      BY <2>1, AtCall
    <2>3. PICK strict \in Policy :
            Q(strict)!Admit(arg[1], arg[2]) \/ Q(strict)!AdmitRefused(arg[1], arg[2])
      BY <1>1 DEF Admit
    <2> HIDE DEF arg
    <2>4. scenario' = scenario /\ noted' = noted
      BY <2>1, Answered
    <2>5. CASE Q(strict)!Admit(arg[1], arg[2])
      <3>1. Comes(arg[1], arg[2]) /\ result'.value = "Group"
        BY <1>0, <2>5, CallEffects
      <3>2. QInv'
        BY <1>0, <2>2, <2>4, <2>5, CallKeeps
      <3>3. Advance(t)
        BY <2>1, <3>1, Answered
      <3> QED
        BY <2>1, <2>2, <2>4, <3>1, <3>2, <3>3
    <2>6. CASE Q(strict)!AdmitRefused(arg[1], arg[2])
      <3>1. /\ Rests /\ result'.value = "TitoError"
            /\ arg[2] # <<>> /\ IsInjective(arg[2]) =>
                 \/ arg[1] \in DOMAIN groups
                 \/ Range(arg[2]) \cap DOMAIN member_index # {}
        BY <1>0, <2>6, CallEffects
      <3>2. QInv'
        BY <1>0, <2>4, <2>6, CallKeeps
      <3>3. IF Statement(t).catch THEN Advance(t) ELSE Fail(t)
        BY <2>1, <3>1, Answered
      <3> QED
        BY <2>1, <2>2, <2>4, <3>1, <3>2, <3>3
    <2> QED
      BY <2>3, <2>5, <2>6
  <1>2. ASSUME MarkReady(t)
        PROVE  /\ QInv' /\ claims' = claims /\ noted' = noted
               /\ \/ /\ arg \in DOMAIN member_index /\ Marks(groups[member_index[arg]], {arg})
                     /\ Advance(t)
                  \/ arg \notin DOMAIN member_index /\ Rests /\ (Advance(t) \/ Fail(t))
    <2>1. Returned(t) /\ claims' = claims
      BY <1>2 DEF MarkReady
    <2>2. PICK strict \in Policy : Q(strict)!MarkReady(arg) \/ Q(strict)!MarkReadyRefused(arg)
      BY <1>2 DEF MarkReady
    <2> HIDE DEF arg
    <2>3. scenario' = scenario /\ noted' = noted /\ (Advance(t) \/ Fail(t))
      BY <2>1, Answered
    <2>4. QInv'
      BY <1>0, <2>2, <2>3, CallKeeps
    <2>5. CASE Q(strict)!MarkReady(arg)
      <3>1. /\ arg \in DOMAIN member_index /\ Marks(groups[member_index[arg]], {arg})
            /\ result'.value # "TitoError"
        BY <1>0, <2>5, CallEffects
      <3>2. Advance(t)
        BY <2>1, <3>1, Answered
      <3> QED
        BY <2>1, <2>3, <2>4, <3>1, <3>2
    <2>6. CASE Q(strict)!MarkReadyRefused(arg)
      <3>1. Rests /\ arg \notin DOMAIN member_index
        BY <1>0, <2>6, CallEffects
      <3> QED
        BY <2>1, <2>3, <2>4, <3>1
    <2> QED
      BY <2>2, <2>5, <2>6
  <1>3. ASSUME MarkGroupReady(t)
        PROVE  /\ QInv' /\ claims' = claims /\ noted' = noted
               /\ \/ /\ arg \in DOMAIN groups /\ Marks(groups[arg], group[groups[arg]].members)
                     /\ Advance(t)
                  \/ arg \notin DOMAIN groups /\ Rests /\ (Advance(t) \/ Fail(t))
    <2>1. Returned(t) /\ claims' = claims
      BY <1>3 DEF MarkGroupReady
    <2>2. PICK strict \in Policy :
            Q(strict)!MarkGroupReady(arg) \/ Q(strict)!MarkGroupReadyRefused(arg)
      BY <1>3 DEF MarkGroupReady
    <2> HIDE DEF arg
    <2>3. scenario' = scenario /\ noted' = noted /\ (Advance(t) \/ Fail(t))
      BY <2>1, Answered
    <2>4. QInv'
      BY <1>0, <2>2, <2>3, CallKeeps
    <2>5. CASE Q(strict)!MarkGroupReady(arg)
      <3>1. /\ arg \in DOMAIN groups /\ Marks(groups[arg], group[groups[arg]].members)
            /\ result'.value # "TitoError"
        BY <1>0, <2>5, CallEffects
      <3>2. Advance(t)
        BY <2>1, <3>1, Answered
      <3> QED
        BY <2>1, <2>3, <2>4, <3>1, <3>2
    <2>6. CASE Q(strict)!MarkGroupReadyRefused(arg)
      <3>1. Rests /\ arg \notin DOMAIN groups
        BY <1>0, <2>6, CallEffects
      <3> QED
        BY <2>1, <2>3, <2>4, <3>1
    <2> QED
      BY <2>2, <2>5, <2>6
  <1>4. ASSUME Peek(t)
        PROVE  QInv' /\ claims' = claims /\ noted' = noted /\ Rests /\ Advance(t)
    <2>1. Returned(t) /\ claims' = claims
      BY <1>4 DEF Peek
    <2>2. PICK strict \in Policy : Q(strict)!Peek
      BY <1>4 DEF Peek
    <2>3. Rests /\ result'.value # "TitoError"
      BY <1>0, <2>2, CallEffects
    <2>4. scenario' = scenario /\ noted' = noted /\ Advance(t)
      BY <2>1, <2>3, Answered
    <2>5. QInv'
      BY <1>0, <2>2, <2>4, CallKeeps
    <2> QED
      BY <2>1, <2>3, <2>4, <2>5
  <1>5. ASSUME GroupOf(t)
        PROVE  /\ UNCHANGED <<queue, noted, claims>>
               /\ IF arg \in DOMAIN member_index THEN Advance(t) ELSE Fail(t)
    BY <1>5 DEF GroupOf
  <1>6. ASSUME Release(t)
        PROVE  /\ QInv' /\ noted' = noted
               /\ \/ \E strict \in Policy : \E h \in Q(strict)!NextOut :
                       Leaves({h}) /\ claims' = [claims EXCEPT ![t] = @ \o <<h>>] /\ Advance(t)
                  \/ \E strict \in Policy :
                       Q(strict)!NextOut = {} /\ Rests /\ claims' = claims /\ Fail(t)
    <2>1. /\ scenario' = scenario /\ noted' = noted
          /\ claims' = [claims EXCEPT ![t] = @ \o result'.groups]
      BY <1>6 DEF Release, Take
    <2>2. CASE \E strict \in Policy : Q(strict)!Release /\ Advance(t)
      <3>1. PICK strict \in Policy : Q(strict)!Release /\ Advance(t)
        BY <2>2
      <3>2. PICK h \in Q(strict)!NextOut : Leaves({h}) /\ result'.groups = <<h>>
        BY <1>0, <3>1, CallEffects
      <3>3. QInv'
        BY <1>0, <2>1, <3>1, CallKeeps
      <3>4. claims' = [claims EXCEPT ![t] = @ \o <<h>>]
        BY <2>1, <3>2
      <3> QED
        BY <2>1, <3>1, <3>2, <3>3, <3>4
    <2>3. CASE \E strict \in Policy : Q(strict)!ReleaseNone /\ Fail(t)
      <3>1. PICK strict \in Policy : Q(strict)!ReleaseNone /\ Fail(t)
        BY <2>3
      <3>2. Rests /\ result'.groups = <<>> /\ Q(strict)!NextOut = {}
        BY <1>0, <3>1, CallEffects
      <3>3. QInv'
        BY <1>0, <2>1, <3>1, CallKeeps
      <3>4. claims' = claims
        BY <1>0, <2>1, <3>2, TakeNothing
      <3> QED
        BY <2>1, <3>1, <3>2, <3>3, <3>4
    <2> QED
      BY <1>6, <2>2, <2>3 DEF Release
  <1>7. ASSUME Drain(t)
        PROVE  /\ QInv' /\ noted' = noted
               /\ \/ \E strict \in Policy : \E h \in Q(strict)!NextOut :
                       /\ Leaves({h}) /\ claims' = [claims EXCEPT ![t] = @ \o <<h>>]
                       /\ UNCHANGED <<at, failed>>
                  \/ \E strict \in Policy :
                       Q(strict)!NextOut = {} /\ Rests /\ claims' = claims /\ Advance(t)
    <2>1. /\ scenario' = scenario /\ noted' = noted
          /\ claims' = [claims EXCEPT ![t] = @ \o result'.groups]
      BY <1>7 DEF Drain, Take
    <2>2. CASE \E strict \in Policy : Q(strict)!Release /\ UNCHANGED <<at, failed>>
      <3>1. PICK strict \in Policy : Q(strict)!Release /\ UNCHANGED <<at, failed>>
        BY <2>2
      <3>2. PICK h \in Q(strict)!NextOut : Leaves({h}) /\ result'.groups = <<h>>
        BY <1>0, <3>1, CallEffects
      <3>3. QInv'
        BY <1>0, <2>1, <3>1, CallKeeps
      <3>4. claims' = [claims EXCEPT ![t] = @ \o <<h>>]
        BY <2>1, <3>2
      <3> QED
        BY <2>1, <3>1, <3>2, <3>3, <3>4
    <2>3. CASE \E strict \in Policy : Q(strict)!ReleaseNone /\ Advance(t)
      <3>1. PICK strict \in Policy : Q(strict)!ReleaseNone /\ Advance(t)
        BY <2>3
      <3>2. Rests /\ result'.groups = <<>> /\ Q(strict)!NextOut = {}
        BY <1>0, <3>1, CallEffects
      <3>3. QInv'
        BY <1>0, <2>1, <3>1, CallKeeps
      <3>4. claims' = claims
        BY <1>0, <2>1, <3>2, TakeNothing
      <3> QED
        BY <2>1, <3>1, <3>2, <3>3, <3>4
    <2> QED
      BY <1>7, <2>2, <2>3 DEF Drain
  <1>8. ASSUME ReleaseAll(t)
        PROVE  /\ QInv' /\ noted' = noted /\ Advance(t)
               /\ \E strict \in Policy : \E gs \in Seq(Q(strict)!AllOut) :
                    /\ Leaves(Q(strict)!AllOut) /\ claims' = [claims EXCEPT ![t] = @ \o gs]
                    /\ Range(gs) = Q(strict)!AllOut /\ IsInjective(gs)
                    /\ \A i, j \in DOMAIN gs : i < j => gs[i] < gs[j]
    <2>1. Returned(t) /\ claims' = [claims EXCEPT ![t] = @ \o result'.groups]
      BY <1>8 DEF ReleaseAll, Take
    <2>2. PICK strict \in Policy : Q(strict)!ReleaseAll
      BY <1>8 DEF ReleaseAll
    <2>3. Leaves(Q(strict)!AllOut) /\ result'.value # "TitoError"
      BY <1>0, <2>2, CallEffects
    <2>4. scenario' = scenario /\ noted' = noted /\ Advance(t)
      BY <2>1, <2>3, Answered
    <2>5. QInv'
      BY <1>0, <2>2, <2>4, CallKeeps
    <2>6. /\ Range(result'.groups) = Q(strict)!AllOut /\ IsInjective(result'.groups)
          /\ result'.groups \in Seq(Q(strict)!AllOut)
          /\ \A i, j \in DOMAIN result'.groups : i < j => result'.groups[i] < result'.groups[j]
      BY <1>0, <2>2, OutFacts
    <2> QED
      BY <2>1, <2>3, <2>4, <2>5, <2>6
  <1>9. ASSUME Cancel(t)
        PROVE  /\ QInv' /\ noted' = noted
               /\ \/ /\ arg \in DOMAIN groups /\ Leaves({groups[arg]}) /\ Advance(t)
                     /\ claims' = [claims EXCEPT ![t] = @ \o <<groups[arg]>>]
                  \/ /\ arg \notin DOMAIN groups /\ Rests /\ (Advance(t) \/ Fail(t))
                     /\ claims' = claims
    <2>1. Returned(t) /\ claims' = [claims EXCEPT ![t] = @ \o result'.groups]
      BY <1>9 DEF Cancel, Take
    <2>2. PICK strict \in Policy : Q(strict)!Cancel(arg) \/ Q(strict)!CancelRefused(arg)
      BY <1>9 DEF Cancel
    <2> HIDE DEF arg
    <2>3. scenario' = scenario /\ noted' = noted /\ (Advance(t) \/ Fail(t))
      BY <2>1, Answered
    <2>4. QInv'
      BY <1>0, <2>2, <2>3, CallKeeps
    <2>5. CASE Q(strict)!Cancel(arg)
      <3>1. /\ arg \in DOMAIN groups /\ Leaves({groups[arg]})
            /\ result'.groups = <<groups[arg]>> /\ result'.value # "TitoError"
        BY <1>0, <2>5, CallEffects
      <3>2. Advance(t)
        BY <2>1, <3>1, Answered
      <3>3. claims' = [claims EXCEPT ![t] = @ \o <<groups[arg]>>]
        BY <2>1, <3>1
      <3> QED
        BY <2>3, <2>4, <3>1, <3>2, <3>3
    <2>6. CASE Q(strict)!CancelRefused(arg)
      <3>1. Rests /\ arg \notin DOMAIN groups /\ result'.groups = <<>>
        BY <1>0, <2>6, CallEffects
      <3>2. claims' = claims
        BY <1>0, <2>1, <3>1, TakeNothing
      <3> QED
        BY <2>3, <2>4, <3>1, <3>2
    <2> QED
      BY <2>2, <2>5, <2>6
  <1> QED
    BY <1>1, <1>2, <1>3, <1>4, <1>5, <1>6, <1>7, <1>8, <1>9, Zenon

\* A step that gives no group to anybody keeps each in its place.
LEMMA KeptOnce ==
  ASSUME CInv, claims' = claims, scenario' = scenario,
         DOMAIN group \subseteq DOMAIN group',
         \A h \in DOMAIN group : h \in Waiting' <=> h \in Waiting,
         \A h \in DOMAIN group' \ DOMAIN group : h \in Waiting'
  PROVE  claims' \in [Threads -> Seq(DOMAIN group')] /\ \A h \in DOMAIN group' : Once(h)'
  <1>1. claims \in [Threads -> Seq(DOMAIN group)] /\ Threads' = Threads
    BY DEF CInv, Threads
  <1>2. claims' \in [Threads -> Seq(DOMAIN group')]
    <2>1. \A t \in Threads : claims[t] \in Seq(DOMAIN group')
      BY <1>1
    <2> QED
      BY <1>1, <2>1
  <1>3. \A h : ClaimsOf(h)' = ClaimsOf(h)
    BY <1>1 DEF ClaimsOf
  <1>4. ASSUME NEW h \in DOMAIN group PROVE Once(h)'
    <2>1. Once(h) /\ (h \in Waiting' <=> h \in Waiting)
      BY DEF CInv
    <2> QED
      BY <1>3, <2>1 DEF Once
  <1>5. ASSUME NEW h \in DOMAIN group' \ DOMAIN group PROVE Once(h)'
    <2>1. \A c : c \notin ClaimsOf(h)
      BY <1>1, ClaimsMeaning
    <2>2. ClaimsOf(h) = {}
      BY <2>1
    <2>3. h \in Waiting'
      OBVIOUS
    <2> QED
      BY <1>3, <2>2, <2>3 DEF Once
  <1> QED
    BY <1>1, <1>2, <1>4, <1>5

\* What is done to the queue, for the claims.
LEMMA GroupsKept ==
  ASSUME CInv
  PROVE  /\ Rests => /\ DOMAIN group' = DOMAIN group /\ Waiting' = Waiting
                     /\ \A h \in DOMAIN group' : group'[h].members # {}
         /\ \A h, ms : Marks(h, ms) => /\ DOMAIN group' = DOMAIN group /\ Waiting' = Waiting
                                       /\ \A g \in DOMAIN group' : group'[g].members # {}
         /\ \A hs : Leaves(hs) => /\ DOMAIN group' = DOMAIN group /\ Waiting' = Waiting \ hs
                                  /\ \A g \in DOMAIN group' : group'[g].members # {}
         /\ \A id, list : list \in Lists /\ Comes(id, list) =>
              /\ DOMAIN group \subseteq DOMAIN group'
              /\ \A h \in DOMAIN group : h \in Waiting' <=> h \in Waiting
              /\ \A h \in DOMAIN group' \ DOMAIN group : h \in Waiting'
              /\ \A g \in DOMAIN group' : group'[g].members # {}
  <1>0. \A h \in DOMAIN group : group[h].members # {}
    BY DEF CInv
  <1>1. ASSUME Rests
        PROVE  /\ DOMAIN group' = DOMAIN group /\ Waiting' = Waiting
               /\ \A h \in DOMAIN group' : group'[h].members # {}
    BY <1>0, <1>1 DEF Rests, Waiting
  <1>2. ASSUME NEW h, NEW ms, Marks(h, ms)
        PROVE  /\ DOMAIN group' = DOMAIN group /\ Waiting' = Waiting
               /\ \A g \in DOMAIN group' : group'[g].members # {}
    BY <1>0, <1>2 DEF Marks, Waiting
  <1>3. ASSUME NEW hs, Leaves(hs)
        PROVE  /\ DOMAIN group' = DOMAIN group /\ Waiting' = Waiting \ hs
               /\ \A g \in DOMAIN group' : group'[g].members # {}
    BY <1>0, <1>3 DEF Leaves
  <1>4. ASSUME NEW id, NEW list, list \in Lists, Comes(id, list)
        PROVE  /\ DOMAIN group \subseteq DOMAIN group'
               /\ \A h \in DOMAIN group : h \in Waiting' <=> h \in Waiting
               /\ \A h \in DOMAIN group' \ DOMAIN group : h \in Waiting'
               /\ \A g \in DOMAIN group' : group'[g].members # {}
    <2>1. PICK n \in Nat : list \in [1..n -> People]
      BY <1>4, CountAssumption DEF Lists
    <2>2. list # <<>>
      BY <1>4 DEF Comes
    <2>3. Range(list) # {}
      <3>1. n # 0
        BY <2>1, <2>2
      <3>2. 1 \in DOMAIN list
        BY <2>1, <3>1
      <3> QED
        BY <3>2 DEF Range
    <2>4. PICK h : h = Len(group) + 1
      OBVIOUS
    <2>5. /\ h \notin DOMAIN group /\ DOMAIN group' = DOMAIN group \cup {h}
          /\ \A g \in DOMAIN group : group'[g] = group[g]
          /\ group'[h].members = Range(list) /\ Waiting' = Waiting \cup {h}
      BY <1>4, <2>4 DEF Comes
    <2> QED
      BY <1>0, <2>3, <2>5
  <1> QED
    BY <1>1, <1>2, <1>3, <1>4, Zenon

\* Where the threads go.
LEMMA PlaceKept ==
  ASSUME CInv, NEW t \in Threads, scenario' = scenario
  PROVE  /\ Advance(t) \/ Fail(t) \/ UNCHANGED <<at, failed>>
              => at' \in [Threads' -> Int] /\ failed' \subseteq Threads'
         /\ \A i \in Int : Goto(t, i) => at' \in [Threads' -> Int] /\ failed' \subseteq Threads'
         /\ Start(t) => at' \in [Threads' -> Int] /\ failed' \subseteq Threads'
  <1>1. at \in [Threads -> Int] /\ failed \subseteq Threads /\ Threads' = Threads
    BY DEF CInv, Threads
  <1>2. \A i \in Int : Goto(t, i) => at' \in [Threads' -> Int] /\ failed' \subseteq Threads'
    BY <1>1 DEF Goto
  <1>3. Advance(t) => at' \in [Threads' -> Int] /\ failed' \subseteq Threads'
    <2>1. at[t] + 1 \in Int
      BY <1>1
    <2> QED
      BY <1>2, <2>1 DEF Advance
  <1>4. Fail(t) => at' \in [Threads' -> Int] /\ failed' \subseteq Threads'
    BY <1>1 DEF Fail
  <1>5. UNCHANGED <<at, failed>> => at' \in [Threads' -> Int] /\ failed' \subseteq Threads'
    BY <1>1
  <1>6. Start(t) => at' \in [Threads' -> Int] /\ failed' \subseteq Threads'
    <2>1. PICK n \in Int : n = at[t] + 1
      BY <1>1
    <2>2. PICK w : w = Statement(t).arg
      OBVIOUS
    <2>3. PICK f : f = [at EXCEPT ![t] = n]
      OBVIOUS
    <2>4. f \in [Threads -> Int]
      BY <1>1, <2>3
    <2>5. [f EXCEPT ![w] = 1] \in [Threads -> Int]
      <3>1. PICK g : g = [f EXCEPT ![w] = 1]
        OBVIOUS
      <3>2. CASE w \in Threads
        BY <2>4, <3>2
      <3>3. CASE w \notin Threads
        <4>1. g = f
          BY <2>4, <3>1, <3>3
        <4> QED
          BY <2>4, <3>1, <4>1
      <3> QED
        BY <3>2, <3>3
    <2>6. Start(t) => at' = [f EXCEPT ![w] = 1] /\ failed' = failed
      BY <2>1, <2>2, <2>3 DEF Start
    <2> QED
      BY <1>1, <2>5, <2>6
  <1> QED
    BY <1>2, <1>3, <1>4, <1>5, <1>6

\* At the start nobody has been given anything.
LEMMA InitClaims == Init => CInv
  <1> SUFFICES ASSUME Init PROVE CInv
    OBVIOUS
  <1>1. /\ scenario \in Scenarios /\ failed = {}
        /\ at = [t \in Threads |-> IF t = "main" THEN 1 ELSE 0]
        /\ claims = [t \in Threads |-> <<>>]
    BY DEF Init
  <1>2. PICK strict \in BOOLEAN : Q(strict)!Init
    BY DEF Init
  <1>3. Strict!Init /\ Relaxed!Init
    BY <1>2 DEF Q!Init, Strict!Init, Relaxed!Init, Q!EmptyDict, Strict!EmptyDict,
                Relaxed!EmptyDict, Q!Returns, Strict!Returns, Relaxed!Returns
  <1>4. Strict!IInv /\ Relaxed!IInv
    BY <1>3, SameAssumptions, Strict!InitEstablishes, Relaxed!InitEstablishes
  <1>5. alive /\ group = <<>>
    BY <1>2 DEF Q!Init
  <1>6. QInv
    BY <1>4, <1>5 DEF QInv
  <1>7. DOMAIN group = {}
    BY <1>5
  <1>8. at \in [Threads -> Int] /\ failed \subseteq Threads
    BY <1>1
  <1>9. claims \in [Threads -> Seq(DOMAIN group)]
    BY <1>1
  <1> QED
    BY <1>1, <1>6, <1>7, <1>8, <1>9 DEF CInv

\* A thread that is given one group that waits.
LEMMA TakesOne ==
  ASSUME CInv, NEW t \in Threads, NEW h \in Waiting, scenario' = scenario, Leaves({h}),
         claims' = [claims EXCEPT ![t] = @ \o <<h>>]
  PROVE  claims' \in [Threads -> Seq(DOMAIN group')] /\ \A g \in DOMAIN group' : Once(g)'
  <1>1. PICK gs : gs = <<h>>
    OBVIOUS
  <1>2. gs \in Seq({h}) /\ Range(gs) = {h} /\ IsInjective(gs) /\ {h} \in SUBSET Waiting
    BY <1>1 DEF Range, IsInjective
  <1>3. claims' = [claims EXCEPT ![t] = @ \o gs]
    BY <1>1
  <1>4. DOMAIN group' = DOMAIN group /\ Waiting' = Waiting \ {h}
    BY DEF Leaves
  <1> QED
    BY <1>2, <1>3, <1>4, TakenOnce

\* Every statement of every thread keeps the invariant.
LEMMA TurnKeeps ==
  ASSUME CInv, NEW t \in Threads, Turn(t)
  PROVE  CInv' /\ scenario' = scenario
  <1> DEFINE Placed == at' \in [Threads' -> Int] /\ failed' \subseteq Threads'
             Kept == /\ claims' \in [Threads' -> Seq(DOMAIN group')]
                     /\ \A h \in DOMAIN group' : Once(h)'
             Peopled == \A h \in DOMAIN group' : group'[h].members # {}
             arg == Statement(t).arg
  <1>0. scenario' = scenario
    BY DEF Turn, Admit, MarkReady, MarkGroupReady, Peek, GroupOf, Release, Drain, ReleaseAll,
           Cancel, Note, Start, Join, Respond, UntilProduced, WhileQueue, Again, Returned
  <1>1. scenario' \in Scenarios /\ Threads' = Threads /\ scenario \in Scenarios /\ QInv
    BY <1>0 DEF CInv, Threads
  <1>2. QInv' /\ Placed /\ Kept /\ Peopled => CInv'
    BY <1>1 DEF CInv
  <1>3. Advance(t) \/ Fail(t) \/ UNCHANGED <<at, failed>> => Placed
    BY <1>0, PlaceKept
  <1> HIDE DEF Placed, Kept, Peopled, arg
  <1>4. ASSUME Rests, claims' = claims PROVE Kept /\ Peopled
    <2>1. DOMAIN group' = DOMAIN group /\ Waiting' = Waiting /\ Peopled
      BY <1>4, GroupsKept DEF Peopled
    <2>2. Kept
      BY <1>0, <1>1, <1>4, <2>1, KeptOnce DEF Kept
    <2> QED
      BY <2>1, <2>2
  <1>5. ASSUME NEW h, NEW ms, Marks(h, ms), claims' = claims PROVE Kept /\ Peopled
    <2>1. DOMAIN group' = DOMAIN group /\ Waiting' = Waiting /\ Peopled
      BY <1>5, GroupsKept DEF Peopled
    <2>2. Kept
      BY <1>0, <1>1, <1>5, <2>1, KeptOnce DEF Kept
    <2> QED
      BY <2>1, <2>2
  <1>6. ASSUME NEW h \in Waiting, Leaves({h}), claims' = [claims EXCEPT ![t] = @ \o <<h>>]
        PROVE  Kept /\ Peopled
    <2>1. Peopled
      BY <1>6, GroupsKept DEF Peopled
    <2>2. Kept
      BY <1>0, <1>1, <1>6, TakesOne DEF Kept
    <2> QED
      BY <2>1, <2>2
  <1>7. ASSUME NEW strict \in Policy
        PROVE  Q(strict)!NextOut \subseteq Waiting /\ Q(strict)!AllOut \subseteq Waiting
    BY <1>1, OutFacts
  <1>8. CASE Admit(t)
    <2>1. /\ arg[1] \in Ids /\ arg[2] \in Lists /\ QInv' /\ claims' = claims
          /\ \/ Comes(arg[1], arg[2]) /\ Advance(t)
             \/ Rests /\ IF Statement(t).catch THEN Advance(t) ELSE Fail(t)
      BY <1>8, TurnEffects DEF arg
    <2>2. CASE Comes(arg[1], arg[2]) /\ Advance(t)
      <3>1. /\ DOMAIN group \subseteq DOMAIN group' /\ Peopled
            /\ \A h \in DOMAIN group : h \in Waiting' <=> h \in Waiting
            /\ \A h \in DOMAIN group' \ DOMAIN group : h \in Waiting'
        BY <2>1, <2>2, GroupsKept DEF Peopled
      <3>2. Kept
        BY <1>0, <1>1, <2>1, <3>1, KeptOnce DEF Kept
      <3> QED
        BY <1>0, <1>2, <1>3, <2>1, <2>2, <3>1, <3>2
    <2>3. CASE Rests /\ IF Statement(t).catch THEN Advance(t) ELSE Fail(t)
      BY <1>0, <1>2, <1>3, <1>4, <2>1, <2>3
    <2> QED
      BY <2>1, <2>2, <2>3
  <1>9. CASE MarkReady(t)
    <2>1. /\ QInv' /\ claims' = claims
          /\ \/ Marks(groups[member_index[arg]], {arg}) /\ Advance(t)
             \/ Rests /\ (Advance(t) \/ Fail(t))
      BY <1>9, TurnEffects DEF arg
    <2> QED
      BY <1>0, <1>2, <1>3, <1>4, <1>5, <2>1
  <1>10. CASE MarkGroupReady(t)
    <2>1. /\ QInv' /\ claims' = claims
          /\ \/ Marks(groups[arg], group[groups[arg]].members) /\ Advance(t)
             \/ Rests /\ (Advance(t) \/ Fail(t))
      BY <1>10, TurnEffects DEF arg
    <2> QED
      BY <1>0, <1>2, <1>3, <1>4, <1>5, <2>1
  <1>11. CASE Peek(t)
    <2>1. QInv' /\ claims' = claims /\ Rests /\ Advance(t)
      BY <1>11, TurnEffects
    <2> QED
      BY <1>0, <1>2, <1>3, <1>4, <2>1
  <1>12. ASSUME UNCHANGED <<queue, claims>>, Placed PROVE CInv'
    <2>1. UNCHANGED <<group, groups, member_index, next_sequence, ready_groups, ready_heap,
                      alive, result>>
      BY <1>12 DEF queue
    <2>2. Rests
      BY <2>1 DEF Rests
    <2>3. QInv'
      <3>1. Strict!IInv' <=> Strict!IInv
        BY <2>1 DEF Strict!IInv, Strict!TypeOK, Strict!Numbered, Strict!CounterMatchesFlags,
             Strict!IndexesAgree, Strict!CallbackWhileWaiting, Strict!ReadyIndexExact,
             Strict!HeapCoversReady, Strict!HeapBounded, Strict!Handles, Strict!Waiting
      <3>2. Relaxed!IInv' <=> Relaxed!IInv
        BY <2>1 DEF Relaxed!IInv, Relaxed!TypeOK, Relaxed!Numbered, Relaxed!CounterMatchesFlags,
             Relaxed!IndexesAgree, Relaxed!CallbackWhileWaiting, Relaxed!ReadyIndexExact,
             Relaxed!HeapCoversReady, Relaxed!HeapBounded, Relaxed!Handles, Relaxed!Waiting
      <3> QED
        BY <1>0, <1>1, <2>1, <3>1, <3>2 DEF QInv
    <2> QED
      BY <1>2, <1>4, <1>12, <2>2, <2>3
  <1>13. CASE GroupOf(t)
    <2>1. UNCHANGED <<queue, claims>> /\ (Advance(t) \/ Fail(t))
      BY <1>13 DEF GroupOf
    <2> QED
      BY <1>0, <1>3, <1>12, <2>1
  <1>14. CASE Release(t)
    <2>1. /\ QInv'
          /\ \/ \E strict \in Policy : \E h \in Q(strict)!NextOut :
                  Leaves({h}) /\ claims' = [claims EXCEPT ![t] = @ \o <<h>>] /\ Advance(t)
             \/ Rests /\ claims' = claims /\ Fail(t)
      BY <1>14, TurnEffects
    <2>2. \/ \E h \in Waiting : /\ Leaves({h}) /\ claims' = [claims EXCEPT ![t] = @ \o <<h>>]
                               /\ Advance(t)
          \/ Rests /\ claims' = claims /\ Fail(t)
      BY <1>7, <2>1, Zenon
    <2> QED
      BY <1>0, <1>2, <1>3, <1>4, <1>6, <2>1, <2>2
  <1>15. CASE Drain(t)
    <2>1. /\ QInv'
          /\ \/ \E strict \in Policy : \E h \in Q(strict)!NextOut :
                  /\ Leaves({h}) /\ claims' = [claims EXCEPT ![t] = @ \o <<h>>]
                  /\ UNCHANGED <<at, failed>>
             \/ Rests /\ claims' = claims /\ Advance(t)
      BY <1>15, TurnEffects
    <2>2. \/ \E h \in Waiting : /\ Leaves({h}) /\ claims' = [claims EXCEPT ![t] = @ \o <<h>>]
                               /\ UNCHANGED <<at, failed>>
          \/ Rests /\ claims' = claims /\ Advance(t)
      BY <1>7, <2>1, Zenon
    <2> QED
      BY <1>0, <1>2, <1>3, <1>4, <1>6, <2>1, <2>2
  <1>16. CASE ReleaseAll(t)
    <2>0. PICK strict \in Policy : \E gs \in Seq(Q(strict)!AllOut) :
                   /\ QInv' /\ Advance(t)
                   /\ Leaves(Q(strict)!AllOut) /\ claims' = [claims EXCEPT ![t] = @ \o gs]
                   /\ Range(gs) = Q(strict)!AllOut /\ IsInjective(gs)
      BY <1>16, TurnEffects
    <2>1. PICK gs \in Seq(Q(strict)!AllOut) :
                   /\ QInv' /\ Advance(t)
                   /\ Leaves(Q(strict)!AllOut) /\ claims' = [claims EXCEPT ![t] = @ \o gs]
                   /\ Range(gs) = Q(strict)!AllOut /\ IsInjective(gs)
      BY <2>0
    <2>2. Q(strict)!AllOut \in SUBSET Waiting
      BY <1>7
    <2>3. DOMAIN group' = DOMAIN group /\ Waiting' = Waiting \ Q(strict)!AllOut
      BY <2>1 DEF Leaves
    <2>4. Peopled
      BY <2>1, GroupsKept DEF Peopled
    <2>5. Kept
      BY <1>0, <1>1, <2>1, <2>2, <2>3, TakenOnce DEF Kept
    <2> QED
      BY <1>0, <1>2, <1>3, <2>1, <2>4, <2>5
  <1>17. CASE Cancel(t)
    <2>1. /\ QInv' /\ (Advance(t) \/ Fail(t))
          /\ \/ /\ arg \in DOMAIN groups /\ Leaves({groups[arg]})
                /\ claims' = [claims EXCEPT ![t] = @ \o <<groups[arg]>>]
             \/ Rests /\ claims' = claims
      BY <1>17, TurnEffects DEF arg
    <2>2. arg \in DOMAIN groups => groups[arg] \in Waiting
      BY DEF Waiting, Range
    <2> QED
      BY <1>0, <1>2, <1>3, <1>4, <1>6, <2>1, <2>2
  <1>18. CASE Note(t) \/ Join(t) \/ Respond(t)
    <2>1. UNCHANGED <<queue, claims>> /\ (Advance(t) \/ Fail(t))
      BY <1>18 DEF Note, Join, Respond
    <2> QED
      BY <1>0, <1>3, <1>12, <2>1
  <1>19. CASE Start(t)
    <2>1. UNCHANGED <<queue, claims>> /\ Placed
      BY <1>0, <1>19, PlaceKept DEF Start, Placed
    <2> QED
      BY <1>0, <1>12, <2>1
  <1>20. CASE UntilProduced(t) \/ WhileQueue(t) \/ Again(t)
    <2>1. at[t] \in Int
      BY DEF CInv
    <2>2. UNCHANGED <<queue, claims>> /\ (Advance(t) \/ \E i \in Int : Goto(t, i))
      BY <1>20, <2>1 DEF UntilProduced, WhileQueue, Again
    <2>3. Placed
      BY <1>0, <2>2, PlaceKept DEF Placed
    <2> QED
      BY <1>0, <1>12, <2>2, <2>3
  <1> QED
    BY <1>8, <1>9, <1>10, <1>11, <1>13, <1>14, <1>15, <1>16, <1>17, <1>18,
       <1>19, <1>20, <1>0 DEF Turn

\* So does every step.
LEMMA NextKeeps == CInv /\ [Next]_vars => CInv' /\ scenario' = scenario
  <1> SUFFICES ASSUME CInv, [Next]_vars PROVE CInv' /\ scenario' = scenario
    OBVIOUS
  <1>1. ASSUME NEW t \in Threads, Turn(t) PROVE CInv' /\ scenario' = scenario
    BY <1>1, TurnKeeps
  <1>2. CASE UNCHANGED vars
    <2>1. UNCHANGED <<group, groups, member_index, next_sequence, ready_groups, ready_heap,
                      alive, scenario, at, failed, claims>>
      BY <1>2 DEF vars, queue
    <2>2. Strict!IInv' <=> Strict!IInv
      BY <2>1, <1>2
         DEF vars, queue, Strict!IInv, Strict!TypeOK, Strict!Numbered,
             Strict!CounterMatchesFlags, Strict!IndexesAgree, Strict!CallbackWhileWaiting,
             Strict!ReadyIndexExact, Strict!HeapCoversReady, Strict!HeapBounded,
             Strict!Handles, Strict!Waiting
    <2>3. Relaxed!IInv' <=> Relaxed!IInv
      BY <2>1, <1>2
         DEF vars, queue, Relaxed!IInv, Relaxed!TypeOK, Relaxed!Numbered,
             Relaxed!CounterMatchesFlags, Relaxed!IndexesAgree, Relaxed!CallbackWhileWaiting,
             Relaxed!ReadyIndexExact, Relaxed!HeapCoversReady, Relaxed!HeapBounded,
             Relaxed!Handles, Relaxed!Waiting
    <2>4. /\ QInv' <=> QInv
          /\ Threads' = Threads
      BY <2>1, <2>2, <2>3 DEF QInv, Threads
    <2>5. \A h : Once(h)' <=> Once(h)
      BY <2>1, <2>4 DEF Once, ClaimsOf, Waiting
    <2> QED
      BY <2>1, <2>4, <2>5 DEF CInv
  <1> QED
    BY <1>1, <1>2 DEF Next, Terminating

\* Between two statements the queue is consistent and each group is in one place, whatever
\* the program and however its threads interleave.
THEOREM ClientsConsistent == Spec => []CInv
  BY InitClaims, NextKeeps, PTL DEF Spec

\* However the threads interleave, each group that was admitted either waits or has been
\* given to one thread, once: no group is lost between two calls and none goes to two
\* threads, whichever program runs and however many groups it uses.
THEOREM EachClaimedOnceHolds == Spec => []EachClaimedOnce
  <1>1. CInv => EachClaimedOnce
    BY OnceCounts DEF CInv, EachClaimedOnce
  <1> QED
    BY <1>1, ClientsConsistent, PTL
-----------------------------------------------------------------------------
\* What a thread does at each kind of statement.

\* The thread goes on, or ends with an exception.
Moves(t, i) ==
  at'[t] = i /\ (\A u \in Threads \ {t} : at'[u] = at[u]) /\ failed' = failed
Fails(t) == at' = at /\ failed' = failed \cup {t}

\* The groups that may leave now under the policy of the scenario.
Full(h) == group[h].ready = group[h].members
MayLeave ==
  {h \in Waiting : Full(h) /\ (scenario.strict => \A g \in Waiting : g < h => Full(g))}

\* The groups that release and release_all may give are those that may leave.
LEMMA MayLeaveIs ==
  ASSUME scenario \in Scenarios, QInv, NEW strict \in Policy
  PROVE  /\ Q(strict)!AllOut = MayLeave
         /\ Q(strict)!NextOut = {h \in MayLeave : \A g \in MayLeave : h <= g}
         /\ Q(strict)!NextOut = {} => MayLeave = {}
  <1>1. strict = scenario.strict
    BY DEF Policy
  <1>2. Q(strict)!AllOut = MayLeave
    BY <1>1, OutFacts DEF MayLeave, Full
  <1> QED
    BY <1>2, OutFacts

\* Where a thread goes after a statement.
LEMMA PlacesAre ==
  ASSUME CInv, NEW t \in Threads
  PROVE  /\ Advance(t) => Moves(t, at[t] + 1)
         /\ \A i : Goto(t, i) => Moves(t, i)
         /\ Fail(t) => Fails(t)
  BY DEF CInv, Advance, Goto, Fail, Moves, Fails

\* A thread does what its statement says.
LEMMA TurnIs ==
  ASSUME NEW t \in Threads, Turn(t)
  PROVE  /\ Statement(t).op = "admit" => Admit(t)
         /\ Statement(t).op = "mark_ready" => MarkReady(t)
         /\ Statement(t).op = "mark_group_ready" => MarkGroupReady(t)
         /\ Statement(t).op = "peek" => Peek(t)
         /\ Statement(t).op = "group_of" => GroupOf(t)
         /\ Statement(t).op = "release" => Release(t)
         /\ Statement(t).op = "drain" => Drain(t)
         /\ Statement(t).op = "release_all" => ReleaseAll(t)
         /\ Statement(t).op = "cancel" => Cancel(t)
         /\ Statement(t).op = "note" => Note(t)
         /\ Statement(t).op = "start" => Start(t)
         /\ Statement(t).op = "join" => Join(t)
         /\ Statement(t).op = "respond" => Respond(t)
         /\ Statement(t).op = "until_produced" => UntilProduced(t)
         /\ Statement(t).op = "while_queue" => WhileQueue(t)
         /\ Statement(t).op = "again" => Again(t)
         /\ at[t] > 0 /\ ~ Over(t)
  <1> DEFINE op == Statement(t).op
  <1>1. \/ Admit(t) /\ op = "admit"
        \/ MarkReady(t) /\ op = "mark_ready"
        \/ MarkGroupReady(t) /\ op = "mark_group_ready"
        \/ Peek(t) /\ op = "peek"
        \/ GroupOf(t) /\ op = "group_of"
        \/ Release(t) /\ op = "release"
        \/ Drain(t) /\ op = "drain"
        \/ ReleaseAll(t) /\ op = "release_all"
        \/ Cancel(t) /\ op = "cancel"
        \/ Note(t) /\ op = "note"
        \/ Start(t) /\ op = "start"
        \/ Join(t) /\ op = "join"
        \/ Respond(t) /\ op = "respond"
        \/ UntilProduced(t) /\ op = "until_produced"
        \/ WhileQueue(t) /\ op = "while_queue"
        \/ Again(t) /\ op = "again"
    BY DEF Turn, Admit, MarkReady, MarkGroupReady, Peek, GroupOf, Release, Drain, ReleaseAll,
           Cancel, Note, Start, Join, Respond, UntilProduced, WhileQueue, Again, At
  <1>2. at[t] > 0 /\ ~ Over(t)
    BY DEF Turn, Admit, MarkReady, MarkGroupReady, Peek, GroupOf, Release, Drain, ReleaseAll,
           Cancel, Note, Start, Join, Respond, UntilProduced, WhileQueue, Again, At
  <1> HIDE DEF op
  <1>3. /\ op = "admit" => Admit(t)
        /\ op = "mark_ready" => MarkReady(t)
        /\ op = "mark_group_ready" => MarkGroupReady(t)
        /\ op = "peek" => Peek(t)
        /\ op = "group_of" => GroupOf(t)
        /\ op = "release" => Release(t)
        /\ op = "drain" => Drain(t)
        /\ op = "release_all" => ReleaseAll(t)
        /\ op = "cancel" => Cancel(t)
        /\ op = "note" => Note(t)
        /\ op = "start" => Start(t)
        /\ op = "join" => Join(t)
        /\ op = "respond" => Respond(t)
        /\ op = "until_produced" => UntilProduced(t)
        /\ op = "while_queue" => WhileQueue(t)
        /\ op = "again" => Again(t)
    BY <1>1
  <1> QED
    BY <1>2, <1>3 DEF op

\* Where a thread is when it takes a turn.
LEMMA TurnAt ==
  ASSUME CInv, NEW t \in Threads, Turn(t)
  PROVE  /\ at[t] \in 1..Len(scenario.program[t]) /\ Len(scenario.program[t]) \in Nat
         /\ t \notin failed /\ scenario' = scenario /\ Threads' = Threads
  <1>1. scenario.program[t] \in Seq(Calls) /\ at[t] \in Int /\ at[t] > 0 /\ ~ Over(t)
    BY TurnIs, Programs DEF CInv, Threads
  <1>2. scenario' = scenario
    BY TurnKeeps
  <1> QED
    BY <1>1, <1>2 DEF Over, Finished, Threads

\* Either the group comes or the id or a member is taken.
LEMMA AdmitTurn ==
  ASSUME CInv, NEW t \in Threads, Turn(t), NEW id, NEW list,
         Statement(t) \in {Do("admit", <<id, list>>), Try("admit", <<id, list>>)}
  PROVE  /\ claims' = claims /\ noted' = noted
         /\ \/ Comes(id, list) /\ Moves(t, at[t] + 1)
            \/ /\ Rests
               /\ Statement(t) = Try("admit", <<id, list>>) => Moves(t, at[t] + 1)
               /\ Statement(t) = Do("admit", <<id, list>>) => Fails(t)
               /\ list # <<>> /\ IsInjective(list) =>
                    id \in DOMAIN groups \/ Range(list) \cap DOMAIN member_index # {}
  <1>1. /\ Statement(t).op = "admit"
        /\ Statement(t).arg[1] = id /\ Statement(t).arg[2] = list
        /\ Statement(t) = Try("admit", <<id, list>>) => Statement(t).catch
        /\ Statement(t) = Do("admit", <<id, list>>) => ~ Statement(t).catch
    BY DEF Do, Try
  <1>2. /\ claims' = claims /\ noted' = noted
        /\ \/ Comes(id, list) /\ Advance(t)
           \/ /\ Rests /\ IF Statement(t).catch THEN Advance(t) ELSE Fail(t)
              /\ list # <<>> /\ IsInjective(list) =>
                   id \in DOMAIN groups \/ Range(list) \cap DOMAIN member_index # {}
    BY <1>1, TurnIs, TurnEffects
  <1> QED
    BY <1>1, <1>2, PlacesAre

\* Either the member is marked or nothing waits for it.
LEMMA MarkTurn ==
  ASSUME CInv, NEW t \in Threads, Turn(t), NEW m, Statement(t) = Do("mark_ready", m)
  PROVE  /\ claims' = claims /\ noted' = noted
         /\ \/ /\ m \in DOMAIN member_index /\ Marks(groups[member_index[m]], {m})
               /\ Moves(t, at[t] + 1)
            \/ m \notin DOMAIN member_index /\ Rests /\ (Moves(t, at[t] + 1) \/ Fails(t))
  <1>1. Statement(t).op = "mark_ready" /\ Statement(t).arg = m
    BY DEF Do
  <1>2. /\ claims' = claims /\ noted' = noted
        /\ \/ /\ m \in DOMAIN member_index /\ Marks(groups[member_index[m]], {m})
              /\ Advance(t)
           \/ m \notin DOMAIN member_index /\ Rests /\ (Advance(t) \/ Fail(t))
    BY <1>1, TurnIs, TurnEffects
  <1> QED
    BY <1>2, PlacesAre

\* Either the whole group is marked or no group of that id waits.
LEMMA MarkGroupTurn ==
  ASSUME CInv, NEW t \in Threads, Turn(t), NEW id, Statement(t) = Do("mark_group_ready", id)
  PROVE  /\ claims' = claims /\ noted' = noted
         /\ \/ /\ id \in DOMAIN groups /\ Marks(groups[id], group[groups[id]].members)
               /\ Moves(t, at[t] + 1)
            \/ id \notin DOMAIN groups /\ Rests /\ (Moves(t, at[t] + 1) \/ Fails(t))
  <1>1. Statement(t).op = "mark_group_ready" /\ Statement(t).arg = id
    BY DEF Do
  <1>2. /\ claims' = claims /\ noted' = noted
        /\ \/ /\ id \in DOMAIN groups /\ Marks(groups[id], group[groups[id]].members)
              /\ Advance(t)
           \/ id \notin DOMAIN groups /\ Rests /\ (Advance(t) \/ Fail(t))
    BY <1>1, TurnIs, TurnEffects
  <1> QED
    BY <1>2, PlacesAre

\* Looking changes nothing, and fails only on somebody who does not wait.
LEMMA LookTurn ==
  ASSUME CInv, NEW t \in Threads, Turn(t)
  PROVE  /\ Statement(t) = Do("peek", <<>>) =>
              Rests /\ claims' = claims /\ noted' = noted /\ Moves(t, at[t] + 1)
         /\ \A m : Statement(t) = Do("group_of", m) =>
              /\ Rests /\ claims' = claims /\ noted' = noted
              /\ IF m \in DOMAIN member_index THEN Moves(t, at[t] + 1) ELSE Fails(t)
  <1>1. ASSUME Statement(t) = Do("peek", <<>>)
        PROVE  Rests /\ claims' = claims /\ noted' = noted /\ Moves(t, at[t] + 1)
    <2>1. Statement(t).op = "peek"
      BY <1>1 DEF Do
    <2>2. Rests /\ claims' = claims /\ noted' = noted /\ Advance(t)
      BY <2>1, TurnIs, TurnEffects
    <2> QED
      BY <2>2, PlacesAre
  <1>2. ASSUME NEW m, Statement(t) = Do("group_of", m)
        PROVE  /\ Rests /\ claims' = claims /\ noted' = noted
               /\ IF m \in DOMAIN member_index THEN Moves(t, at[t] + 1) ELSE Fails(t)
    <2>1. Statement(t).op = "group_of" /\ Statement(t).arg = m
      BY <1>2 DEF Do
    <2>2. GroupOf(t)
      BY <2>1, TurnIs
    <2>3. /\ Rests /\ claims' = claims /\ noted' = noted
          /\ IF m \in DOMAIN member_index THEN Advance(t) ELSE Fail(t)
      BY <2>1, <2>2 DEF GroupOf, queue, Rests
    <2> QED
      BY <2>3, PlacesAre
  <1> QED
    BY <1>1, <1>2

\* Either the first group that may leave does, or none may and the thread fails.
LEMMA ReleaseTurn ==
  ASSUME CInv, NEW t \in Threads, Turn(t), Statement(t) = Do("release", <<>>)
  PROVE  /\ noted' = noted
         /\ \/ /\ Moves(t, at[t] + 1)
               /\ \E h \in MayLeave : /\ \A g \in MayLeave : h <= g
                                      /\ Leaves({h})
                                      /\ claims' = [claims EXCEPT ![t] = @ \o <<h>>]
            \/ MayLeave = {} /\ Rests /\ claims' = claims /\ Fails(t)
  <1>1. Statement(t).op = "release"
    BY DEF Do
  <1>2. /\ noted' = noted
        /\ \/ \E strict \in Policy : \E h \in Q(strict)!NextOut :
                Leaves({h}) /\ claims' = [claims EXCEPT ![t] = @ \o <<h>>] /\ Advance(t)
           \/ \E strict \in Policy : Q(strict)!NextOut = {} /\ Rests /\ claims' = claims /\ Fail(t)
    BY <1>1, TurnIs, TurnEffects
  <1>3. scenario \in Scenarios /\ QInv
    BY DEF CInv
  <1>4. CASE \E strict \in Policy : \E h \in Q(strict)!NextOut :
               Leaves({h}) /\ claims' = [claims EXCEPT ![t] = @ \o <<h>>] /\ Advance(t)
    <2>1. PICK strict \in Policy : \E h \in Q(strict)!NextOut :
            Leaves({h}) /\ claims' = [claims EXCEPT ![t] = @ \o <<h>>] /\ Advance(t)
      BY <1>4
    <2>2. Q(strict)!NextOut = {h \in MayLeave : \A g \in MayLeave : h <= g}
      BY <1>3, MayLeaveIs
    <2> QED
      BY <1>2, <2>1, <2>2, PlacesAre
  <1>5. CASE \E strict \in Policy : Q(strict)!NextOut = {} /\ Rests /\ claims' = claims /\ Fail(t)
    <2>1. PICK strict \in Policy : Q(strict)!NextOut = {} /\ Rests /\ claims' = claims /\ Fail(t)
      BY <1>5
    <2>2. MayLeave = {}
      BY <1>3, <2>1, MayLeaveIs
    <2> QED
      BY <1>2, <2>1, <2>2, PlacesAre
  <1> QED
    BY <1>2, <1>4, <1>5

\* Either a group leaves and the loop goes on, or none may and the loop ends.
LEMMA DrainTurn ==
  ASSUME CInv, NEW t \in Threads, Turn(t), Statement(t) = Do("drain", <<>>)
  PROVE  /\ noted' = noted
         /\ \/ /\ at' = at /\ failed' = failed
               /\ \E h \in MayLeave : /\ Leaves({h})
                                      /\ claims' = [claims EXCEPT ![t] = @ \o <<h>>]
            \/ MayLeave = {} /\ Rests /\ claims' = claims /\ Moves(t, at[t] + 1)
  <1>1. Statement(t).op = "drain"
    BY DEF Do
  <1>2. /\ noted' = noted
        /\ \/ \E strict \in Policy : \E h \in Q(strict)!NextOut :
                /\ Leaves({h}) /\ claims' = [claims EXCEPT ![t] = @ \o <<h>>]
                /\ UNCHANGED <<at, failed>>
           \/ \E strict \in Policy :
                Q(strict)!NextOut = {} /\ Rests /\ claims' = claims /\ Advance(t)
    BY <1>1, TurnIs, TurnEffects
  <1>3. scenario \in Scenarios /\ QInv
    BY DEF CInv
  <1>4. CASE \E strict \in Policy : \E h \in Q(strict)!NextOut :
               /\ Leaves({h}) /\ claims' = [claims EXCEPT ![t] = @ \o <<h>>]
               /\ UNCHANGED <<at, failed>>
    <2>1. PICK strict \in Policy : \E h \in Q(strict)!NextOut :
            /\ Leaves({h}) /\ claims' = [claims EXCEPT ![t] = @ \o <<h>>]
            /\ UNCHANGED <<at, failed>>
      BY <1>4
    <2>2. Q(strict)!NextOut = {h \in MayLeave : \A g \in MayLeave : h <= g}
      BY <1>3, MayLeaveIs
    <2> QED
      BY <1>2, <2>1, <2>2
  <1>5. CASE \E strict \in Policy :
               Q(strict)!NextOut = {} /\ Rests /\ claims' = claims /\ Advance(t)
    <2>1. PICK strict \in Policy : Q(strict)!NextOut = {} /\ Rests /\ claims' = claims /\ Advance(t)
      BY <1>5
    <2>2. MayLeave = {}
      BY <1>3, <2>1, MayLeaveIs
    <2> QED
      BY <1>2, <2>1, <2>2, PlacesAre
  <1> QED
    BY <1>2, <1>4, <1>5

\* All groups that may leave do, in the order in which they came.
LEMMA ReleaseAllTurn ==
  ASSUME CInv, NEW t \in Threads, Turn(t), Statement(t) = Do("release_all", <<>>)
  PROVE  /\ noted' = noted /\ Moves(t, at[t] + 1) /\ Leaves(MayLeave)
         /\ \E gs \in Seq(MayLeave) : /\ claims' = [claims EXCEPT ![t] = @ \o gs]
                                      /\ Range(gs) = MayLeave
                                      /\ \A i, j \in DOMAIN gs : i < j => gs[i] < gs[j]
  <1>1. Statement(t).op = "release_all"
    BY DEF Do
  <1>2. noted' = noted /\ Advance(t)
    BY <1>1, TurnIs, TurnEffects
  <1>3. PICK strict \in Policy : \E gs \in Seq(Q(strict)!AllOut) :
          /\ Leaves(Q(strict)!AllOut) /\ claims' = [claims EXCEPT ![t] = @ \o gs]
          /\ Range(gs) = Q(strict)!AllOut /\ IsInjective(gs)
          /\ \A i, j \in DOMAIN gs : i < j => gs[i] < gs[j]
    BY <1>1, TurnIs, TurnEffects
  <1>4. Q(strict)!AllOut = MayLeave
    BY MayLeaveIs DEF CInv
  <1> QED
    BY <1>2, <1>3, <1>4, PlacesAre

\* Group h leaves and the thread is given it.
Hands(t, h) == Leaves({h}) /\ claims' = [claims EXCEPT ![t] = @ \o <<h>>]

\* Either the group leaves or no group of that id waits.
LEMMA CancelTurn ==
  ASSUME CInv, NEW t \in Threads, Turn(t), NEW id,
         Statement(t) \in {Do("cancel", id), Try("cancel", id)}
  PROVE  /\ noted' = noted
         /\ \/ id \in DOMAIN groups /\ Hands(t, groups[id]) /\ Moves(t, at[t] + 1)
            \/ /\ id \notin DOMAIN groups /\ Rests /\ (Moves(t, at[t] + 1) \/ Fails(t))
               /\ claims' = claims
  <1>1. Statement(t).op = "cancel" /\ Statement(t).arg = id
    BY DEF Do, Try
  <1>2. PICK h : h = groups[id]
    OBVIOUS
  <1>3. /\ noted' = noted
        /\ \/ /\ id \in DOMAIN groups /\ Leaves({h}) /\ Advance(t)
              /\ claims' = [claims EXCEPT ![t] = @ \o <<h>>]
           \/ /\ id \notin DOMAIN groups /\ Rests /\ (Advance(t) \/ Fail(t))
              /\ claims' = claims
    BY <1>1, <1>2, TurnIs, TurnEffects
  <1> QED
    BY <1>2, <1>3, PlacesAre DEF Hands

\* The statements that do not call the queue.
LEMMA OtherTurn ==
  ASSUME CInv, NEW t \in Threads, Turn(t), NEW arg
  PROVE  /\ Statement(t) = Do("note", arg) =>
              Rests /\ claims' = claims /\ noted' = noted \cup {arg} /\ Moves(t, at[t] + 1)
         /\ Statement(t) = Do("join", arg) =>
              Rests /\ claims' = claims /\ noted' = noted /\ Moves(t, at[t] + 1) /\ Over(arg)
         /\ Statement(t) = Do("respond", arg) =>
              /\ Rests /\ claims' = claims /\ noted' = noted
              /\ IF Range(arg) \subseteq noted THEN Moves(t, at[t] + 1) ELSE Fails(t)
         /\ Statement(t) = Do("until_produced", arg) =>
              /\ Rests /\ claims' = claims /\ noted' = noted
              /\ Moves(t, IF "produced" \in noted /\ LenQueue = 0 THEN at[t] + 1 ELSE at[t] - 1)
         /\ Statement(t) = Do("while_queue", arg) =>
              /\ Rests /\ claims' = claims /\ noted' = noted
              /\ Moves(t, IF LenQueue = 0 THEN at[t] + 3 ELSE at[t] + 1)
         /\ Statement(t) = Do("again", arg) =>
              Rests /\ claims' = claims /\ noted' = noted /\ Moves(t, at[t] - 2)
  <1>1. /\ Advance(t) => Moves(t, at[t] + 1)
        /\ \A i : Goto(t, i) => Moves(t, i)
        /\ Fail(t) => Fails(t)
    BY PlacesAre
  <1>2. ASSUME Statement(t) = Do("note", arg)
        PROVE  Rests /\ claims' = claims /\ noted' = noted \cup {arg} /\ Moves(t, at[t] + 1)
    <2>1. Statement(t).op = "note" /\ Statement(t).arg = arg
      BY <1>2 DEF Do
    <2> QED
      BY <1>1, <2>1, TurnIs DEF Note, queue, Rests
  <1>3. ASSUME Statement(t) = Do("join", arg)
        PROVE  Rests /\ claims' = claims /\ noted' = noted /\ Moves(t, at[t] + 1) /\ Over(arg)
    <2>1. Statement(t).op = "join" /\ Statement(t).arg = arg
      BY <1>3 DEF Do
    <2> QED
      BY <1>1, <2>1, TurnIs DEF Join, queue, Rests
  <1>4. ASSUME Statement(t) = Do("respond", arg)
        PROVE  /\ Rests /\ claims' = claims /\ noted' = noted
               /\ IF Range(arg) \subseteq noted THEN Moves(t, at[t] + 1) ELSE Fails(t)
    <2>1. Statement(t).op = "respond" /\ Statement(t).arg = arg
      BY <1>4 DEF Do
    <2> QED
      BY <1>1, <2>1, TurnIs DEF Respond, queue, Rests
  <1>5. ASSUME Statement(t) = Do("until_produced", arg)
        PROVE  /\ Rests /\ claims' = claims /\ noted' = noted
               /\ Moves(t, IF "produced" \in noted /\ LenQueue = 0 THEN at[t] + 1 ELSE at[t] - 1)
    <2>1. Statement(t).op = "until_produced"
      BY <1>5 DEF Do
    <2>2. UntilProduced(t)
      BY <2>1, TurnIs
    <2>3. CASE "produced" \in noted /\ LenQueue = 0
      BY <1>1, <2>2, <2>3 DEF UntilProduced, queue, Rests
    <2>4. CASE ~ ("produced" \in noted /\ LenQueue = 0)
      BY <1>1, <2>2, <2>4 DEF UntilProduced, queue, Rests
    <2> QED
      BY <2>3, <2>4
  <1>6. ASSUME Statement(t) = Do("while_queue", arg)
        PROVE  /\ Rests /\ claims' = claims /\ noted' = noted
               /\ Moves(t, IF LenQueue = 0 THEN at[t] + 3 ELSE at[t] + 1)
    <2>1. Statement(t).op = "while_queue"
      BY <1>6 DEF Do
    <2> QED
      BY <1>1, <2>1, TurnIs DEF WhileQueue, queue, Rests
  <1>7. ASSUME Statement(t) = Do("again", arg)
        PROVE  Rests /\ claims' = claims /\ noted' = noted /\ Moves(t, at[t] - 2)
    <2>1. Statement(t).op = "again"
      BY <1>7 DEF Do
    <2> QED
      BY <1>1, <2>1, TurnIs DEF Again, queue, Rests
  <1> QED
    BY <1>2, <1>3, <1>4, <1>5, <1>6, <1>7

\* The main thread starts another one.
LEMMA StartTurn ==
  ASSUME CInv, NEW t \in Threads, Turn(t), NEW w \in Threads \ {t}, Statement(t) = Do("start", w)
  PROVE  /\ Rests /\ claims' = claims /\ noted' = noted /\ failed' = failed
         /\ at'[t] = at[t] + 1 /\ at'[w] = 1 /\ \A u \in Threads \ {t, w} : at'[u] = at[u]
  <1>1. Statement(t).op = "start" /\ Statement(t).arg = w
    BY DEF Do
  <1>2. Start(t)
    BY <1>1, TurnIs
  <1>3. at \in [Threads -> Int]
    BY DEF CInv
  <1>4. PICK i \in Int : i = at[t] + 1
    BY <1>3
  <1>5. at' = [at EXCEPT ![t] = i, ![w] = 1]
    BY <1>1, <1>2, <1>4 DEF Start
  <1>6. at'[t] = i /\ at'[w] = 1 /\ \A u \in Threads \ {t, w} : at'[u] = at[u]
    BY <1>3, <1>5
  <1> QED
    BY <1>2, <1>4, <1>6 DEF Start, queue, Rests

\* A queue that names the groups it should, and no others, keeps no trace of others.
LEMMA NoTrace ==
  ASSUME CInv
  PROVE  /\ Range(member_index) = DOMAIN groups
         /\ DOMAIN groups = {} => ready_groups = <<>>
         /\ scenario.strict => ready_groups = <<>>
         /\ Waiting = {groups[id] : id \in DOMAIN groups} /\ Waiting \subseteq DOMAIN group
         /\ \A id \in DOMAIN groups : groups[id] \in Waiting /\ group[groups[id]].group_id = id
         /\ \A h \in Waiting : group[h].group_id \in DOMAIN groups /\ groups[group[h].group_id] = h
  <1>1. /\ \A id \in DOMAIN groups :
             groups[id] \in DOMAIN group /\ group[groups[id]].group_id = id
        /\ \A id \in DOMAIN groups : \A m \in group[groups[id]].members :
             m \in DOMAIN member_index /\ member_index[m] = id
        /\ \A m \in DOMAIN member_index : member_index[m] \in DOMAIN groups
        /\ DOMAIN groups = {} => ready_groups = <<>>
        /\ scenario.strict => ready_groups = <<>>
    BY IndexFacts DEF CInv
  <1>2. \A h \in DOMAIN group : group[h].members # {}
    BY DEF CInv
  <1>3. \A id \in DOMAIN groups : \E m \in DOMAIN member_index : member_index[m] = id
    BY <1>1, <1>2
  <1>4. Range(member_index) = DOMAIN groups
    BY <1>1, <1>3 DEF Range
  <1>5. Waiting = {groups[id] : id \in DOMAIN groups}
    BY DEF Waiting, Range
  <1> QED
    BY <1>1, <1>4, <1>5
-----------------------------------------------------------------------------
\* Where the programs begin, and what their steps keep.

\* Where every program begins.
LEMMA StartOfAll ==
  ASSUME Init
  PROVE  /\ group = <<>> /\ DOMAIN groups = {} /\ DOMAIN member_index = {}
         /\ failed = {} /\ noted = {}
         /\ "main" \in Threads /\ at["main"] = 1
         /\ \A t \in Threads : claims[t] = <<>> /\ (t # "main" => at[t] = 0)
  <1>1. PICK strict \in BOOLEAN : Q(strict)!Init
    BY DEF Init
  <1>2. group = <<>> /\ DOMAIN groups = {} /\ DOMAIN member_index = {}
    BY <1>1 DEF Q!Init, Q!EmptyDict
  <1>3. "main" \in Threads
    BY Programs DEF Init, Threads
  <1> QED
    BY <1>2, <1>3 DEF Init

\* What stays as it is when nothing comes and nothing is marked.
LEMMA GroupsRest ==
  ASSUME CInv
  PROVE  /\ Rests => /\ groups' = groups /\ Waiting' = Waiting
                     /\ \A h \in DOMAIN group : Full(h)' <=> Full(h)
         /\ \A hs : Leaves(hs) =>
              /\ DOMAIN groups' \subseteq DOMAIN groups
              /\ \A id \in DOMAIN groups' : groups'[id] = groups[id]
              /\ \A id \in DOMAIN groups : id \notin DOMAIN groups' <=> groups[id] \in hs
              /\ \A h \in DOMAIN group : Full(h)' <=> Full(h)
         /\ \A id \in DOMAIN groups : groups[id] \in DOMAIN group
  <1>1. \A id \in DOMAIN groups : groups[id] \in DOMAIN group
    BY NoTrace
  <1>2. Rests => /\ groups' = groups /\ Waiting' = Waiting
                 /\ \A h \in DOMAIN group : Full(h)' <=> Full(h)
    BY DEF Rests, Waiting, Full
  <1>3. \A hs : Leaves(hs) => \A h \in DOMAIN group : Full(h)' <=> Full(h)
    BY DEF Leaves, Full
  <1>4. \A hs : Leaves(hs) =>
              /\ DOMAIN groups' \subseteq DOMAIN groups
              /\ \A id \in DOMAIN groups' : groups'[id] = groups[id]
              /\ \A id \in DOMAIN groups : id \notin DOMAIN groups' <=> groups[id] \in hs
    BY DEF Leaves
  <1> QED
    BY <1>1, <1>2, <1>3, <1>4

\* Another thread's list of groups does not change.
LEMMA OthersClaims ==
  ASSUME CInv, NEW t \in Threads, NEW u \in Threads \ {t}, NEW gs,
         claims' = [claims EXCEPT ![t] = @ \o gs]
  PROVE  claims'[u] = claims[u]
  BY DEF CInv
-----------------------------------------------------------------------------
\* Numbers are admitted one by one and each is marked before the next comes: t is the
\* thread that does it, and the groups that wait are ready but for the one in hand.
IsMarked(id) == Full(groups[id])
NumbersMarked(t) ==
  /\ DOMAIN groups \subseteq 1..Count
  /\ \A id \in DOMAIN groups : IsMarked(id) \/ at[t] = 2 * id

\* Each of these statements keeps the numbers marked.
LEMMA AdmittedTurn ==
  ASSUME CInv, NEW t \in Threads, Turn(t), at[t] \in 1..(2 * Count), NumbersMarked(t),
         Statement(t) = Admitted[at[t]]
  PROVE  /\ NumbersMarked(t)' /\ claims' = claims /\ noted' = noted
         /\ Moves(t, at[t] + 1) \/ Fails(t)
  <1>1. PICK k \in 1..Count : at[t] = 2 * k - 1 \/ at[t] = 2 * k
    BY AdmittedProgram
  <1>2. PICK i \in Nat : i = at[t]
    OBVIOUS
  <1>3. k \in Nat /\ DOMAIN groups \subseteq 1..Count /\ \A id \in 1..Count : id \in Nat
    BY CountAssumption DEF NumbersMarked
  <1>4. /\ Moves(t, i + 1) => at'[t] = i + 1
        /\ Fails(t) => at'[t] = i
    BY <1>2 DEF Moves, Fails
  <1>5. CASE i = 2 * k - 1
    <2>1. Statement(t) = Do("admit", <<k, <<k>>>>)
      BY <1>2, <1>5, AdmittedProgram
    <2>2. /\ claims' = claims /\ noted' = noted
          /\ \/ Comes(k, <<k>>) /\ Moves(t, i + 1)
             \/ Rests /\ Fails(t)
      BY <1>2, <2>1, AdmitTurn
    <2>3. \A id \in DOMAIN groups : IsMarked(id)
      <3> TAKE id \in DOMAIN groups
      <3>1. id \in Nat /\ 2 * k - 1 # 2 * id
        BY <1>3
      <3> QED
        BY <1>2, <1>5, <3>1 DEF NumbersMarked
    <2>4. CASE Comes(k, <<k>>) /\ Moves(t, i + 1)
      <3>1. /\ DOMAIN groups' = DOMAIN groups \cup {k}
            /\ \A id \in DOMAIN groups : groups'[id] = groups[id]
            /\ \A g \in DOMAIN group : group'[g] = group[g]
        BY <2>4 DEF Comes
      <3>2. at'[t] = 2 * k
        BY <1>4, <1>5, <2>4
      <3>3. \A id \in DOMAIN groups : IsMarked(id)'
        BY <2>3, <3>1, GroupsRest DEF IsMarked, Full
      <3> QED
        BY <1>2, <1>3, <2>2, <2>4, <3>1, <3>2, <3>3 DEF NumbersMarked
    <2>5. CASE Rests /\ Fails(t)
      <3>1. NumbersMarked(t)'
        BY <1>3, <2>3, <2>5, GroupsRest DEF NumbersMarked, IsMarked, Rests, Full
      <3> QED
        BY <2>2, <2>5, <3>1
    <2> QED
      BY <2>2, <2>4, <2>5
  <1>6. CASE i = 2 * k
    <2>1. Statement(t) = Do("mark_group_ready", k)
      BY <1>2, <1>6, AdmittedProgram
    <2>2. /\ claims' = claims /\ noted' = noted
          /\ \/ /\ k \in DOMAIN groups /\ Marks(groups[k], group[groups[k]].members)
                /\ Moves(t, i + 1)
             \/ k \notin DOMAIN groups /\ Rests /\ (Moves(t, i + 1) \/ Fails(t))
      BY <1>2, <2>1, MarkGroupTurn
    <2>3. \A id \in DOMAIN groups : id # k => IsMarked(id)
      <3> TAKE id \in DOMAIN groups
      <3>1. id \in Nat /\ (2 * k = 2 * id => id = k)
        BY <1>3
      <3> QED
        BY <1>2, <1>6, <3>1 DEF NumbersMarked
    <2>4. CASE /\ k \in DOMAIN groups /\ Marks(groups[k], group[groups[k]].members)
               /\ Moves(t, i + 1)
      <3>1. /\ groups' = groups
            /\ \A g \in DOMAIN group :
                 /\ group'[g].members = group[g].members
                 /\ group'[g].ready = IF g = groups[k] THEN group[g].ready \cup group[g].members
                                      ELSE group[g].ready
        BY <2>4 DEF Marks
      <3>2. \A g \in DOMAIN group : group[g].ready \subseteq group[g].members
        BY IndexFacts DEF CInv
      <3>3. \A g \in DOMAIN group : g = groups[k] \/ Full(g) => Full(g)'
        BY <3>1, <3>2 DEF Full
      <3>4. \A id \in DOMAIN groups' : IsMarked(id)'
        BY <2>3, <3>1, <3>3, GroupsRest DEF IsMarked, Full
      <3> QED
        BY <1>2, <1>3, <2>2, <2>4, <3>1, <3>4 DEF NumbersMarked
    <2>5. CASE k \notin DOMAIN groups /\ Rests /\ (Moves(t, i + 1) \/ Fails(t))
      <3>1. NumbersMarked(t)'
        BY <1>3, <2>3, <2>5, GroupsRest DEF NumbersMarked, IsMarked, Rests, Full
      <3> QED
        BY <1>2, <2>2, <2>5, <3>1
    <2> QED
      BY <2>2, <2>4, <2>5
  <1> QED
    BY <1>1, <1>2, <1>5, <1>6

\* A step that admits and marks nothing leaves the groups that wait as they are.
LEMMA MarkedStay ==
  ASSUME CInv, NEW t, NumbersMarked(t), Rests \/ \E hs : Leaves(hs),
         at'[t] = at[t] \/ at[t] > 2 * Count
  PROVE  NumbersMarked(t)' /\ DOMAIN groups' \subseteq DOMAIN groups
  <1>1. /\ DOMAIN groups' \subseteq DOMAIN groups
        /\ \A id \in DOMAIN groups' : groups'[id] = groups[id]
        /\ \A h \in DOMAIN group : Full(h)' <=> Full(h)
    BY GroupsRest
  <1>2. ASSUME NEW id \in DOMAIN groups' PROVE IsMarked(id)' \/ at'[t] = 2 * id
    <2>1. CASE IsMarked(id)
      BY <1>1, <2>1, GroupsRest DEF IsMarked, Full
    <2>2. CASE at[t] = 2 * id
      <3>1. id \in 1..Count /\ ~ (2 * id > 2 * Count)
        BY <1>1, CountAssumption DEF NumbersMarked
      <3> QED
        BY <2>2, <3>1
    <2> QED
      BY <1>1, <2>1, <2>2 DEF NumbersMarked
  <1> QED
    BY <1>1, <1>2 DEF NumbersMarked

\* When it has done so, all that waits may leave.
LEMMA MarkedMayLeave ==
  ASSUME CInv, NEW t, NumbersMarked(t), at[t] > 2 * Count
  PROVE  MayLeave = Waiting
  <1>1. \A id \in DOMAIN groups : IsMarked(id)
    <2> TAKE id \in DOMAIN groups
    <2>1. id \in 1..Count /\ ~ (2 * id > 2 * Count)
      BY CountAssumption DEF NumbersMarked
    <2> QED
      BY <2>1 DEF NumbersMarked
  <1>2. \A h \in Waiting : Full(h)
    BY <1>1, NoTrace DEF IsMarked
  <1> QED
    BY <1>2 DEF MayLeave
-----------------------------------------------------------------------------
\* Two threads that drain: each comes to its end when nothing waits any more.
Drainer(w) ==
  /\ w \notin failed /\ at[w] \in 0..2
  /\ at[w] > 0 => at["main"] > 2 * Count
  /\ at[w] = 2 => DOMAIN groups = {}
DrainsInv ==
  scenario \in {Drains(TRUE), Drains(FALSE)} =>
    /\ NumbersMarked("main") /\ claims["main"] = <<>>
    /\ Drainer("one") /\ Drainer("two")

\* Every statement of the three threads keeps this.
LEMMA DrainsKept ==
  ASSUME CInv, DrainsInv, NEW t \in Threads, Turn(t)
  PROVE  DrainsInv'
  <1>1. scenario' = scenario /\ Threads' = Threads /\ t \notin failed
    BY TurnAt
  <1> SUFFICES ASSUME NEW strict \in BOOLEAN, scenario = Drains(strict)
               PROVE  DrainsInv'
    BY <1>1 DEF DrainsInv
  <1> DEFINE N == 2 * Count
  <1>2. /\ NumbersMarked("main") /\ claims["main"] = <<>>
        /\ \A w \in {"one", "two"} : Drainer(w)
    BY Zenon DEF DrainsInv
  <1>3. /\ Threads = {"main", "one", "two"} /\ N \in Nat
        /\ Len(scenario.program["main"]) = N + 4
        /\ \A i \in 1..N : scenario.program["main"][i] = Admitted[i]
        /\ scenario.program["main"][N + 1] = Do("start", "one")
        /\ scenario.program["main"][N + 2] = Do("start", "two")
        /\ scenario.program["main"][N + 3] = Do("join", "one")
        /\ scenario.program["main"][N + 4] = Do("join", "two")
        /\ \A w \in {"one", "two"} : /\ Len(scenario.program[w]) = 1
                                     /\ scenario.program[w][1] = Do("drain", <<>>)
    BY CountAssumption, DrainsProgram DEF Threads
  <1>4. ASSUME NumbersMarked("main")', claims'["main"] = <<>>, Drainer("one")', Drainer("two")'
        PROVE  DrainsInv'
    BY <1>1, <1>4 DEF DrainsInv
  <1>5. PICK n \in Nat : n = N
    BY <1>3
  <1> HIDE DEF N
  <1>6. CASE t = "main"
    <2>1. PICK i \in 1..(n + 4) : i = at["main"]
      BY <1>3, <1>5, <1>6, TurnAt
    <2>2. i \in 1..n \/ i = n + 1 \/ i = n + 2 \/ i = n + 3 \/ i = n + 4
      OBVIOUS
    <2>3. CASE i \in 1..n
      <3>1. Statement(t) = Admitted[i]
        BY <1>3, <1>5, <1>6, <2>1, <2>3 DEF Statement
      <3>2. /\ NumbersMarked("main")' /\ claims' = claims
            /\ Moves("main", i + 1) \/ Fails("main")
        BY <1>2, <1>3, <1>5, <1>6, <2>1, <2>3, <3>1, AdmittedTurn DEF N
      <3>3. \A w \in {"one", "two"} : at[w] = 0 /\ w \notin failed
        BY <1>2, <1>5, <2>1, <2>3 DEF Drainer, N
      <3>4. at'["one"] = 0 /\ at'["two"] = 0 /\ "one" \notin failed' /\ "two" \notin failed'
        BY <1>3, <3>2, <3>3 DEF Moves, Fails
      <3>5. Drainer("one")' /\ Drainer("two")'
        BY <3>4 DEF Drainer
      <3>6. claims'["main"] = <<>>
        BY <1>2, <3>2
      <3> QED
        BY <1>4, <3>2, <3>5, <3>6
    <2>4. CASE i # n /\ i \notin 1..n
      <3>1. Statement(t) \in {Do("start", "one"), Do("start", "two"), Do("join", "one"),
                              Do("join", "two")}
        BY <1>3, <1>5, <1>6, <2>1, <2>2, <2>4 DEF Statement
      <3>2. /\ Rests /\ claims' = claims /\ failed' = failed /\ at'["main"] = i + 1
            /\ \A w \in {"one", "two"} : at'[w] = at[w] \/ at'[w] = 1
        <4>1. ASSUME NEW w \in {"one", "two"}, Statement(t) = Do("start", w)
              PROVE  /\ Rests /\ claims' = claims /\ failed' = failed /\ at'["main"] = i + 1
                     /\ \A u \in {"one", "two"} : at'[u] = at[u] \/ at'[u] = 1
          BY <1>3, <1>6, <2>1, <4>1, StartTurn
        <4>2. ASSUME NEW w \in {"one", "two"}, Statement(t) = Do("join", w)
              PROVE  /\ Rests /\ claims' = claims /\ failed' = failed /\ at'["main"] = i + 1
                     /\ \A u \in {"one", "two"} : at'[u] = at[u] \/ at'[u] = 1
          BY <1>3, <1>6, <2>1, <4>2, OtherTurn DEF Moves
        <4> QED
          BY <3>1, <4>1, <4>2
      <3>3. i > n /\ i + 1 > n
        BY <2>4
      <3>4. NumbersMarked("main")' /\ DOMAIN groups' \subseteq DOMAIN groups
        BY <1>2, <1>5, <2>1, <3>2, <3>3, MarkedStay DEF N
      <3>5. ASSUME NEW w \in {"one", "two"} PROVE Drainer(w)'
        <4>1. /\ w \notin failed' /\ (at'[w] = at[w] \/ at'[w] = 1) /\ at'["main"] > n
              /\ groups' = groups
          BY <1>2, <3>2, <3>3 DEF Drainer, Rests
        <4> QED
          BY <1>2, <1>5, <4>1 DEF Drainer, N
      <3>6. claims'["main"] = <<>>
        BY <1>2, <3>2
      <3> QED
        BY <1>4, <3>4, <3>5, <3>6
    <2> QED
      BY <2>2, <2>3, <2>4
  <1>7. CASE t \in {"one", "two"}
    <2>0. Len(scenario.program[t]) = 1 /\ at[t] \in 1..Len(scenario.program[t])
      BY <1>3, <1>7, TurnAt
    <2>1. at[t] = 1 /\ at["main"] > n
      BY <1>2, <1>5, <1>7, <2>0 DEF Drainer, N
    <2>2. Statement(t) = Do("drain", <<>>)
      BY <1>3, <1>7, <2>1 DEF Statement
    <2>3. /\ Rests \/ \E hs : Leaves(hs)
          /\ failed' = failed /\ at'["main"] = at["main"] /\ claims'["main"] = claims["main"]
          /\ \A w \in {"one", "two"} : at'[w] = at[w] \/ (w = t /\ at'[w] = 2)
          /\ at' = at \/ (Rests /\ MayLeave = {})
      <3>1. "main" # t /\ "main" \in Threads
        BY <1>3, <1>7
      <3>2. CASE /\ at' = at /\ failed' = failed
                 /\ \E h \in MayLeave : /\ Leaves({h})
                                        /\ claims' = [claims EXCEPT ![t] = @ \o <<h>>]
        BY <3>1, <3>2, OthersClaims
      <3>3. CASE MayLeave = {} /\ Rests /\ claims' = claims /\ Moves(t, at[t] + 1)
        BY <1>3, <2>1, <3>1, <3>3 DEF Moves
      <3> QED
        BY <2>2, <3>2, <3>3, DrainTurn
    <2>4. NumbersMarked("main")' /\ DOMAIN groups' \subseteq DOMAIN groups
      BY <1>2, <1>5, <2>1, <2>3, MarkedStay
    <2>5. MayLeave = Waiting
      BY <1>2, <1>5, <2>1, MarkedMayLeave DEF N
    <2>6. at' = at \/ DOMAIN groups = {}
      BY <2>3, <2>5, NoTrace
    <2>7. ASSUME NEW w \in {"one", "two"} PROVE Drainer(w)'
      <3>1. /\ w \notin failed' /\ at'["main"] > n /\ DOMAIN groups' \subseteq DOMAIN groups
            /\ at'[w] = at[w] \/ (w = t /\ at'[w] = 2)
        BY <1>2, <2>1, <2>3, <2>4 DEF Drainer
      <3>2. at'[w] # at[w] => DOMAIN groups' = {}
        BY <2>4, <2>6
      <3>3. at'[w] = at[w] \/ at'[w] = 2
        BY <3>1
      <3>4. at[w] \in 0..2 /\ (at[w] = 2 => DOMAIN groups' = {})
        BY <1>2, <3>1 DEF Drainer
      <3>5. at'[w] \in 0..2 /\ (at'[w] = 2 => DOMAIN groups' = {})
        BY <3>2, <3>3, <3>4
      <3> QED
        BY <1>5, <3>1, <3>5 DEF Drainer, N
    <2>8. claims'["main"] = <<>>
      BY <1>2, <2>3
    <2> QED
      BY <1>4, <2>4, <2>7, <2>8
  <1> QED
    BY <1>3, <1>6, <1>7

\* An empty dictionary is one of length 0.
LEMMA EmptyLength ==
  ASSUME DOMAIN groups \subseteq 1..Count
  PROVE  LenQueue = 0 <=> DOMAIN groups = {}
  <1>1. IsFiniteSet(DOMAIN groups)
    <2>1. IsFiniteSet(1..Count)
      BY CountAssumption, UpToFinite
    <2> QED
      BY <2>1, FS_Subset
  <1> QED
    BY <1>1, FS_EmptySet DEF LenQueue

\* One thread cancels what another releases: the second stops when nothing waits.
CancelReleaseInv ==
  scenario = CancelRelease =>
    /\ NumbersMarked("main") /\ claims["main"] = <<>>
    /\ "releaser" \notin failed /\ at["releaser"] \in 0..4
    /\ at["releaser"] > 0 => at["main"] > 2 * Count
    /\ at["releaser"] = 4 => DOMAIN groups = {}

\* Every statement of the three threads keeps this.
LEMMA CancelReleaseKept ==
  ASSUME CInv, CancelReleaseInv, NEW t \in Threads, Turn(t)
  PROVE  CancelReleaseInv'
  <1>1. scenario' = scenario /\ Threads' = Threads /\ t \notin failed
    BY TurnAt
  <1> SUFFICES ASSUME scenario = CancelRelease
               PROVE  CancelReleaseInv'
    BY <1>1 DEF CancelReleaseInv
  <1> DEFINE N == 2 * Count
  <1>2. /\ NumbersMarked("main") /\ claims["main"] = <<>>
        /\ "releaser" \notin failed /\ at["releaser"] \in 0..4
        /\ at["releaser"] > 0 => at["main"] > N
        /\ at["releaser"] = 4 => DOMAIN groups = {}
    BY DEF CancelReleaseInv
  <1>3. /\ Threads = {"main", "canceller", "releaser"} /\ N \in Nat
        /\ Len(scenario.program["main"]) = N + 4
        /\ \A i \in 1..N : scenario.program["main"][i] = Admitted[i]
        /\ scenario.program["main"][N + 1] = Do("start", "canceller")
        /\ scenario.program["main"][N + 2] = Do("start", "releaser")
        /\ scenario.program["main"][N + 3] = Do("join", "canceller")
        /\ scenario.program["main"][N + 4] = Do("join", "releaser")
        /\ Len(scenario.program["canceller"]) = Count
        /\ \A i \in 1..Count : scenario.program["canceller"][i] = Try("cancel", i)
        /\ Len(scenario.program["releaser"]) = 3
        /\ scenario.program["releaser"][1] = Do("while_queue", <<>>)
        /\ scenario.program["releaser"][2] = Do("release_all", <<>>)
        /\ scenario.program["releaser"][3] = Do("again", <<>>)
    BY CountAssumption, CancelReleaseProgram DEF Threads
  <1>4. ASSUME NumbersMarked("main")', claims'["main"] = <<>>,
               "releaser" \notin failed', at'["releaser"] \in 0..4,
               at'["releaser"] > 0 => at'["main"] > N,
               at'["releaser"] = 4 => DOMAIN groups' = {}
        PROVE  CancelReleaseInv'
    BY <1>1, <1>4 DEF CancelReleaseInv
  <1>5. PICK n \in Nat : n = N
    BY <1>3
  <1>6. DOMAIN groups \subseteq 1..Count
    BY <1>2 DEF NumbersMarked
  <1> HIDE DEF N
  <1>7. CASE t = "main"
    <2>1. PICK i \in 1..(n + 4) : i = at["main"]
      BY <1>3, <1>5, <1>7, TurnAt
    <2>2. i \in 1..n \/ i = n + 1 \/ i = n + 2 \/ i = n + 3 \/ i = n + 4
      OBVIOUS
    <2>3. CASE i \in 1..n
      <3>1. Statement(t) = Admitted[i]
        BY <1>3, <1>5, <1>7, <2>1, <2>3 DEF Statement
      <3>2. /\ NumbersMarked("main")' /\ claims' = claims
            /\ Moves("main", i + 1) \/ Fails("main")
        BY <1>2, <1>3, <1>5, <1>7, <2>1, <2>3, <3>1, AdmittedTurn DEF N
      <3>3. at["releaser"] = 0
        BY <1>2, <1>5, <2>1, <2>3
      <3>4. at'["releaser"] = 0 /\ "releaser" \notin failed'
        BY <1>2, <1>3, <3>2, <3>3 DEF Moves, Fails
      <3>5. claims'["main"] = <<>>
        BY <1>2, <3>2
      <3> QED
        BY <1>4, <3>2, <3>4, <3>5
    <2>4. CASE i \notin 1..n
      <3>1. Statement(t) \in {Do("start", "canceller"), Do("start", "releaser"),
                              Do("join", "canceller"), Do("join", "releaser")}
        BY <1>3, <1>5, <1>7, <2>1, <2>2, <2>4 DEF Statement
      <3>2. /\ Rests /\ claims' = claims /\ failed' = failed /\ at'["main"] = i + 1
            /\ at'["releaser"] = at["releaser"] \/ at'["releaser"] = 1
        <4>1. ASSUME NEW w \in {"canceller", "releaser"}, Statement(t) = Do("start", w)
              PROVE  /\ Rests /\ claims' = claims /\ failed' = failed /\ at'["main"] = i + 1
                     /\ at'["releaser"] = at["releaser"] \/ at'["releaser"] = 1
          BY <1>3, <1>7, <2>1, <4>1, StartTurn
        <4>2. ASSUME NEW w \in {"canceller", "releaser"}, Statement(t) = Do("join", w)
              PROVE  /\ Rests /\ claims' = claims /\ failed' = failed /\ at'["main"] = i + 1
                     /\ at'["releaser"] = at["releaser"] \/ at'["releaser"] = 1
          BY <1>3, <1>7, <2>1, <4>2, OtherTurn DEF Moves
        <4> QED
          BY <3>1, <4>1, <4>2
      <3>3. i > n /\ i + 1 > n
        BY <2>4
      <3>4. NumbersMarked("main")' /\ groups' = groups
        BY <1>2, <1>5, <2>1, <3>2, <3>3, MarkedStay DEF N, Rests
      <3>5. claims'["main"] = <<>> /\ "releaser" \notin failed' /\ at'["main"] > N
        BY <1>2, <1>5, <3>2, <3>3
      <3>6. at'["releaser"] \in 0..4 /\ (at'["releaser"] = 4 => DOMAIN groups' = {})
        BY <1>2, <3>2, <3>4
      <3> QED
        BY <1>4, <3>4, <3>5, <3>6
    <2> QED
      BY <2>3, <2>4
  <1>8. CASE t = "canceller"
    <2>1. PICK i \in 1..Count : i = at[t]
      BY <1>3, <1>8, TurnAt
    <2>2. Statement(t) = Try("cancel", i)
      BY <1>3, <1>8, <2>1 DEF Statement
    <2>3. /\ Rests \/ \E hs : Leaves(hs)
          /\ at'["main"] = at["main"] /\ at'["releaser"] = at["releaser"]
          /\ failed' \subseteq failed \cup {"canceller"}
          /\ claims'["main"] = claims["main"]
      <3>1. "main" \in Threads \ {t} /\ "releaser" \in Threads \ {t}
        BY <1>3, <1>8
      <3>2. Statement(t) \in {Do("cancel", i), Try("cancel", i)}
        BY <2>2
      <3>3. Moves(t, at[t] + 1) \/ Fails(t)
        BY <3>2, CancelTurn
      <3>4. Hands(t, groups[i]) \/ (Rests /\ claims' = claims)
        BY <3>2, CancelTurn
      <3>5. claims' = claims \/ \E h : claims' = [claims EXCEPT ![t] = @ \o <<h>>]
        BY <3>4 DEF Hands
      <3>6. Rests \/ \E hs : Leaves(hs)
        BY <3>4 DEF Hands
      <3>7. claims'["main"] = claims["main"]
        BY <3>1, <3>5, OthersClaims
      <3> QED
        BY <1>8, <3>1, <3>3, <3>6, <3>7 DEF Moves, Fails
    <2>4. NumbersMarked("main")' /\ DOMAIN groups' \subseteq DOMAIN groups
      BY <1>2, <2>3, MarkedStay
    <2>5. /\ claims'["main"] = <<>> /\ "releaser" \notin failed' /\ at'["releaser"] \in 0..4
          /\ at'["releaser"] > 0 => at'["main"] > N
          /\ at'["releaser"] = 4 => DOMAIN groups' = {}
      BY <1>2, <2>3, <2>4
    <2> QED
      BY <1>4, <2>4, <2>5
  <1>9. CASE t = "releaser"
    <2>0. Len(scenario.program[t]) = 3 /\ at[t] \in 1..Len(scenario.program[t])
      BY <1>3, <1>9, TurnAt
    <2>1. at[t] \in 1..3 /\ at["main"] > n
      BY <1>2, <1>5, <1>9, <2>0
    <2>2. "main" \in Threads \ {t}
      BY <1>3, <1>9
    <2>3. /\ Rests \/ \E hs : Leaves(hs)
          /\ failed' = failed /\ at'["main"] = at["main"] /\ claims'["main"] = claims["main"]
          /\ \/ at'[t] \in 1..3
             \/ at'[t] = 4 /\ Rests /\ DOMAIN groups = {}
      <3>1. CASE at[t] = 1
        <4>1. Statement(t) = Do("while_queue", <<>>)
          BY <1>3, <1>9, <3>1 DEF Statement
        <4>2. /\ Rests /\ claims' = claims
              /\ Moves(t, IF LenQueue = 0 THEN at[t] + 3 ELSE at[t] + 1)
          BY <4>1, OtherTurn
        <4>3. LenQueue = 0 <=> DOMAIN groups = {}
          BY <1>6, EmptyLength
        <4> QED
          BY <2>2, <3>1, <4>2, <4>3 DEF Moves
      <3>2. CASE at[t] = 2
        <4>1. Statement(t) = Do("release_all", <<>>)
          BY <1>3, <1>9, <3>2 DEF Statement
        <4>2. /\ Moves(t, at[t] + 1) /\ Leaves(MayLeave)
              /\ \E gs : claims' = [claims EXCEPT ![t] = @ \o gs]
          BY <4>1, ReleaseAllTurn
        <4>3. claims'["main"] = claims["main"]
          BY <2>2, <4>2, OthersClaims
        <4> QED
          BY <2>2, <3>2, <4>2, <4>3 DEF Moves
      <3>3. CASE at[t] = 3
        <4>1. Statement(t) = Do("again", <<>>)
          BY <1>3, <1>9, <3>3 DEF Statement
        <4>2. Rests /\ claims' = claims /\ Moves(t, at[t] - 2)
          BY <4>1, OtherTurn
        <4> QED
          BY <2>2, <3>3, <4>2 DEF Moves
      <3> QED
        BY <2>1, <3>1, <3>2, <3>3
    <2>4. NumbersMarked("main")' /\ DOMAIN groups' \subseteq DOMAIN groups
      BY <1>2, <2>3, MarkedStay
    <2>5. /\ claims'["main"] = <<>> /\ "releaser" \notin failed' /\ at'["main"] > N
          /\ at'["releaser"] \in 0..4
      BY <1>2, <1>5, <1>9, <2>1, <2>3
    <2>6. at'["releaser"] = 4 => DOMAIN groups' = {}
      <3>1. at'[t] = 4 => Rests /\ DOMAIN groups = {}
        BY <2>3
      <3> QED
        BY <1>9, <2>4, <3>1
    <2> QED
      BY <1>4, <2>4, <2>5, <2>6
  <1> QED
    BY <1>3, <1>7, <1>8, <1>9
-----------------------------------------------------------------------------
\* One thread admits while two release: these stop when it is through and nothing waits.
Consumer(w) ==
  /\ w \notin failed /\ at[w] \in 0..3
  /\ at[w] = 3 => "produced" \in noted /\ DOMAIN groups = {}
ProducersInv ==
  scenario = ProducersConsumers =>
    /\ NumbersMarked("producer") /\ claims["main"] = <<>>
    /\ Consumer("one") /\ Consumer("two")
    /\ at["main"] >= 1
    /\ at["main"] = 1 => at["producer"] = 0
    /\ "produced" \in noted => at["producer"] > 2 * Count + 1

\* Every statement of the four threads keeps this.
LEMMA ProducersKept ==
  ASSUME CInv, ProducersInv, NEW t \in Threads, Turn(t)
  PROVE  ProducersInv'
  <1>1. scenario' = scenario /\ Threads' = Threads /\ t \notin failed
    BY TurnAt
  <1> SUFFICES ASSUME scenario = ProducersConsumers
               PROVE  ProducersInv'
    BY <1>1 DEF ProducersInv
  <1> DEFINE N == 2 * Count
             ws == {"one", "two"}
  <1>2. /\ NumbersMarked("producer") /\ claims["main"] = <<>>
        /\ \A w \in ws : Consumer(w)
        /\ at["main"] >= 1
        /\ at["main"] = 1 => at["producer"] = 0
        /\ "produced" \in noted => at["producer"] > N + 1
    BY DEF ProducersInv
  <1>3. /\ Threads = {"main", "producer", "one", "two"} /\ N \in Nat
        /\ Len(scenario.program["main"]) = 6
        /\ scenario.program["main"] =
             <<Do("start", "producer"), Do("start", "one"), Do("start", "two"),
               Do("join", "producer"), Do("join", "one"), Do("join", "two")>>
        /\ Len(scenario.program["producer"]) = N + 1
        /\ \A i \in 1..N : scenario.program["producer"][i] = Admitted[i]
        /\ scenario.program["producer"][N + 1] = Do("note", "produced")
        /\ \A w \in ws : /\ Len(scenario.program[w]) = 2
                         /\ scenario.program[w][1] = Do("release_all", <<>>)
                         /\ scenario.program[w][2] = Do("until_produced", <<>>)
    BY CountAssumption, ProducersConsumersProgram DEF Threads
  <1>4. ASSUME NumbersMarked("producer")', claims'["main"] = <<>>,
               \A w \in ws : Consumer(w)', at'["main"] >= 1,
               at'["main"] = 1 => at'["producer"] = 0,
               "produced" \in noted' => at'["producer"] > N + 1
        PROVE  ProducersInv'
    <2>1. Consumer("one")' /\ Consumer("two")'
      BY <1>4
    <2> QED
      BY <1>1, <1>4, <2>1 DEF ProducersInv
  <1>5. PICK n \in Nat : n = N
    BY <1>3
  <1>6. DOMAIN groups \subseteq 1..Count
    BY <1>2 DEF NumbersMarked
  <1> HIDE DEF N
  <1>7. CASE t = "main"
    <2>1. PICK i \in 1..6 : i = at["main"]
      BY <1>3, <1>7, TurnAt
    <2>2. /\ Rests /\ claims' = claims /\ noted' = noted /\ failed' = failed
          /\ at'["main"] = i + 1
          /\ \A w \in ws : at'[w] = at[w] \/ at'[w] = 1
          /\ at'["producer"] = at["producer"] \/ (i = 1 /\ at'["producer"] = 1)
      <3>1. ASSUME NEW w \in ws \cup {"producer"}, Statement(t) = Do("start", w),
                   w = "producer" => i = 1
            PROVE  /\ Rests /\ claims' = claims /\ noted' = noted /\ failed' = failed
                   /\ at'["main"] = i + 1
                   /\ \A u \in ws : at'[u] = at[u] \/ at'[u] = 1
                   /\ at'["producer"] = at["producer"] \/ (i = 1 /\ at'["producer"] = 1)
        BY <1>3, <1>7, <2>1, <3>1, StartTurn
      <3>2. ASSUME NEW w \in ws \cup {"producer"}, Statement(t) = Do("join", w)
            PROVE  /\ Rests /\ claims' = claims /\ noted' = noted /\ failed' = failed
                   /\ at'["main"] = i + 1
                   /\ \A u \in ws : at'[u] = at[u]
                   /\ at'["producer"] = at["producer"]
        BY <1>3, <1>7, <2>1, <3>2, OtherTurn DEF Moves
      <3>3. /\ i = 1 => Statement(t) = Do("start", "producer")
            /\ i = 2 => Statement(t) = Do("start", "one")
            /\ i = 3 => Statement(t) = Do("start", "two")
            /\ i = 4 => Statement(t) = Do("join", "producer")
            /\ i = 5 => Statement(t) = Do("join", "one")
            /\ i = 6 => Statement(t) = Do("join", "two")
        BY <1>3, <1>7, <2>1 DEF Statement
      <3>4. i = 1 \/ i = 2 \/ i = 3 \/ i = 4 \/ i = 5 \/ i = 6
        OBVIOUS
      <3> QED
        BY <3>1, <3>2, <3>3, <3>4
    <2>3. NumbersMarked("producer")'
      <3>1. CASE at'["producer"] = at["producer"]
        BY <1>2, <2>2, <3>1, MarkedStay
      <3>2. CASE i = 1
        <4>1. at["producer"] = 0
          BY <1>2, <2>1, <3>2
        <4>2. \A id \in DOMAIN groups : IsMarked(id)
          <5> TAKE id \in DOMAIN groups
          <5>1. id \in Nat /\ 2 * id # 0
            BY <1>6, CountAssumption
          <5> QED
            BY <1>2, <4>1, <5>1 DEF NumbersMarked
        <4>3. \A id \in DOMAIN groups' : IsMarked(id)'
          BY <2>2, <4>2 DEF Rests, IsMarked, Full
        <4> QED
          BY <1>6, <2>2, <4>3 DEF NumbersMarked, Rests
      <3> QED
        BY <2>2, <3>1, <3>2
    <2>4. \A w \in ws : Consumer(w)'
      <3> TAKE w \in ws
      <3>1. at'[w] = at[w] \/ at'[w] = 1
        BY <2>2
      <3> QED
        BY <1>2, <2>2, <3>1 DEF Consumer, Rests
    <2>5. claims'["main"] = <<>>
      BY <1>2, <2>2
    <2>6. at'["main"] >= 1 /\ at'["main"] # 1
      BY <2>2
    <2>7. "produced" \in noted' => at'["producer"] > N + 1
      <3>1. i = 1 => "produced" \notin noted
        BY <1>2, <1>5, <2>1
      <3> QED
        BY <1>2, <2>2, <3>1
    <2> QED
      BY <1>4, <2>3, <2>4, <2>5, <2>6, <2>7
  <1>8. CASE t = "producer"
    <2>1. PICK i \in 1..(n + 1) : i = at["producer"]
      BY <1>3, <1>5, <1>8, TurnAt
    <2>2. "produced" \notin noted /\ at["main"] # 1
      BY <1>2, <1>5, <2>1
    <2>3. /\ NumbersMarked("producer")' /\ claims' = claims
          /\ Moves(t, i + 1) \/ Fails(t)
          /\ "produced" \in noted' => at'["producer"] > N + 1
      <3>1. CASE i \in 1..n
        <4>1. Statement(t) = Admitted[i]
          BY <1>3, <1>5, <1>8, <2>1, <3>1 DEF Statement
        <4> QED
          BY <1>2, <1>5, <1>8, <2>1, <2>2, <3>1, <4>1, AdmittedTurn DEF N
      <3>2. CASE i = n + 1
        <4>1. Statement(t) = Do("note", "produced")
          BY <1>3, <1>5, <1>8, <2>1, <3>2 DEF Statement
        <4>2. Rests /\ claims' = claims /\ Moves(t, i + 1)
          BY <1>8, <2>1, <4>1, OtherTurn
        <4>3. NumbersMarked("producer")'
          <5>1. at["producer"] > 2 * Count
            BY <1>5, <2>1, <3>2 DEF N
          <5> QED
            BY <1>2, <4>2, <5>1, MarkedStay
        <4>4. at'["producer"] = n + 2 /\ n + 2 > n + 1
          BY <1>8, <3>2, <4>2 DEF Moves
        <4> QED
          BY <1>5, <4>2, <4>3, <4>4
      <3> QED
        BY <3>1, <3>2
    <2>4. /\ at'["main"] = at["main"]
          /\ \A w \in ws : at'[w] = at[w] /\ w \notin failed'
      BY <1>2, <1>3, <1>8, <2>3 DEF Moves, Fails, Consumer
    <2>5. \A w \in ws : Consumer(w)'
      BY <1>2, <2>2, <2>4 DEF Consumer
    <2>6. claims'["main"] = <<>> /\ at'["main"] >= 1 /\ at'["main"] # 1
      BY <1>2, <2>2, <2>3, <2>4
    <2> QED
      BY <1>4, <2>3, <2>5, <2>6
  <1>9. CASE t \in ws
    <2>0. Len(scenario.program[t]) = 2 /\ at[t] \in 1..Len(scenario.program[t])
      BY <1>3, <1>9, TurnAt
    <2>1. at[t] \in {1, 2}
      BY <2>0
    <2>2. "main" \in Threads \ {t} /\ "producer" \in Threads \ {t}
      BY <1>3, <1>9
    <2>3. /\ Rests \/ \E hs : Leaves(hs)
          /\ noted' = noted /\ claims'["main"] = claims["main"]
          /\ \/ Moves(t, 1) \/ Moves(t, 2)
             \/ Moves(t, 3) /\ Rests /\ "produced" \in noted /\ DOMAIN groups = {}
      <3>1. CASE at[t] = 1
        <4>1. Statement(t) = Do("release_all", <<>>)
          BY <1>3, <1>9, <3>1 DEF Statement
        <4>2. /\ Moves(t, at[t] + 1) /\ Leaves(MayLeave) /\ noted' = noted
              /\ \E gs : claims' = [claims EXCEPT ![t] = @ \o gs]
          BY <4>1, ReleaseAllTurn
        <4>3. claims'["main"] = claims["main"]
          BY <2>2, <4>2, OthersClaims
        <4>4. at[t] + 1 = 2
          BY <3>1
        <4> QED
          BY <4>2, <4>3, <4>4
      <3>2. CASE at[t] = 2
        <4>1. Statement(t) = Do("until_produced", <<>>)
          BY <1>3, <1>9, <3>2 DEF Statement
        <4>2. /\ Rests /\ claims' = claims /\ noted' = noted
              /\ Moves(t, IF "produced" \in noted /\ LenQueue = 0 THEN at[t] + 1 ELSE at[t] - 1)
          BY <4>1, OtherTurn
        <4>3. LenQueue = 0 <=> DOMAIN groups = {}
          BY <1>6, EmptyLength
        <4>4. at[t] + 1 = 3 /\ at[t] - 1 = 1
          BY <3>2
        <4> QED
          BY <4>2, <4>3, <4>4
      <3> QED
        BY <2>1, <3>1, <3>2
    <2>4. /\ at'["main"] = at["main"] /\ at'["producer"] = at["producer"] /\ failed' = failed
          /\ \A w \in ws : at'[w] = at[w] \/ (w = t /\ at'[w] \in {1, 2, 3})
          /\ at'[t] = 3 => "produced" \in noted /\ DOMAIN groups = {}
      BY <1>3, <1>9, <2>2, <2>3 DEF Moves
    <2>5. NumbersMarked("producer")' /\ DOMAIN groups' \subseteq DOMAIN groups
      BY <1>2, <2>3, <2>4, MarkedStay
    <2>6. \A w \in ws : Consumer(w)'
      <3> TAKE w \in ws
      <3>1. /\ w \notin failed' /\ at[w] \in 0..3
            /\ at[w] = 3 => "produced" \in noted /\ DOMAIN groups = {}
        BY <1>2, <2>4 DEF Consumer
      <3>2. CASE at'[w] = at[w]
        BY <2>3, <2>5, <3>1, <3>2 DEF Consumer
      <3>3. CASE w = t /\ at'[w] \in {1, 2, 3}
        <4>1. at'[w] \in 0..3
          BY <3>3
        <4>2. at'[w] = 3 => "produced" \in noted' /\ DOMAIN groups' = {}
          BY <2>3, <2>4, <2>5, <3>3
        <4> QED
          BY <3>1, <4>1, <4>2 DEF Consumer
      <3> QED
        BY <2>4, <3>2, <3>3
    <2>7. /\ claims'["main"] = <<>> /\ at'["main"] >= 1
          /\ at'["main"] = 1 => at'["producer"] = 0
          /\ "produced" \in noted' => at'["producer"] > N + 1
      BY <1>2, <2>3, <2>4
    <2> QED
      BY <1>4, <2>5, <2>6, <2>7
  <1> QED
    BY <1>3, <1>7, <1>8, <1>9
-----------------------------------------------------------------------------
\* Three threads admit a group of one id: when one of them is through, it waits.
Applicant(w) ==
  /\ w \notin failed /\ at[w] \in 0..2
  /\ at[w] = 2 => "same" \in DOMAIN groups
SameIdInv ==
  scenario = SameId =>
    /\ DOMAIN groups \subseteq {"same"} /\ claims["main"] = <<>>
    /\ Applicant("one") /\ Applicant("two") /\ Applicant("three")

\* Every statement of the four threads keeps this.
LEMMA SameIdKept ==
  ASSUME CInv, SameIdInv, NEW t \in Threads, Turn(t)
  PROVE  SameIdInv'
  <1>1. scenario' = scenario /\ Threads' = Threads /\ t \notin failed
    BY TurnAt
  <1> SUFFICES ASSUME scenario = SameId
               PROVE  SameIdInv'
    BY <1>1 DEF SameIdInv
  <1> DEFINE ws == {"one", "two", "three"}
  <1>2. /\ DOMAIN groups \subseteq {"same"} /\ claims["main"] = <<>>
        /\ \A w \in ws : Applicant(w)
    BY DEF SameIdInv
  <1>3. /\ Threads = {"main", "one", "two", "three"}
        /\ Len(scenario.program["main"]) = 6
        /\ scenario.program["main"] =
             <<Do("start", "one"), Do("start", "two"), Do("start", "three"),
               Do("join", "one"), Do("join", "two"), Do("join", "three")>>
        /\ \A w \in ws : /\ Len(scenario.program[w]) = 1
                         /\ scenario.program[w][1] = Try("admit", <<"same", <<w>>>>)
    BY SameIdProgram DEF Threads
  <1>4. ASSUME DOMAIN groups' \subseteq {"same"}, claims'["main"] = <<>>,
               \A w \in ws : Applicant(w)'
        PROVE  SameIdInv'
    <2>1. Applicant("one")' /\ Applicant("two")' /\ Applicant("three")'
      BY <1>4
    <2> QED
      BY <1>4, <2>1 DEF SameIdInv
  <1>5. CASE t = "main"
    <2>1. PICK i \in 1..6 : i = at["main"]
      BY <1>3, <1>5, TurnAt
    <2>2. /\ Rests /\ claims' = claims /\ failed' = failed
          /\ \A w \in ws : at'[w] = at[w] \/ at'[w] = 1
      <3>1. ASSUME NEW w \in ws, Statement(t) = Do("start", w)
            PROVE  /\ Rests /\ claims' = claims /\ failed' = failed
                   /\ \A u \in ws : at'[u] = at[u] \/ at'[u] = 1
        BY <1>3, <1>5, <3>1, StartTurn
      <3>2. ASSUME NEW w \in ws, Statement(t) = Do("join", w)
            PROVE  /\ Rests /\ claims' = claims /\ failed' = failed
                   /\ \A u \in ws : at'[u] = at[u]
        BY <1>3, <1>5, <3>2, OtherTurn DEF Moves
      <3>3. /\ i = 1 => Statement(t) = Do("start", "one")
            /\ i = 2 => Statement(t) = Do("start", "two")
            /\ i = 3 => Statement(t) = Do("start", "three")
            /\ i = 4 => Statement(t) = Do("join", "one")
            /\ i = 5 => Statement(t) = Do("join", "two")
            /\ i = 6 => Statement(t) = Do("join", "three")
        BY <1>3, <1>5, <2>1 DEF Statement
      <3>4. i = 1 \/ i = 2 \/ i = 3 \/ i = 4 \/ i = 5 \/ i = 6
        OBVIOUS
      <3> QED
        BY <3>1, <3>2, <3>3, <3>4
    <2>3. \A w \in ws : Applicant(w)'
      <3> TAKE w \in ws
      <3>1. at'[w] = at[w] \/ at'[w] = 1
        BY <2>2
      <3> QED
        BY <1>2, <2>2, <3>1 DEF Applicant, Rests
    <2>4. DOMAIN groups' \subseteq {"same"} /\ claims'["main"] = <<>>
      BY <1>2, <2>2 DEF Rests
    <2> QED
      BY <1>4, <2>3, <2>4
  <1>6. CASE t \in ws
    <2>1. Len(scenario.program[t]) = 1 /\ at[t] \in 1..Len(scenario.program[t])
      BY <1>3, <1>6, TurnAt
    <2>2. at[t] = 1 /\ at[t] + 1 = 2
      BY <2>1
    <2>3. Statement(t) = Try("admit", <<"same", <<t>>>>)
      BY <1>3, <1>6, <2>2 DEF Statement
    <2>4. PICK list : list = <<t>>
      OBVIOUS
    <2>5. list # <<>> /\ IsInjective(list)
      BY <2>4 DEF IsInjective
    <2>6. /\ claims' = claims /\ Moves(t, 2)
          /\ Comes("same", list) \/ (Rests /\ "same" \in DOMAIN groups)
      <3>1. Statement(t) \in {Do("admit", <<"same", list>>), Try("admit", <<"same", list>>)}
        BY <2>3, <2>4
      <3>2. /\ claims' = claims
            /\ \/ Comes("same", list) /\ Moves(t, 2)
               \/ /\ Rests /\ Moves(t, 2)
                  /\ "same" \in DOMAIN groups \/ Range(list) \cap DOMAIN member_index # {}
        BY <2>2, <2>3, <2>4, <2>5, <3>1, AdmitTurn
      <3>3. DOMAIN member_index # {} => "same" \in DOMAIN groups
        BY <1>2, NoTrace DEF Range
      <3> QED
        BY <3>2, <3>3
    <2>7. DOMAIN groups' \subseteq {"same"} /\ "same" \in DOMAIN groups'
      BY <1>2, <2>6 DEF Comes, Rests
    <2>8. \A w \in ws : Applicant(w)'
      <3> TAKE w \in ws
      <3>1. w \notin failed' /\ (at'[w] = at[w] \/ at'[w] = 2)
        BY <1>2, <1>3, <1>6, <2>6 DEF Moves, Applicant
      <3> QED
        BY <1>2, <2>7, <3>1 DEF Applicant
    <2>9. claims'["main"] = <<>>
      BY <1>2, <2>6
    <2> QED
      BY <1>4, <2>7, <2>8, <2>9
  <1> QED
    BY <1>3, <1>5, <1>6
-----------------------------------------------------------------------------
\* Few groups, known one by one.

\* A group that can be admitted is.
LEMMA AdmitNew ==
  ASSUME CInv, NEW t \in Threads, Turn(t), NEW id, NEW list,
         Statement(t) = Do("admit", <<id, list>>),
         list # <<>>, IsInjective(list), id \notin DOMAIN groups,
         \A x \in DOMAIN groups : Range(list) \cap group[groups[x]].members = {}
  PROVE  Comes(id, list) /\ Moves(t, at[t] + 1) /\ claims' = claims /\ noted' = noted
  <1>1. Range(list) \cap DOMAIN member_index = {}
    <2>1. \A m \in DOMAIN member_index :
            /\ member_index[m] \in DOMAIN groups
            /\ m \in group[groups[member_index[m]]].members
      BY IndexFacts DEF CInv
    <2> QED
      BY <2>1
  <1>2. Statement(t) \in {Do("admit", <<id, list>>), Try("admit", <<id, list>>)}
    OBVIOUS
  <1> QED
    BY <1>1, <1>2, AdmitTurn

\* A member of a group that waits is marked.
LEMMA MarkMember ==
  ASSUME CInv, NEW t \in Threads, Turn(t), NEW id \in DOMAIN groups, NEW h, h = groups[id],
         NEW m \in group[h].members, Statement(t) = Do("mark_ready", m)
  PROVE  Marks(h, {m}) /\ Moves(t, at[t] + 1) /\ claims' = claims /\ noted' = noted
  <1>1. m \in DOMAIN member_index /\ member_index[m] = id
    BY IndexFacts DEF CInv
  <1> QED
    BY <1>1, MarkTurn

\* Group h is the only one that waits.
Alone(id, h, ms) ==
  /\ DOMAIN groups = {id} /\ groups[id] = h /\ h \in DOMAIN group /\ group[h].members = ms

\* Where no group was admitted none waits.
LEMMA NoneYet ==
  ASSUME CInv, DOMAIN group = {}
  PROVE  Len(group) = 0 /\ DOMAIN groups = {}
  <1>1. PICK n \in Nat : n = Len(group)
    BY IndexFacts DEF CInv
  <1>2. 1..n = {} /\ \A x \in DOMAIN groups : groups[x] \in DOMAIN group
    BY <1>1, IndexFacts DEF CInv
  <1>3. n = 0
    BY <1>2
  <1>4. DOMAIN groups = {}
    BY <1>2
  <1> QED
    BY <1>1, <1>3, <1>4

\* The first group.
LEMMA AloneComes ==
  ASSUME CInv, NEW t \in Threads, Turn(t), NEW id, NEW list,
         Statement(t) = Do("admit", <<id, list>>),
         list # <<>>, IsInjective(list), DOMAIN group = {}
  PROVE  /\ Alone(id, 1, Range(list))' /\ DOMAIN group' = {1} /\ group'[1].ready = {}
         /\ Moves(t, at[t] + 1) /\ claims' = claims /\ noted' = noted
  <1>1. Len(group) = 0 /\ DOMAIN groups = {}
    BY NoneYet
  <1>2. Comes(id, list) /\ Moves(t, at[t] + 1) /\ claims' = claims /\ noted' = noted
    BY <1>1, AdmitNew
  <1>3. Len(group) + 1 = 1
    BY <1>1
  <1>4. /\ DOMAIN group' = {1} /\ DOMAIN groups' = {id} /\ groups'[id] = 1
        /\ group'[1].members = Range(list) /\ group'[1].ready = {}
    BY <1>1, <1>2, <1>3 DEF Comes
  <1> QED
    BY <1>2, <1>4 DEF Alone

\* The group waits as it did.
LEMMA AloneRests ==
  ASSUME NEW id, NEW h, NEW ms, Alone(id, h, ms), Rests
  PROVE  Alone(id, h, ms)' /\ group' = group
  BY DEF Alone, Rests

\* One of its members is marked.
LEMMA AloneMarks ==
  ASSUME CInv, NEW t \in Threads, Turn(t), NEW id, NEW h, NEW ms, Alone(id, h, ms),
         NEW m \in ms, Statement(t) = Do("mark_ready", m)
  PROVE  /\ Alone(id, h, ms)' /\ DOMAIN group' = DOMAIN group
         /\ group'[h].ready = group[h].ready \cup {m}
         /\ Moves(t, at[t] + 1) /\ claims' = claims /\ noted' = noted
  <1>1. id \in DOMAIN groups /\ h = groups[id] /\ m \in group[h].members
    BY DEF Alone
  <1>2. Marks(h, {m}) /\ Moves(t, at[t] + 1) /\ claims' = claims /\ noted' = noted
    BY <1>1, MarkMember
  <1> QED
    BY <1>2 DEF Alone, Marks

\* It is full and leaves.
LEMMA AloneLeaves ==
  ASSUME CInv, NEW t \in Threads, Turn(t), NEW id, NEW h, NEW ms, Alone(id, h, ms),
         ms \subseteq group[h].ready, Statement(t) = Do("release", <<>>)
  PROVE  /\ DOMAIN groups' = {} /\ claims'[t] = claims[t] \o <<h>>
         /\ Moves(t, at[t] + 1) /\ noted' = noted
  <1>1. Waiting = {h}
    BY NoTrace DEF Alone
  <1>2. Full(h)
    <2>1. \A g \in DOMAIN group : group[g].ready \subseteq group[g].members
      BY IndexFacts DEF CInv
    <2>2. h \in DOMAIN group /\ group[h].members = ms
      BY DEF Alone
    <2> QED
      BY <2>1, <2>2 DEF Full
  <1>3. MayLeave = {h}
    <2>1. MayLeave \subseteq {h}
      BY <1>1 DEF MayLeave
    <2>2. h \in MayLeave
      BY <1>1, <1>2 DEF MayLeave
    <2> QED
      BY <2>1, <2>2
  <1>4. /\ noted' = noted /\ Moves(t, at[t] + 1)
        /\ Leaves({h}) /\ claims' = [claims EXCEPT ![t] = @ \o <<h>>]
    BY <1>3, ReleaseTurn
  <1>5. DOMAIN groups' = {}
    BY <1>4 DEF Leaves, Alone
  <1>6. claims'[t] = claims[t] \o <<h>>
    BY <1>4 DEF CInv
  <1> QED
    BY <1>4, <1>5, <1>6
-----------------------------------------------------------------------------
\* Two threads mark the members of one group, from either end.
Marker(w) ==
  /\ at[w] \in 0..(Count + 1)
  /\ \A i \in 1..Count : i < at[w] => scenario.program[w][i].arg \in group[1].ready
HalvesInv ==
  scenario = Halves =>
    /\ failed = {} /\ at["main"] \in 1..7
    /\ claims["main"] = IF at["main"] = 7 THEN <<1>> ELSE <<>>
    /\ at["main"] = 1 => DOMAIN group = {}
    /\ at["main"] \in 2..6 => Alone(0, 1, 1..Count) /\ Marker("up") /\ Marker("down")
    /\ at["main"] = 7 => DOMAIN groups = {}
    /\ at["main"] <= 2 => at["up"] = 0
    /\ at["main"] <= 3 => at["down"] = 0
    /\ at["main"] >= 5 => at["up"] > Count
    /\ at["main"] >= 6 => at["down"] > Count

\* Every statement of the three threads keeps this.
LEMMA HalvesKept ==
  ASSUME CInv, HalvesInv, NEW t \in Threads, Turn(t)
  PROVE  HalvesInv'
  <1>1. scenario' = scenario /\ Threads' = Threads /\ t \notin failed
    BY TurnAt
  <1> SUFFICES ASSUME scenario = Halves
               PROVE  HalvesInv'
    BY <1>1 DEF HalvesInv
  <1> DEFINE ws == {"up", "down"}
             ms == 1..Count
  <1>2. /\ failed = {} /\ at["main"] \in 1..7
        /\ claims["main"] = IF at["main"] = 7 THEN <<1>> ELSE <<>>
        /\ at["main"] = 1 => DOMAIN group = {}
        /\ at["main"] \in 2..6 => Alone(0, 1, ms) /\ \A w \in ws : Marker(w)
        /\ at["main"] <= 2 => at["up"] = 0
        /\ at["main"] <= 3 => at["down"] = 0
        /\ at["main"] >= 5 => at["up"] > Count
        /\ at["main"] >= 6 => at["down"] > Count
    BY DEF HalvesInv
  <1>3. /\ Threads = {"main", "up", "down"}
        /\ Len(scenario.program["main"]) = 6
        /\ scenario.program["main"][1] = Do("admit", <<0, Numbers>>)
        /\ scenario.program["main"][2] = Do("start", "up")
        /\ scenario.program["main"][3] = Do("start", "down")
        /\ scenario.program["main"][4] = Do("join", "up")
        /\ scenario.program["main"][5] = Do("join", "down")
        /\ scenario.program["main"][6] = Do("release", <<>>)
        /\ \A w \in ws : Len(scenario.program[w]) = Count
        /\ \A i \in 1..Count : /\ scenario.program["up"][i] = Do("mark_ready", i)
                               /\ scenario.program["down"][i] = Do("mark_ready", Count + 1 - i)
    BY HalvesProgram DEF Threads
  <1>4. \A w \in ws, i \in 1..Count :
          \E m \in 1..Count : scenario.program[w][i] = Do("mark_ready", m)
    <2>1. \A i \in 1..Count : Count + 1 - i \in 1..Count
      BY CountAssumption
    <2>2. ASSUME NEW i \in 1..Count
          PROVE  \A w \in ws : \E m \in 1..Count : scenario.program[w][i] = Do("mark_ready", m)
      <3>1. \E m \in 1..Count : scenario.program["up"][i] = Do("mark_ready", m)
        BY <1>3
      <3>2. \E m \in 1..Count : scenario.program["down"][i] = Do("mark_ready", m)
        BY <1>3, <2>1
      <3> QED
        BY <3>1, <3>2
    <2> QED
      BY <2>2
  <1>5. \A i \in 1..Count : scenario.program["up"][i].arg = i
    <2>1. \A m : Do("mark_ready", m).arg = m
      BY DEF Do
    <2> QED
      BY <1>3, <2>1
  <1>6. Count \in Nat /\ Count > 0
    BY CountAssumption
  <1>7. ASSUME failed' = {}, NEW k \in 1..7, k = at'["main"],
               claims'["main"] = IF k = 7 THEN << 1 >> ELSE <<>>,
               k # 1, k < 7 => Alone(0, 1, ms)' /\ \A w \in ws : Marker(w)',
               k = 7 => DOMAIN groups' = {},
               k <= 2 => at'["up"] = 0,
               k <= 3 => at'["down"] = 0,
               k >= 5 => at'["up"] > Count,
               k >= 6 => at'["down"] > Count
        PROVE  HalvesInv'
    <2>1. k < 7 => Marker("up")' /\ Marker("down")'
      BY <1>7
    <2>2. k \in 2..6 => k < 7
      OBVIOUS
    <2> QED
      BY <1>7, <2>1, <2>2 DEF HalvesInv
  <1>8. CASE t = "main"
    <2>1. PICK i \in 1..6 : i = at["main"]
      BY <1>3, <1>8, TurnAt
    <2>2. claims["main"] = <<>>
      BY <1>2, <2>1
    <2>3. i + 1 \in 1..7 /\ i + 1 # 1
      OBVIOUS
    <2>4. CASE i = 1
      <3>1. Statement(t) = Do("admit", <<0, Numbers>>) /\ DOMAIN group = {}
        BY <1>2, <1>3, <1>8, <2>1, <2>4 DEF Statement
      <3>2. Numbers # <<>> /\ IsInjective(Numbers) /\ Range(Numbers) = ms
        BY <1>6 DEF Numbers, IsInjective, Range
      <3>3. PICK list : list = Numbers
        OBVIOUS
      <3>4. Alone(0, 1, Range(list))' /\ Moves(t, at[t] + 1) /\ claims' = claims
        BY <3>1, <3>2, <3>3, AloneComes
      <3>5. Alone(0, 1, ms)'
        BY <3>2, <3>3, <3>4 DEF Alone
      <3>6. at'["main"] = 2 /\ (\A w \in ws : at'[w] = 0) /\ failed' = {}
        <4>1. at["up"] = 0 /\ at["down"] = 0 /\ at[t] + 1 = 2
          BY <1>2, <1>8, <2>1, <2>4
        <4>2. at'["main"] = 2 /\ at'["up"] = 0 /\ at'["down"] = 0
          BY <1>3, <1>8, <3>4, <4>1 DEF Moves
        <4> QED
          BY <1>2, <3>4, <4>2 DEF Moves
      <3>7. \A w \in ws : Marker(w)'
        BY <1>6, <3>6 DEF Marker
      <3> QED
        BY <1>7, <2>2, <3>4, <3>5, <3>6, <3>7
    <2>5. CASE i \in {2, 3}
      <3>1. PICK w \in ws : /\ Statement(t) = Do("start", w)
                            /\ i = 2 => w = "up"
                            /\ i = 3 => w = "down"
        BY <1>3, <1>8, <2>1, <2>5 DEF Statement
      <3>2. /\ Rests /\ claims' = claims /\ failed' = {} /\ at'["main"] = i + 1 /\ at'[w] = 1
            /\ \A u \in ws \ {w} : at'[u] = at[u]
        BY <1>2, <1>3, <1>8, <2>1, <3>1, StartTurn
      <3>3. Alone(0, 1, ms) /\ \A u \in ws : Marker(u)
        BY <1>2, <2>1, <2>5
      <3>4. Alone(0, 1, ms)' /\ group' = group
        BY <3>2, <3>3, AloneRests
      <3>5. \A u \in ws : Marker(u)'
        <4> TAKE u \in ws
        <4>1. CASE u = w
          BY <1>6, <3>2, <4>1 DEF Marker
        <4>2. CASE u # w
          BY <1>1, <3>2, <3>3, <3>4, <4>2 DEF Marker
        <4> QED
          BY <4>1, <4>2
      <3>6. i = 2 => at'["down"] = 0
        BY <1>2, <2>1, <3>1, <3>2
      <3>7. i + 1 \in {3, 4} /\ (i + 1 = 3 => i = 2)
        BY <2>5
      <3> QED
        BY <1>7, <2>2, <2>3, <3>2, <3>4, <3>5, <3>6, <3>7
    <2>6. CASE i \in {4, 5}
      <3>1. PICK w \in ws : /\ Statement(t) = Do("join", w)
                            /\ i = 4 => w = "up"
                            /\ i = 5 => w = "down"
        BY <1>3, <1>8, <2>1, <2>6 DEF Statement
      <3>2. Rests /\ claims' = claims /\ Moves(t, i + 1) /\ Over(w)
        BY <1>8, <2>1, <3>1, OtherTurn
      <3>3. at[w] > Count
        BY <1>2, <1>3, <3>2 DEF Over, Finished
      <3>4. failed' = {} /\ at'["main"] = i + 1 /\ \A u \in ws : at'[u] = at[u]
        BY <1>2, <1>3, <1>8, <3>2 DEF Moves
      <3>5. Alone(0, 1, ms) /\ \A u \in ws : Marker(u)
        BY <1>2, <2>1, <2>6
      <3>6. Alone(0, 1, ms)' /\ group' = group
        BY <3>2, <3>5, AloneRests
      <3>7. \A u \in ws : Marker(u)'
        BY <1>1, <3>4, <3>5, <3>6 DEF Marker
      <3>8. at'["up"] > Count /\ (i = 5 => at'["down"] > Count)
        BY <1>2, <2>1, <2>6, <3>1, <3>3, <3>4
      <3>9. i + 1 \in {5, 6} /\ (i + 1 = 6 => i = 5)
        BY <2>6
      <3> QED
        BY <1>7, <2>2, <2>3, <3>2, <3>4, <3>6, <3>7, <3>8, <3>9
    <2>7. CASE i = 6
      <3>1. Statement(t) = Do("release", <<>>)
        BY <1>3, <1>8, <2>1, <2>7 DEF Statement
      <3>2. Alone(0, 1, ms) /\ Marker("up") /\ at["up"] > Count /\ at["down"] > Count
        BY <1>2, <2>1, <2>7
      <3>3. ms \subseteq group[1].ready
        BY <1>5, <1>6, <3>2 DEF Marker
      <3>4. DOMAIN groups' = {} /\ claims'["main"] = <<1>> /\ Moves(t, i + 1)
        <4>1. <<>> \o <<1>> = <<1>>
          OBVIOUS
        <4> QED
          BY <1>8, <2>1, <2>2, <3>1, <3>2, <3>3, <4>1, AloneLeaves
      <3>5. failed' = {} /\ at'["main"] = 7 /\ at'["up"] > Count /\ at'["down"] > Count
        BY <1>2, <1>3, <1>8, <2>7, <3>2, <3>4 DEF Moves
      <3> QED
        BY <1>7, <3>4, <3>5
    <2> QED
      BY <2>4, <2>5, <2>6, <2>7
  <1>9. CASE t \in ws
    <2>1. Len(scenario.program[t]) = Count
      BY <1>3, <1>9
    <2>2. PICK i \in 1..Count : i = at[t]
      BY <2>1, TurnAt
    <2>3. at["main"] # 7 /\ at["main"] > 2
      BY <1>2, <1>6, <1>9, <2>2
    <2>4. PICK k \in 3..6 : k = at["main"]
      BY <1>2, <2>3
    <2>5. Alone(0, 1, ms) /\ (\A u \in ws : Marker(u)) /\ claims["main"] = <<>>
      BY <1>2, <2>4
    <2>6. PICK m \in ms : scenario.program[t][i] = Do("mark_ready", m)
      BY <1>4, <1>9
    <2>7. Statement(t) = Do("mark_ready", m) /\ scenario.program[t][i].arg = m
      BY <2>2, <2>6 DEF Statement, Do
    <2>8. /\ Alone(0, 1, ms)' /\ group'[1].ready = group[1].ready \cup {m}
          /\ Moves(t, i + 1) /\ claims' = claims
      <3>1. PICK id : id = 0
        OBVIOUS
      <3>2. PICK h : h = 1
        OBVIOUS
      <3>3. PICK S : S = ms
        OBVIOUS
      <3>4. Alone(id, h, S) /\ m \in S
        BY <2>5, <3>1, <3>2, <3>3
      <3>5. /\ Alone(id, h, S)' /\ group'[h].ready = group[h].ready \cup {m}
            /\ Moves(t, at[t] + 1) /\ claims' = claims
        BY <2>7, <3>4, AloneMarks
      <3> QED
        BY <2>2, <3>1, <3>2, <3>3, <3>5
    <2>9. /\ failed' = {} /\ at'["main"] = k /\ at'[t] = i + 1
          /\ \A u \in ws \ {t} : at'[u] = at[u]
      BY <1>2, <1>3, <1>9, <2>4, <2>8 DEF Moves
    <2>10. \A u \in ws : Marker(u)'
      <3> TAKE u \in ws
      <3>1. \A j \in 1..Count : j < at[u] => scenario.program[u][j].arg \in group'[1].ready
        BY <2>5, <2>8 DEF Marker
      <3>2. CASE u = t
        <4>1. \A j \in 1..Count : j < i + 1 => j < i \/ j = i
          OBVIOUS
        <4>2. \A j \in 1..Count : j < i + 1 => scenario.program[u][j].arg \in group'[1].ready
          BY <2>2, <2>7, <2>8, <3>1, <3>2, <4>1
        <4>3. i + 1 \in 0..(Count + 1)
          BY <1>6
        <4> QED
          BY <1>1, <2>9, <3>2, <4>2, <4>3 DEF Marker
      <3>3. CASE u # t
        <4>1. at'[u] = at[u]
          BY <2>9, <3>3
        <4> QED
          BY <1>1, <2>5, <3>1, <4>1 DEF Marker
      <3> QED
        BY <3>2, <3>3
    <2>11. /\ k <= 3 => at'["down"] = 0
           /\ k >= 5 => at'["up"] > Count
           /\ k >= 6 => at'["down"] > Count
      BY <1>2, <1>6, <1>9, <2>2, <2>4, <2>9
    <2>12. k \in 1..7 /\ k # 1 /\ k # 7 /\ ~ (k <= 2)
      OBVIOUS
    <2> QED
      BY <1>7, <2>5, <2>8, <2>9, <2>10, <2>11, <2>12
  <1> QED
    BY <1>3, <1>8, <1>9
-----------------------------------------------------------------------------
\* A request waits for three parts, each by a thread of its own.
Nth == [profile |-> 1, orders |-> 2, recommendations |-> 3]
Part(w) ==
  /\ at[w] \in 0..3
  /\ at[w] >= 2 => w \in noted
  /\ at["main"] <= 1 + Nth[w] => at[w] = 0
  /\ at["main"] >= 5 + Nth[w] => at[w] = 3
PartReady(w) == at[w] = 3 => w \in group[1].ready
FanOutInv ==
  scenario = FanOut =>
    /\ failed = {} /\ at["main"] \in 1..10
    /\ claims["main"] = IF at["main"] >= 9 THEN <<1>> ELSE <<>>
    /\ at["main"] = 1 => DOMAIN group = {}
    /\ at["main"] \in 2..8 => /\ Alone("request-7", 1, DOMAIN Nth)
                              /\ \A w \in DOMAIN Nth : PartReady(w)
    /\ at["main"] >= 9 => DOMAIN groups = {}
    /\ \A w \in DOMAIN Nth : Part(w)

\* Every statement of the four threads keeps this.
LEMMA FanOutKept ==
  ASSUME CInv, FanOutInv, NEW t \in Threads, Turn(t)
  PROVE  FanOutInv'
  <1>1. scenario' = scenario /\ Threads' = Threads /\ t \notin failed
    BY TurnAt
  <1> SUFFICES ASSUME scenario = FanOut
               PROVE  FanOutInv'
    BY <1>1 DEF FanOutInv
  <1> DEFINE ws == {"profile", "orders", "recommendations"}
             list == <<"profile", "orders", "recommendations">>
  <1>2. /\ DOMAIN Nth = ws /\ Nth["profile"] = 1 /\ Nth["orders"] = 2
        /\ Nth["recommendations"] = 3
    BY DEF Nth
  <1>3. /\ failed = {} /\ at["main"] \in 1..10
        /\ claims["main"] = IF at["main"] >= 9 THEN <<1>> ELSE <<>>
        /\ at["main"] = 1 => DOMAIN group = {}
        /\ at["main"] \in 2..8 => Alone("request-7", 1, ws) /\ \A w \in ws : PartReady(w)
        /\ at["main"] >= 9 => DOMAIN groups = {}
        /\ \A w \in ws : Part(w)
    BY <1>2 DEF FanOutInv
  <1>4. /\ Threads = {"main"} \cup ws
        /\ Len(scenario.program["main"]) = 9
        /\ scenario.program["main"][1] = Do("admit", <<"request-7", list>>)
        /\ scenario.program["main"][2] = Do("start", "profile")
        /\ scenario.program["main"][3] = Do("start", "orders")
        /\ scenario.program["main"][4] = Do("start", "recommendations")
        /\ scenario.program["main"][5] = Do("join", "profile")
        /\ scenario.program["main"][6] = Do("join", "orders")
        /\ scenario.program["main"][7] = Do("join", "recommendations")
        /\ scenario.program["main"][8] = Do("release", <<>>)
        /\ scenario.program["main"][9] = Do("respond", list)
        /\ \A w \in ws : scenario.program[w] = << Do("note", w), Do("mark_ready", w) >>
    BY FanOutProgram DEF Threads
  <1>5. \A w \in ws : /\ Len(scenario.program[w]) = 2
                      /\ scenario.program[w][1] = Do("note", w)
                      /\ scenario.program[w][2] = Do("mark_ready", w)
    BY <1>4
  <1>6. list # <<>> /\ IsInjective(list) /\ Range(list) = ws
    BY DEF IsInjective, Range
  <1>7. ASSUME failed' = {}, NEW k \in 2..10, k = at'["main"],
               claims'["main"] = IF k >= 9 THEN << 1 >> ELSE <<>>,
               k <= 8 => Alone("request-7", 1, ws)' /\ \A w \in ws : PartReady(w)',
               k >= 9 => DOMAIN groups' = {},
               \A w \in ws : Part(w)'
        PROVE  FanOutInv'
    <2>1. k \in 1..10 /\ k # 1 /\ (k \in 2..8 => k <= 8)
      OBVIOUS
    <2> QED
      BY <1>2, <1>7, <2>1 DEF FanOutInv
  <1> HIDE DEF Nth, list
  <1>8. CASE t = "main"
    <2>1. PICK i \in 1..9 : i = at["main"]
      BY <1>4, <1>8, TurnAt
    <2>2. CASE i = 1
      <3>1. Statement(t) = Do("admit", <<"request-7", list>>) /\ DOMAIN group = {}
        BY <1>3, <1>4, <1>8, <2>1, <2>2 DEF Statement
      <3>2. /\ Alone("request-7", 1, Range(list))' /\ Moves(t, at[t] + 1) /\ claims' = claims
            /\ noted' = noted
        BY <1>6, <3>1, AloneComes
      <3>3. Alone("request-7", 1, ws)'
        BY <1>6, <3>2 DEF Alone
      <3>4. \A w \in ws : at[w] = 0
        BY <1>2, <1>3, <2>1, <2>2 DEF Part
      <3>5. at[t] + 1 = 2
        BY <1>8, <2>1, <2>2
      <3>6. at'["main"] = 2 /\ (\A w \in ws : at'[w] = 0) /\ failed' = {}
        BY <1>3, <1>4, <1>8, <3>2, <3>4, <3>5 DEF Moves
      <3>7. \A w \in ws : Part(w)' /\ PartReady(w)'
        BY <1>2, <3>6 DEF Part, PartReady
      <3>8. claims'["main"] = <<>>
        BY <1>3, <2>1, <2>2, <3>2
      <3> QED
        BY <1>7, <3>3, <3>6, <3>7, <3>8
    <2>3. CASE i \in 2..4
      <3>1. PICK w \in ws : Statement(t) = Do("start", w) /\ i = 1 + Nth[w]
        BY <1>2, <1>4, <1>8, <2>1, <2>3 DEF Statement
      <3>2. /\ Rests /\ claims' = claims /\ noted' = noted /\ failed' = {}
            /\ at'["main"] = i + 1 /\ at'[w] = 1 /\ \A u \in ws \ {w} : at'[u] = at[u]
        <4>1. w \in Threads \ {t} /\ \A u \in ws \ {w} : u \in Threads \ {t, w}
          BY <1>4, <1>8
        <4>2. /\ Rests /\ claims' = claims /\ noted' = noted /\ failed' = failed
              /\ at'[t] = at[t] + 1 /\ at'[w] = 1
              /\ \A u \in Threads \ {t, w} : at'[u] = at[u]
          BY <3>1, <4>1, StartTurn
        <4> QED
          BY <1>3, <1>8, <2>1, <4>1, <4>2
      <3>3. Alone("request-7", 1, ws) /\ \A u \in ws : PartReady(u)
        BY <1>3, <2>1, <2>3
      <3>4. Alone("request-7", 1, ws)' /\ group' = group
        BY <3>2, <3>3, AloneRests
      <3>5. \A u \in ws : PartReady(u)'
        BY <3>2, <3>3, <3>4 DEF PartReady
      <3>6. \A u \in ws : Nth[u] \in 1..3
        BY <1>2
      <3>7. \A u \in ws : Part(u)'
        <4> TAKE u \in ws
        <4>1. CASE u = w
          <5>1. ~ (i + 1 <= 1 + Nth[u]) /\ ~ (i + 1 >= 5 + Nth[u])
            BY <3>1, <3>6, <4>1
          <5> QED
            BY <3>2, <4>1, <5>1 DEF Part
        <4>2. CASE u # w
          <5>1. ~ (i + 1 >= 5 + Nth[u]) /\ (i + 1 <= 1 + Nth[u] => i <= 1 + Nth[u])
            BY <2>3, <3>6
          <5>2. at'[u] = at[u] /\ Part(u)
            BY <1>3, <3>2, <4>2
          <5> QED
            BY <2>1, <3>2, <5>1, <5>2 DEF Part
        <4> QED
          BY <4>1, <4>2
      <3>8. claims'["main"] = <<>>
        BY <1>3, <2>1, <2>3, <3>2
      <3>9. i + 1 \in 2..10 /\ ~ (i + 1 >= 9)
        BY <2>3
      <3> QED
        BY <1>7, <3>2, <3>4, <3>5, <3>7, <3>8, <3>9
    <2>4. CASE i \in 5..7
      <3>1. PICK w \in ws : Statement(t) = Do("join", w) /\ i = 4 + Nth[w]
        BY <1>2, <1>4, <1>8, <2>1, <2>4 DEF Statement
      <3>2. Rests /\ claims' = claims /\ noted' = noted /\ Moves(t, i + 1) /\ Over(w)
        BY <1>8, <2>1, <3>1, OtherTurn
      <3>3. at[w] = 3
        BY <1>3, <1>5, <3>2 DEF Over, Finished, Part
      <3>4. failed' = {} /\ at'["main"] = i + 1 /\ \A u \in ws : at'[u] = at[u]
        BY <1>3, <1>4, <1>8, <3>2 DEF Moves
      <3>5. Alone("request-7", 1, ws) /\ \A u \in ws : PartReady(u)
        BY <1>3, <2>1, <2>4
      <3>6. Alone("request-7", 1, ws)' /\ group' = group
        BY <3>2, <3>5, AloneRests
      <3>7. \A u \in ws : PartReady(u)'
        BY <3>4, <3>5, <3>6 DEF PartReady
      <3>8. \A u \in ws : Nth[u] \in 1..3
        BY <1>2
      <3>9. \A u \in ws : Part(u)'
        <4> TAKE u \in ws
        <4>1. Part(u) /\ at'[u] = at[u]
          BY <1>3, <3>4
        <4>2. i + 1 <= 1 + Nth[u] => i <= 1 + Nth[u]
          BY <3>8
        <4>3. i + 1 >= 5 + Nth[u] => at[u] = 3
          <5>1. CASE i >= 5 + Nth[u]
            BY <2>1, <4>1, <5>1 DEF Part
          <5>2. CASE i = 4 + Nth[u]
            <6>1. Nth[u] = Nth[w]
              BY <3>1, <3>8, <5>2
            <6>2. u = w
              BY <1>2, <6>1
            <6> QED
              BY <3>3, <6>2
          <5>3. i + 1 >= 5 + Nth[u] => i >= 5 + Nth[u] \/ i = 4 + Nth[u]
            BY <3>8
          <5> QED
            BY <5>1, <5>2, <5>3
        <4> QED
          BY <2>1, <3>2, <3>4, <4>1, <4>2, <4>3 DEF Part
      <3>10. claims'["main"] = <<>>
        BY <1>3, <2>1, <2>4, <3>2
      <3>11. i + 1 \in 2..10 /\ ~ (i + 1 >= 9)
        BY <2>4
      <3> QED
        BY <1>7, <3>4, <3>6, <3>7, <3>9, <3>10, <3>11
    <2>5. CASE i = 8
      <3>1. Statement(t) = Do("release", <<>>) /\ claims[t] = <<>>
        BY <1>3, <1>4, <1>8, <2>1, <2>5 DEF Statement
      <3>2. Alone("request-7", 1, ws) /\ \A u \in ws : PartReady(u)
        BY <1>3, <2>1, <2>5
      <3>3. \A u \in ws : at[u] = 3
        BY <1>2, <1>3, <2>1, <2>5 DEF Part
      <3>4. ws \subseteq group[1].ready
        BY <3>2, <3>3 DEF PartReady
      <3>5. /\ DOMAIN groups' = {} /\ claims'["main"] = <<1>> /\ Moves(t, i + 1)
            /\ noted' = noted
        <4>1. <<>> \o <<1>> = <<1>>
          OBVIOUS
        <4> QED
          BY <1>8, <2>1, <3>1, <3>2, <3>4, <4>1, AloneLeaves
      <3>6. failed' = {} /\ at'["main"] = 9 /\ \A u \in ws : at'[u] = 3
        BY <1>3, <1>4, <1>8, <2>5, <3>3, <3>5 DEF Moves
      <3>7. \A u \in ws : Part(u)'
        BY <1>2, <1>3, <3>3, <3>5, <3>6 DEF Part
      <3> QED
        BY <1>7, <3>5, <3>6, <3>7
    <2>6. CASE i = 9
      <3>1. Statement(t) = Do("respond", list)
        BY <1>4, <1>8, <2>1, <2>6 DEF Statement
      <3>2. \A u \in ws : at[u] = 3 /\ u \in noted
        BY <1>2, <1>3, <2>1, <2>6 DEF Part
      <3>3. Range(list) \subseteq noted
        BY <1>6, <3>2
      <3>4. Rests /\ claims' = claims /\ noted' = noted /\ Moves(t, i + 1)
        BY <1>8, <2>1, <3>1, <3>3, OtherTurn
      <3>5. failed' = {} /\ at'["main"] = 10 /\ \A u \in ws : at'[u] = 3
        BY <1>3, <1>4, <1>8, <2>6, <3>2, <3>4 DEF Moves
      <3>6. \A u \in ws : Part(u)'
        BY <1>2, <3>2, <3>4, <3>5 DEF Part
      <3>7. claims'["main"] = <<1>> /\ DOMAIN groups' = {}
        BY <1>3, <2>1, <2>6, <3>4 DEF Rests
      <3> QED
        BY <1>7, <3>5, <3>6, <3>7
    <2>7. i = 1 \/ i \in 2..4 \/ i \in 5..7 \/ i = 8 \/ i = 9
      OBVIOUS
    <2> QED
      BY <2>2, <2>3, <2>4, <2>5, <2>6, <2>7
  <1>9. CASE t \in ws
    <2>1. Len(scenario.program[t]) = 2
      BY <1>5, <1>9
    <2>2. PICK i \in 1..2 : i = at[t]
      BY <2>1, TurnAt
    <2>3. PICK k \in 1..10 : k = at["main"]
      BY <1>3
    <2>4. \A u \in ws : Nth[u] \in 1..3
      BY <1>2
    <2>5. ~ (k <= 1 + Nth[t]) /\ ~ (k >= 5 + Nth[t])
      BY <1>3, <1>9, <2>2, <2>3 DEF Part
    <2>6. k \in 2..8 /\ k # 1 /\ ~ (k >= 9)
      BY <1>9, <2>4, <2>5
    <2>7. /\ Alone("request-7", 1, ws) /\ (\A u \in ws : PartReady(u)) /\ claims["main"] = <<>>
      BY <1>3, <2>3, <2>6
    <2>8. /\ Alone("request-7", 1, ws)' /\ Moves(t, i + 1) /\ claims' = claims
          /\ noted \subseteq noted' /\ group[1].ready \subseteq group'[1].ready
          /\ i = 1 => t \in noted'
          /\ i = 2 => t \in group'[1].ready
      <3>1. CASE i = 1
        <4>1. Statement(t) = Do("note", t)
          BY <1>5, <1>9, <2>2, <3>1 DEF Statement
        <4>2. Rests /\ claims' = claims /\ noted' = noted \cup {t} /\ Moves(t, i + 1)
          BY <2>2, <4>1, OtherTurn
        <4>3. Alone("request-7", 1, ws)' /\ group' = group
          BY <2>7, <4>2, AloneRests
        <4> QED
          BY <3>1, <4>2, <4>3
      <3>2. CASE i = 2
        <4>1. Statement(t) = Do("mark_ready", t)
          BY <1>5, <1>9, <2>2, <3>2 DEF Statement
        <4>2. /\ Alone("request-7", 1, ws)' /\ group'[1].ready = group[1].ready \cup {t}
              /\ Moves(t, i + 1) /\ claims' = claims /\ noted' = noted
          BY <1>9, <2>2, <2>7, <4>1, AloneMarks
        <4> QED
          BY <3>2, <4>2
      <3> QED
        BY <3>1, <3>2
    <2>9. /\ failed' = {} /\ at'["main"] = k /\ at'[t] = i + 1
          /\ \A u \in ws \ {t} : at'[u] = at[u]
      BY <1>3, <1>4, <1>9, <2>3, <2>8 DEF Moves
    <2>10. \A u \in ws : Part(u)' /\ PartReady(u)'
      <3> TAKE u \in ws
      <3>1. Part(u) /\ PartReady(u)
        BY <1>3, <2>7
      <3>2. CASE u = t
        <4>1. i + 1 \in 0..3 /\ (i = 1 \/ i = 2)
          OBVIOUS
        <4>2. t \in noted'
          <5>1. i = 2 => t \in noted
            BY <2>2, <3>1, <3>2 DEF Part
          <5> QED
            BY <2>8, <4>1, <5>1
        <4>3. i + 1 = 3 => t \in group'[1].ready
          BY <2>8
        <4> QED
          BY <2>5, <2>9, <3>2, <4>1, <4>2, <4>3 DEF Part, PartReady
      <3>3. CASE u # t
        <4>1. at'[u] = at[u]
          BY <2>9, <3>3
        <4> QED
          BY <2>3, <2>8, <2>9, <3>1, <4>1 DEF Part, PartReady
      <3> QED
        BY <3>2, <3>3
    <2>11. claims'["main"] = <<>>
      BY <2>7, <2>8
    <2> QED
      BY <1>7, <2>6, <2>8, <2>9, <2>10, <2>11
  <1> QED
    BY <1>4, <1>8, <1>9

\* Groups 1 and 2 wait, and no other has been admitted.
Pair(a, as, b, bs) ==
  /\ DOMAIN group = {1, 2} /\ DOMAIN groups = {a, b} /\ groups[a] = 1 /\ groups[b] = 2
  /\ group[1].members = as /\ group[2].members = bs

\* The second group.
LEMMA PairComes ==
  ASSUME CInv, NEW t \in Threads, Turn(t), NEW a, NEW as, Alone(a, 1, as), DOMAIN group = {1},
         NEW b, NEW list, Statement(t) = Do("admit", <<b, list>>),
         list # <<>>, IsInjective(list), b # a, Range(list) \cap as = {}
  PROVE  /\ Pair(a, as, b, Range(list))'
         /\ group'[1].ready = group[1].ready /\ group'[2].ready = {}
         /\ Moves(t, at[t] + 1) /\ claims' = claims /\ noted' = noted
  <1>1. Len(group) = 1
    <2>1. PICK n \in Nat : n = Len(group)
      BY IndexFacts DEF CInv
    <2>2. 1..n = {1}
      BY <2>1, IndexFacts DEF CInv
    <2>3. n \in 1..n \/ n = 0
      OBVIOUS
    <2>4. n = 1
      BY <2>2, <2>3
    <2> QED
      BY <2>1, <2>4
  <1>2. /\ b \notin DOMAIN groups
        /\ \A x \in DOMAIN groups : Range(list) \cap group[groups[x]].members = {}
    BY DEF Alone
  <1>3. Comes(b, list) /\ Moves(t, at[t] + 1) /\ claims' = claims /\ noted' = noted
    BY <1>2, AdmitNew
  <1>4. Len(group) + 1 = 2
    BY <1>1
  <1>5. /\ DOMAIN group' = {1, 2} /\ group'[1] = group[1]
        /\ group'[2].members = Range(list) /\ group'[2].ready = {}
        /\ DOMAIN groups' = {a, b} /\ groups'[a] = 1 /\ groups'[b] = 2
    BY <1>3, <1>4 DEF Comes, Alone
  <1>6. group[1].members = as
    BY DEF Alone
  <1> QED
    BY <1>3, <1>5, <1>6 DEF Pair

\* Both wait as they did.
LEMMA PairRests ==
  ASSUME NEW a, NEW as, NEW b, NEW bs, Pair(a, as, b, bs), Rests
  PROVE  Pair(a, as, b, bs)' /\ group' = group
  BY DEF Pair, Rests

\* A member of one of them is marked.
LEMMA PairMarks ==
  ASSUME CInv, NEW t \in Threads, Turn(t), NEW a, NEW as, NEW b, NEW bs, Pair(a, as, b, bs),
         NEW h \in {1, 2}, NEW m \in group[h].members, Statement(t) = Do("mark_ready", m)
  PROVE  /\ Pair(a, as, b, bs)'
         /\ group'[h].ready = group[h].ready \cup {m}
         /\ \A g \in {1, 2} \ {h} : group'[g].ready = group[g].ready
         /\ Moves(t, at[t] + 1) /\ claims' = claims /\ noted' = noted
  <1>1. PICK id \in DOMAIN groups : h = groups[id]
    BY DEF Pair
  <1>2. Marks(h, {m}) /\ Moves(t, at[t] + 1) /\ claims' = claims /\ noted' = noted
    BY <1>1, MarkMember
  <1>3. /\ DOMAIN group = {1, 2}
        /\ \A g \in {1, 2} : /\ group'[g].members = group[g].members
                             /\ group'[g].ready = IF g = h THEN group[g].ready \cup {m}
                                                  ELSE group[g].ready
    BY <1>2 DEF Marks, Pair
  <1>4. /\ group'[h].ready = group[h].ready \cup {m}
        /\ \A g \in {1, 2} \ {h} : group'[g].ready = group[g].ready
    BY <1>3
  <1>5. Pair(a, as, b, bs)'
    BY <1>2, <1>3 DEF Pair, Marks
  <1> QED
    BY <1>2, <1>4, <1>5

\* When each of them is full.
LEMMA PairWaits ==
  ASSUME CInv, NEW a, NEW as, NEW b, NEW bs, Pair(a, as, b, bs)
  PROVE  /\ Waiting = {1, 2}
         /\ Full(1) <=> as \subseteq group[1].ready
         /\ Full(2) <=> bs \subseteq group[2].ready
  <1>1. \A h \in DOMAIN group : group[h].ready \subseteq group[h].members
    BY IndexFacts DEF CInv
  <1>2. /\ group[1].ready \subseteq as /\ group[1].members = as
        /\ group[2].ready \subseteq bs /\ group[2].members = bs
    BY <1>1 DEF Pair
  <1>3. Waiting = {1, 2}
    BY NoTrace DEF Pair
  <1> QED
    BY <1>2, <1>3 DEF Full
-----------------------------------------------------------------------------
\* Programs of one thread: the members that it has marked so far are those of its
\* statements, and no other member of a group that waits is ready.
Called ==
  {m \in People :
     \E i \in 1..(at["main"] - 1) : scenario.program["main"][i] = Do("mark_ready", m)}
SoFar == \A h \in Waiting : group[h].ready = group[h].members \cap Called

\* A statement marks a member or it does not.
LEMMA CalledNext ==
  ASSUME CInv, "main" \in Threads, Turn("main"), Moves("main", at["main"] + 1)
  PROVE  /\ \A m \in People : Statement("main") = Do("mark_ready", m) => Called' = Called \cup {m}
         /\ Statement("main").op # "mark_ready" => Called' = Called
  <1>1. scenario' = scenario
    BY TurnAt
  <1>2. PICK k \in Nat \ {0} : k = at["main"]
    BY TurnAt
  <1>3. at'["main"] - 1 = k /\ 1..k = 1..(k - 1) \cup {k}
    BY <1>2 DEF Moves
  <1>4. PICK p : p = scenario.program["main"]
    OBVIOUS
  <1>5. /\ Called = {m \in People : \E i \in 1..(k - 1) : p[i] = Do("mark_ready", m)}
        /\ Called' = {m \in People : \E i \in 1..k : p[i] = Do("mark_ready", m)}
        /\ Statement("main") = p[k]
    BY <1>1, <1>2, <1>3, <1>4 DEF Called, Statement
  <1>6. ASSUME NEW m \in People, p[k] = Do("mark_ready", m)
        PROVE  Called' = Called \cup {m}
    <2>1. \A x \in People : p[k] = Do("mark_ready", x) <=> x = m
      <3>1. \A x \in People : Do("mark_ready", x).arg = x
        BY DEF Do
      <3> QED
        BY <1>6, <3>1
    <2> QED
      BY <1>3, <1>5, <1>6, <2>1
  <1>7. ASSUME p[k].op # "mark_ready"
        PROVE  Called' = Called
    <2>1. \A x \in People : p[k] # Do("mark_ready", x)
      BY <1>7 DEF Do
    <2> QED
      BY <1>3, <1>5, <2>1
  <1> QED
    BY <1>5, <1>6, <1>7

\* Before the third statement nothing has been marked.
LEMMA CalledNobody ==
  ASSUME \/ at["main"] = 1
         \/ at["main"] = 2 /\ scenario.program["main"][1].op # "mark_ready"
  PROVE  Called = {}
  <1>1. CASE at["main"] = 1
    BY <1>1 DEF Called
  <1>2. CASE at["main"] = 2 /\ scenario.program["main"][1].op # "mark_ready"
    <2>1. \A i \in 1..(at["main"] - 1) : i = 1
      BY <1>2
    <2>2. \A m \in People : scenario.program["main"][1] # Do("mark_ready", m)
      BY <1>2 DEF Do
    <2> QED
      BY <2>1, <2>2 DEF Called
  <1> QED
    BY <1>1, <1>2

\* The statements that admit, look or give groups away.
LEMMA SoFarStays ==
  ASSUME CInv, SoFar, "main" \in Threads, Turn("main"), Moves("main", at["main"] + 1),
         Statement("main").op # "mark_ready",
         \/ Rests
         \/ \E hs : Leaves(hs)
         \/ Called = {} /\ \E id, list : Comes(id, list)
  PROVE  SoFar'
  <1>1. Called' = Called
    BY CalledNext
  <1>2. Waiting \subseteq DOMAIN group
    BY NoTrace
  <1>3. CASE Rests
    <2>1. Waiting' = Waiting /\ group' = group
      BY <1>3 DEF Rests, Waiting
    <2> QED
      BY <1>1, <2>1 DEF SoFar
  <1>4. ASSUME NEW hs, Leaves(hs)
        PROVE  SoFar'
    BY <1>1, <1>2, <1>4 DEF SoFar, Leaves
  <1>5. ASSUME Called = {}, NEW id, NEW list, Comes(id, list)
        PROVE  SoFar'
    <2>1. \A h \in Waiting' : group'[h].ready = {}
      BY <1>2, <1>5 DEF SoFar, Comes
    <2> QED
      BY <1>1, <1>5, <2>1 DEF SoFar
  <1> QED
    BY <1>3, <1>4, <1>5

\* The statements that mark a member of a group that waits.
LEMMA SoFarMarks ==
  ASSUME CInv, SoFar, "main" \in Threads, Turn("main"), Moves("main", at["main"] + 1),
         NEW h \in Waiting, NEW m \in group[h].members,
         Statement("main") = Do("mark_ready", m), Marks(h, {m})
  PROVE  SoFar'
  <1>1. Waiting' = Waiting /\ Waiting \subseteq DOMAIN group
    BY NoTrace DEF Marks, Waiting
  <1>2. m \in People
    BY <1>1, IndexFacts DEF CInv
  <1>3. Called' = Called \cup {m}
    BY <1>2, CalledNext
  <1>4. \A g \in Waiting : m \in group[g].members => g = h
    <2>1. \A g \in Waiting : \E id \in DOMAIN groups : g = groups[id]
      BY NoTrace
    <2> QED
      BY <2>1, IndexFacts DEF CInv
  <1>5. ASSUME NEW g \in Waiting
        PROVE  group'[g].ready = group'[g].members \cap (Called \cup {m})
    <2>1. /\ group[g].ready = group[g].members \cap Called
          /\ group'[g].members = group[g].members
          /\ group'[g].ready = IF g = h THEN group[g].ready \cup {m} ELSE group[g].ready
      BY <1>1 DEF SoFar, Marks
    <2> QED
      BY <1>4, <2>1
  <1> QED
    BY <1>1, <1>3, <1>5 DEF SoFar
\* A statement that gives nothing away.
Goes == SoFar' /\ Moves("main", at["main"] + 1) /\ claims' = claims

\* The first group of a program.
LEMMA FirstComes ==
  ASSUME CInv, SoFar, "main" \in Threads, Turn("main"), NEW id, NEW list,
         Statement("main") = Do("admit", <<id, list>>),
         list # <<>>, IsInjective(list), DOMAIN group = {}, at["main"] = 1
  PROVE  Goes /\ Alone(id, 1, Range(list))' /\ DOMAIN group' = {1}
  <1>1. /\ Alone(id, 1, Range(list))' /\ DOMAIN group' = {1}
        /\ Moves("main", at["main"] + 1) /\ claims' = claims
    BY AloneComes
  <1>2. Statement("main").op # "mark_ready"
    BY DEF Do
  <1>3. Called = {}
    BY CalledNobody
  <1>4. Comes(id, list)
    <2>1. id \notin DOMAIN groups /\ DOMAIN groups = {}
      BY NoneYet
    <2> QED
      BY <2>1, AdmitNew
  <1>5. SoFar'
    BY <1>1, <1>2, <1>3, <1>4, SoFarStays
  <1> QED
    BY <1>1, <1>5 DEF Goes

\* The second group of a program.
LEMMA SecondComes ==
  ASSUME CInv, SoFar, "main" \in Threads, Turn("main"), NEW a, NEW as, Alone(a, 1, as),
         DOMAIN group = {1}, NEW b, NEW list, Statement("main") = Do("admit", <<b, list>>),
         list # <<>>, IsInjective(list), b # a, Range(list) \cap as = {},
         at["main"] = 2, scenario.program["main"][1].op = "admit"
  PROVE  Goes /\ Pair(a, as, b, Range(list))'
  <1>1. /\ Pair(a, as, b, Range(list))'
        /\ Moves("main", at["main"] + 1) /\ claims' = claims
    BY PairComes
  <1>2. Statement("main").op # "mark_ready"
    BY DEF Do
  <1>3. Called = {}
    BY CalledNobody
  <1>4. Comes(b, list)
    <2>1. /\ b \notin DOMAIN groups
          /\ \A x \in DOMAIN groups : Range(list) \cap group[groups[x]].members = {}
      BY DEF Alone
    <2> QED
      BY <2>1, AdmitNew
  <1>5. SoFar'
    BY <1>1, <1>2, <1>3, <1>4, SoFarStays
  <1> QED
    BY <1>1, <1>5 DEF Goes

\* A member of one of two groups is marked.
LEMMA PairCalled ==
  ASSUME CInv, SoFar, "main" \in Threads, Turn("main"),
         NEW a, NEW as, NEW b, NEW bs, Pair(a, as, b, bs),
         NEW m \in as \cup bs, Statement("main") = Do("mark_ready", m)
  PROVE  Goes /\ Pair(a, as, b, bs)'
  <1>1. PICK h \in {1, 2} : m \in group[h].members
    BY DEF Pair
  <1>2. PICK id \in DOMAIN groups : h = groups[id]
    BY DEF Pair
  <1>3. Marks(h, {m}) /\ Moves("main", at["main"] + 1) /\ claims' = claims
    BY <1>1, <1>2, MarkMember
  <1>4. Pair(a, as, b, bs)'
    BY <1>1, PairMarks
  <1>5. h \in Waiting
    BY <1>2, NoTrace
  <1>6. SoFar'
    BY <1>1, <1>3, <1>5, SoFarMarks
  <1> QED
    BY <1>3, <1>4, <1>6 DEF Goes

\* A member of the only group is marked.
LEMMA AloneCalled ==
  ASSUME CInv, SoFar, "main" \in Threads, Turn("main"), NEW id, NEW h, NEW ms, Alone(id, h, ms),
         NEW m \in ms, Statement("main") = Do("mark_ready", m)
  PROVE  Goes /\ Alone(id, h, ms)'
  <1>1. id \in DOMAIN groups /\ h = groups[id] /\ m \in group[h].members
    BY DEF Alone
  <1>2. Marks(h, {m}) /\ Moves("main", at["main"] + 1) /\ claims' = claims
    BY <1>1, MarkMember
  <1>3. Alone(id, h, ms)'
    BY AloneMarks
  <1>4. h \in Waiting
    BY <1>1, NoTrace
  <1>5. SoFar'
    BY <1>1, <1>2, <1>4, SoFarMarks
  <1> QED
    BY <1>2, <1>3, <1>5 DEF Goes

\* A statement that looks, at a member of a group that waits if at any.
LEMMA Looks ==
  ASSUME CInv, SoFar, "main" \in Threads, Turn("main"),
         \/ Statement("main") = Do("peek", <<>>)
         \/ \E id \in DOMAIN groups : \E m \in group[groups[id]].members :
              Statement("main") = Do("group_of", m)
  PROVE  Goes /\ Rests
  <1>1. Rests /\ claims' = claims /\ Moves("main", at["main"] + 1)
    <2>1. CASE Statement("main") = Do("peek", <<>>)
      BY <2>1, LookTurn
    <2>2. ASSUME NEW id \in DOMAIN groups, NEW m \in group[groups[id]].members,
                 Statement("main") = Do("group_of", m)
          PROVE  Rests /\ claims' = claims /\ Moves("main", at["main"] + 1)
      <3>1. m \in DOMAIN member_index
        BY IndexFacts DEF CInv
      <3> QED
        BY <2>2, <3>1, LookTurn
    <2> QED
      BY <2>1, <2>2
  <1>2. Statement("main").op # "mark_ready"
    BY DEF Do
  <1>3. SoFar'
    BY <1>1, <1>2, SoFarStays
  <1> QED
    BY <1>1, <1>3 DEF Goes

\* Which of two groups are full.
LEMMA PairFull ==
  ASSUME CInv, SoFar, NEW a, NEW as, NEW b, NEW bs, Pair(a, as, b, bs)
  PROVE  /\ Waiting = {1, 2}
         /\ Full(1) <=> as \subseteq Called
         /\ Full(2) <=> bs \subseteq Called
  <1>1. Waiting = {1, 2} /\ group[1].members = as /\ group[2].members = bs
    BY PairWaits DEF Pair
  <1>2. group[1].ready = as \cap Called /\ group[2].ready = bs \cap Called
    BY <1>1 DEF SoFar
  <1>3. /\ as \cap Called = as <=> as \subseteq Called
        /\ bs \cap Called = bs <=> bs \subseteq Called
    OBVIOUS
  <1> QED
    BY <1>1, <1>2, <1>3 DEF Full

\* What the main thread has marked, statement by statement.
LEMMA CalledBy ==
  ASSUME NEW i \in 1..(at["main"] - 1), NEW m \in People,
         scenario.program["main"][i] = Do("mark_ready", m)
  PROVE  m \in Called
  BY DEF Called

\* The main thread is given what release_all gives it.
LEMMA AllLeave ==
  ASSUME CInv, SoFar, "main" \in Threads, Turn("main"), claims["main"] = <<>>,
         Statement("main") = Do("release_all", <<>>), Waiting \subseteq {1, 2}
  PROVE  /\ Moves("main", at["main"] + 1) /\ Leaves(MayLeave) /\ SoFar'
         /\ MayLeave = {1} => claims'["main"] = <<1>>
         /\ MayLeave = {1, 2} => claims'["main"] = <<1, 2>>
  <1>1. /\ Moves("main", at["main"] + 1) /\ Leaves(MayLeave)
        /\ \E gs \in Seq(MayLeave) : /\ claims' = [claims EXCEPT !["main"] = @ \o gs]
                                     /\ Range(gs) = MayLeave
                                     /\ \A i, j \in DOMAIN gs : i < j => gs[i] < gs[j]
    BY ReleaseAllTurn
  <1>2. PICK gs \in Seq(MayLeave) : /\ claims' = [claims EXCEPT !["main"] = @ \o gs]
                                    /\ Range(gs) = MayLeave
                                    /\ \A i, j \in DOMAIN gs : i < j => gs[i] < gs[j]
    BY <1>1
  <1>3. gs \in Seq(Nat)
    <2>1. MayLeave \subseteq Nat
      <3>1. MayLeave \subseteq Waiting
        BY DEF MayLeave
      <3>2. Waiting \subseteq Nat
        OBVIOUS
      <3> QED
        BY <3>1, <3>2
    <2>2. PICK S : S = MayLeave
      OBVIOUS
    <2>3. gs \in Seq(S) /\ S \subseteq Nat
      BY <2>1, <2>2
    <2> QED
      BY <2>3, SeqMonotonic
  <1>4. claims'["main"] = gs
    <2>1. DOMAIN claims = Threads
      BY DEF CInv
    <2>2. claims'["main"] = <<>> \o gs
      BY <1>2, <2>1
    <2> QED
      BY <1>3, <2>2, ConcatEmptySeq
  <1>5. /\ MayLeave = {1} => gs = <<1>>
        /\ MayLeave = {1, 2} => gs = <<1, 2>>
    BY <1>2, <1>3, InOrder
  <1>6. SoFar'
    <2>1. Statement("main").op # "mark_ready"
      BY DEF Do
    <2> QED
      BY <1>1, <2>1, SoFarStays
  <1> QED
    BY <1>1, <1>4, <1>5, <1>6
-----------------------------------------------------------------------------
\* The restaurant: both parties are called together, in the order in which they came.
Mehta == {"asha", "raj", "priya"}
Okafor == {"ngozi", "chidi"}
RestaurantInv ==
  scenario = Restaurant =>
    /\ failed = {} /\ at["main"] \in 1..11 /\ SoFar
    /\ claims["main"] = IF at["main"] = 11 THEN <<1, 2>> ELSE <<>>
    /\ at["main"] = 1 => DOMAIN group = {}
    /\ at["main"] = 2 => Alone("mehta-party", 1, Mehta) /\ DOMAIN group = {1}
    /\ at["main"] \in 3..10 => Pair("mehta-party", Mehta, "okafor-party", Okafor)
    /\ at["main"] = 11 => DOMAIN groups = {}

\* Every statement keeps this.
LEMMA RestaurantKept ==
  ASSUME CInv, RestaurantInv, NEW t \in Threads, Turn(t)
  PROVE  RestaurantInv'
  <1>1. scenario' = scenario /\ Threads' = Threads
    BY TurnAt
  <1> SUFFICES ASSUME scenario = Restaurant
               PROVE  RestaurantInv'
    BY <1>1 DEF RestaurantInv
  <1>2. /\ failed = {} /\ at["main"] \in 1..11 /\ SoFar
        /\ claims["main"] = IF at["main"] = 11 THEN <<1, 2>> ELSE <<>>
        /\ at["main"] = 1 => DOMAIN group = {}
        /\ at["main"] = 2 => Alone("mehta-party", 1, Mehta) /\ DOMAIN group = {1}
        /\ at["main"] \in 3..10 => Pair("mehta-party", Mehta, "okafor-party", Okafor)
    BY DEF RestaurantInv
  <1>3. PICK p : p = scenario.program["main"]
    OBVIOUS
  <1>4. /\ Threads = {"main"} /\ Len(p) = 10
        /\ p[1] = Do("admit", <<"mehta-party", <<"asha", "raj", "priya">>>>)
        /\ p[2] = Do("admit", <<"okafor-party", <<"ngozi", "chidi">>>>)
        /\ p[3] = Do("mark_ready", "asha") /\ p[4] = Do("mark_ready", "raj")
        /\ p[5] = Do("mark_ready", "ngozi") /\ p[6] = Do("mark_ready", "chidi")
        /\ p[7] = Do("peek", <<>>) /\ p[8] = Do("group_of", "asha")
        /\ p[9] = Do("mark_ready", "priya") /\ p[10] = Do("release_all", <<>>)
    BY <1>3, RestaurantProgram DEF Threads
  <1>5. t = "main" /\ "main" \in Threads /\ Turn("main")
    BY <1>4
  <1>6. PICK k \in 1..10 : k = at["main"]
    BY <1>3, <1>4, <1>5, TurnAt
  <1>7. Statement("main") = p[k] /\ claims["main"] = <<>>
    BY <1>2, <1>3, <1>6 DEF Statement
  <1>8. \/ k = 1 \/ k = 2 \/ k = 7 \/ k = 8 \/ k = 10
        \/ k \in {3, 4, 5, 6, 9}
    OBVIOUS
  <1>9. ASSUME Goes, Pair("mehta-party", Mehta, "okafor-party", Okafor)', k \in 2..9
        PROVE  RestaurantInv'
    <2>1. /\ at'["main"] = k + 1 /\ k + 1 \in 3..10 /\ failed' = failed
          /\ claims' = claims /\ SoFar'
      BY <1>6, <1>9 DEF Goes, Moves
    <2> QED
      BY <1>2, <1>7, <1>9, <2>1 DEF RestaurantInv
  <1>10. CASE k = 1
    <2>1. PICK list : list = <<"asha", "raj", "priya">>
      OBVIOUS
    <2>2. list # <<>> /\ IsInjective(list) /\ Range(list) = Mehta
      BY <2>1 DEF IsInjective, Range, Mehta
    <2>3. Goes /\ Alone("mehta-party", 1, Mehta)' /\ DOMAIN group' = {1}
      <3>1. /\ Statement("main") = Do("admit", <<"mehta-party", list>>)
            /\ DOMAIN group = {} /\ at["main"] = 1
        BY <1>2, <1>4, <1>6, <1>7, <1>10, <2>1
      <3>2. Goes /\ Alone("mehta-party", 1, Range(list))' /\ DOMAIN group' = {1}
        BY <1>2, <1>5, <2>2, <3>1, FirstComes
      <3> QED
        BY <2>2, <3>2
    <2>4. at'["main"] = 2 /\ failed' = failed /\ claims' = claims /\ SoFar'
      <3>1. at["main"] + 1 = 2
        BY <1>6, <1>10
      <3> QED
        BY <2>3, <3>1 DEF Goes, Moves
    <2> QED
      BY <1>2, <1>7, <2>3, <2>4 DEF RestaurantInv
  <1>11. CASE k = 2
    <2>1. PICK list : list = <<"ngozi", "chidi">>
      OBVIOUS
    <2>2. /\ list # <<>> /\ IsInjective(list) /\ Range(list) = Okafor
          /\ Range(list) \cap Mehta = {}
      BY <2>1 DEF IsInjective, Range, Okafor, Mehta
    <2>3. Goes /\ Pair("mehta-party", Mehta, "okafor-party", Range(list))'
      <3>1. /\ Statement("main") = Do("admit", <<"okafor-party", list>>)
            /\ Alone("mehta-party", 1, Mehta) /\ DOMAIN group = {1} /\ at["main"] = 2
        BY <1>2, <1>4, <1>6, <1>7, <1>11, <2>1
      <3>2. scenario.program["main"][1].op = "admit"
        BY <1>3, <1>4 DEF Do
      <3> QED
        BY <1>2, <1>5, <2>2, <3>1, <3>2, SecondComes
    <2> QED
      BY <1>9, <1>11, <2>2, <2>3
  <1>12. CASE k \in {3, 4, 5, 6, 9}
    <2>1. PICK m \in Mehta \cup Okafor : p[k] = Do("mark_ready", m)
      BY <1>4, <1>12 DEF Mehta, Okafor
    <2>2. Pair("mehta-party", Mehta, "okafor-party", Okafor)
      BY <1>2, <1>6, <1>12
    <2>3. Goes /\ Pair("mehta-party", Mehta, "okafor-party", Okafor)'
      BY <1>2, <1>5, <1>7, <2>1, <2>2, PairCalled
    <2> QED
      BY <1>9, <1>12, <2>3
  <1>13. CASE k = 7 \/ k = 8
    <2>1. Pair("mehta-party", Mehta, "okafor-party", Okafor)
      BY <1>2, <1>6, <1>13
    <2>2. "mehta-party" \in DOMAIN groups /\ "asha" \in group[groups["mehta-party"]].members
      BY <2>1 DEF Pair, Mehta
    <2>3. \/ Statement("main") = Do("peek", <<>>)
          \/ \E id \in DOMAIN groups : \E m \in group[groups[id]].members :
               Statement("main") = Do("group_of", m)
      BY <1>4, <1>7, <1>13, <2>2
    <2>4. Goes /\ Rests
      BY <1>2, <1>5, <2>3, Looks
    <2>5. Pair("mehta-party", Mehta, "okafor-party", Okafor)'
      BY <2>1, <2>4, PairRests
    <2> QED
      BY <1>9, <1>13, <2>4, <2>5
  <1>14. CASE k = 10
    <2>1. Pair("mehta-party", Mehta, "okafor-party", Okafor)
      BY <1>2, <1>6, <1>14
    <2>2. Mehta \subseteq Called /\ Okafor \subseteq Called
      <3>1. Mehta \subseteq People /\ Okafor \subseteq People
        BY Vocabulary DEF Names, Mehta, Okafor
      <3>2. \A i \in 1..9 : i \in 1..(at["main"] - 1)
        BY <1>6, <1>14
      <3>3. \A m \in Mehta \cup Okafor : \E i \in 1..9 : p[i] = Do("mark_ready", m)
        BY <1>4 DEF Mehta, Okafor
      <3> QED
        BY <1>3, <3>1, <3>2, <3>3 DEF Called
    <2>3. MayLeave = {1, 2} /\ Waiting = {1, 2}
      <3>1. Waiting = {1, 2} /\ Full(1) /\ Full(2)
        BY <1>2, <2>1, <2>2, PairFull
      <3> QED
        BY <3>1 DEF MayLeave
    <2>4. /\ Moves("main", at["main"] + 1) /\ Leaves(MayLeave) /\ SoFar'
          /\ claims'["main"] = <<1, 2>>
      BY <1>2, <1>4, <1>5, <1>7, <1>14, <2>3, AllLeave
    <2>5. DOMAIN groups' = {}
      BY <2>1, <2>3, <2>4 DEF Leaves, Pair
    <2>6. at'["main"] = 11 /\ failed' = failed
      <3>1. at["main"] + 1 = 11
        BY <1>6, <1>14
      <3> QED
        BY <2>4, <3>1 DEF Moves
    <2> QED
      BY <1>2, <2>4, <2>5, <2>6 DEF RestaurantInv
  <1> QED
    BY <1>8, <1>10, <1>11, <1>12, <1>13, <1>14
-----------------------------------------------------------------------------
\* The batches: the first day goes out, the second waits for a shard until it is cancelled.
Day(d) == {<<d, "clicks">>, <<d, "views">>, <<d, "spend">>}
BatchesInv ==
  scenario = Batches =>
    /\ failed = {} /\ at["main"] \in 1..10 /\ SoFar
    /\ claims["main"] = IF at["main"] = 10 THEN <<1, 2>>
                        ELSE IF at["main"] = 9 THEN <<1>> ELSE <<>>
    /\ at["main"] = 1 => DOMAIN group = {}
    /\ at["main"] = 2 => Alone("18", 1, Day("18")) /\ DOMAIN group = {1}
    /\ at["main"] \in 3..8 => Pair("18", Day("18"), "19", Day("19"))
    /\ at["main"] = 9 => Alone("19", 2, Day("19"))
    /\ at["main"] = 10 => DOMAIN groups = {}

\* Every statement keeps this.
LEMMA BatchesKept ==
  ASSUME CInv, BatchesInv, NEW t \in Threads, Turn(t)
  PROVE  BatchesInv'
  <1>1. scenario' = scenario /\ Threads' = Threads
    BY TurnAt
  <1> SUFFICES ASSUME scenario = Batches
               PROVE  BatchesInv'
    BY <1>1 DEF BatchesInv
  <1>2. /\ failed = {} /\ at["main"] \in 1..10 /\ SoFar
        /\ claims["main"] = IF at["main"] = 10 THEN <<1, 2>>
                            ELSE IF at["main"] = 9 THEN <<1>> ELSE <<>>
        /\ at["main"] = 1 => DOMAIN group = {}
        /\ at["main"] = 2 => Alone("18", 1, Day("18")) /\ DOMAIN group = {1}
        /\ at["main"] \in 3..8 => Pair("18", Day("18"), "19", Day("19"))
        /\ at["main"] = 9 => Alone("19", 2, Day("19"))
    BY DEF BatchesInv
  <1>3. PICK p : p = scenario.program["main"]
    OBVIOUS
  <1>4. /\ Threads = {"main"} /\ Len(p) = 9 /\ scenario.strict
        /\ p[1] = Do("admit",
                     <<"18", <<<<"18", "clicks">>, <<"18", "views">>, <<"18", "spend">>>>>>)
        /\ p[2] = Do("admit",
                     <<"19", <<<<"19", "clicks">>, <<"19", "views">>, <<"19", "spend">>>>>>)
        /\ p[3] = Do("mark_ready", <<"18", "clicks">>)
        /\ p[4] = Do("mark_ready", <<"18", "views">>)
        /\ p[5] = Do("mark_ready", <<"18", "spend">>)
        /\ p[6] = Do("mark_ready", <<"19", "clicks">>)
        /\ p[7] = Do("mark_ready", <<"19", "views">>)
        /\ p[8] = Do("release_all", <<>>) /\ p[9] = Do("cancel", "19")
    BY <1>3, BatchesProgram DEF Threads
  <1>5. t = "main" /\ "main" \in Threads /\ Turn("main")
    BY <1>4
  <1>6. PICK k \in 1..9 : k = at["main"]
    BY <1>3, <1>4, <1>5, TurnAt
  <1>7. Statement("main") = p[k]
    BY <1>3, <1>6 DEF Statement
  <1>8. k = 1 \/ k = 2 \/ k = 8 \/ k = 9 \/ k \in 3..7
    OBVIOUS
  <1>9. ASSUME Goes, Pair("18", Day("18"), "19", Day("19"))', k \in 2..7
        PROVE  BatchesInv'
    <2>1. claims["main"] = <<>>
      BY <1>2, <1>6, <1>9
    <2>2. /\ at'["main"] = k + 1 /\ k + 1 \in 3..8 /\ failed' = failed
          /\ claims' = claims /\ SoFar'
      BY <1>6, <1>9 DEF Goes, Moves
    <2> QED
      BY <1>2, <1>9, <2>1, <2>2 DEF BatchesInv
  <1>10. CASE k = 1
    <2>1. PICK list : list = <<<<"18", "clicks">>, <<"18", "views">>, <<"18", "spend">>>>
      OBVIOUS
    <2>2. list # <<>> /\ IsInjective(list) /\ Range(list) = Day("18")
      BY <2>1 DEF IsInjective, Range, Day
    <2>3. Goes /\ Alone("18", 1, Day("18"))' /\ DOMAIN group' = {1}
      <3>1. /\ Statement("main") = Do("admit", <<"18", list>>)
            /\ DOMAIN group = {} /\ at["main"] = 1
        BY <1>2, <1>4, <1>6, <1>7, <1>10, <2>1
      <3>2. Goes /\ Alone("18", 1, Range(list))' /\ DOMAIN group' = {1}
        BY <1>2, <1>5, <2>2, <3>1, FirstComes
      <3> QED
        BY <2>2, <3>2
    <2>4. at'["main"] = 2 /\ failed' = failed /\ claims' = claims /\ SoFar'
      <3>1. at["main"] + 1 = 2
        BY <1>6, <1>10
      <3> QED
        BY <2>3, <3>1 DEF Goes, Moves
    <2>5. claims["main"] = <<>>
      BY <1>2, <1>6, <1>10
    <2> QED
      BY <1>2, <2>3, <2>4, <2>5 DEF BatchesInv
  <1>11. CASE k = 2
    <2>1. PICK list : list = <<<<"19", "clicks">>, <<"19", "views">>, <<"19", "spend">>>>
      OBVIOUS
    <2>2. list # <<>> /\ IsInjective(list) /\ Range(list) = Day("19")
      BY <2>1 DEF IsInjective, Range, Day
    <2>3. Day("19") \cap Day("18") = {}
      BY DEF Day
    <2>4. Goes /\ Pair("18", Day("18"), "19", Range(list))'
      <3>1. /\ Statement("main") = Do("admit", <<"19", list>>)
            /\ Alone("18", 1, Day("18")) /\ DOMAIN group = {1} /\ at["main"] = 2
        BY <1>2, <1>4, <1>6, <1>7, <1>11, <2>1
      <3>2. scenario.program["main"][1].op = "admit"
        BY <1>3, <1>4 DEF Do
      <3> QED
        BY <1>2, <1>5, <2>2, <2>3, <3>1, <3>2, SecondComes
    <2> QED
      BY <1>9, <1>11, <2>2, <2>4
  <1>12. CASE k \in 3..7
    <2>1. PICK m \in Day("18") \cup Day("19") : p[k] = Do("mark_ready", m)
      <3>1. k = 3 \/ k = 4 \/ k = 5 \/ k = 6 \/ k = 7
        BY <1>12
      <3> QED
        BY <1>4, <3>1 DEF Day
    <2>2. Pair("18", Day("18"), "19", Day("19"))
      BY <1>2, <1>6, <1>12
    <2>3. Goes /\ Pair("18", Day("18"), "19", Day("19"))'
      BY <1>2, <1>5, <1>7, <2>1, <2>2, PairCalled
    <2> QED
      BY <1>9, <1>12, <2>3
  <1>13. CASE k = 8
    <2>1. Pair("18", Day("18"), "19", Day("19")) /\ claims["main"] = <<>>
      BY <1>2, <1>6, <1>13
    <2>2. \A i : i \in 1..(at["main"] - 1) <=> i \in 1..7
      BY <1>6, <1>13
    <2>3. Day("18") \subseteq Called
      <3>1. Day("18") \subseteq People
        BY Vocabulary DEF Shards, Day
      <3>2. \A m \in Day("18") : \E i \in 1..7 : p[i] = Do("mark_ready", m)
        BY <1>4 DEF Day
      <3> QED
        BY <1>3, <2>2, <3>1, <3>2 DEF Called
    <2>4. ~ (Day("19") \subseteq Called)
      <3>1. PICK spend : spend = <<"19", "spend">>
        OBVIOUS
      <3>2. spend \in Day("19")
        BY <3>1 DEF Day
      <3>3. \A i \in 1..7 : p[i].op = "admit" \/ p[i].arg # spend
        <4>1. \A i \in 1..7 : i = 1 \/ i = 2 \/ i = 3 \/ i = 4 \/ i = 5 \/ i = 6 \/ i = 7
          OBVIOUS
        <4>2. p[1].op = "admit" /\ p[2].op = "admit"
          BY <1>4 DEF Do
        <4>3. /\ p[3].arg = <<"18", "clicks">> /\ p[4].arg = <<"18", "views">>
              /\ p[5].arg = <<"18", "spend">> /\ p[6].arg = <<"19", "clicks">>
              /\ p[7].arg = <<"19", "views">>
          BY <1>4 DEF Do
        <4>4. /\ p[3].arg # spend /\ p[4].arg # spend /\ p[5].arg # spend /\ p[6].arg # spend
              /\ p[7].arg # spend
          BY <3>1, <4>3
        <4> QED
          BY <4>1, <4>2, <4>4
      <3>4. \A i \in 1..7 : p[i] # Do("mark_ready", spend)
        BY <3>3 DEF Do
      <3> QED
        BY <1>3, <2>2, <3>2, <3>4 DEF Called
    <2>5. MayLeave = {1} /\ Waiting = {1, 2}
      <3>1. Waiting = {1, 2} /\ Full(1) /\ ~ Full(2)
        BY <1>2, <2>1, <2>3, <2>4, PairFull
      <3> QED
        BY <3>1 DEF MayLeave
    <2>6. /\ Moves("main", at["main"] + 1) /\ Leaves(MayLeave) /\ SoFar'
          /\ claims'["main"] = <<1>>
      BY <1>2, <1>4, <1>5, <1>7, <1>13, <2>1, <2>5, AllLeave
    <2>7. Alone("19", 2, Day("19"))'
      <3>1. /\ DOMAIN groups = {"18", "19"} /\ groups["18"] = 1 /\ groups["19"] = 2
            /\ DOMAIN group = {1, 2} /\ group[2].members = Day("19")
        BY <2>1 DEF Pair
      <3>2. /\ DOMAIN group' = DOMAIN group /\ group'[2].members = group[2].members
            /\ DOMAIN groups' \subseteq DOMAIN groups
            /\ \A id \in DOMAIN groups : id \notin DOMAIN groups' <=> groups[id] = 1
            /\ \A id \in DOMAIN groups' : groups'[id] = groups[id]
        BY <2>5, <2>6, <3>1 DEF Leaves
      <3>3. "19" \in DOMAIN groups' /\ "18" \notin DOMAIN groups'
        BY <3>1, <3>2
      <3>4. DOMAIN groups' = {"19"} /\ groups'["19"] = 2
        BY <3>1, <3>2, <3>3
      <3> QED
        BY <3>1, <3>2, <3>4 DEF Alone
    <2>8. at'["main"] = 9 /\ failed' = failed
      <3>1. at["main"] + 1 = 9
        BY <1>6, <1>13
      <3> QED
        BY <2>6, <3>1 DEF Moves
    <2> QED
      BY <1>2, <2>6, <2>7, <2>8 DEF BatchesInv
  <1>14. CASE k = 9
    <2>1. Alone("19", 2, Day("19")) /\ claims["main"] = <<1>>
      BY <1>2, <1>6, <1>14
    <2>2. "19" \in DOMAIN groups /\ groups["19"] = 2 /\ DOMAIN groups = {"19"}
      BY <2>1 DEF Alone
    <2>3. Hands("main", 2) /\ Moves("main", at["main"] + 1)
      <3>1. Statement("main") \in {Do("cancel", "19"), Try("cancel", "19")}
        BY <1>4, <1>7, <1>14
      <3> QED
        BY <1>5, <2>2, <3>1, CancelTurn
    <2>4. DOMAIN groups' = {}
      BY <2>2, <2>3 DEF Hands, Leaves
    <2>5. claims'["main"] = <<1, 2>>
      <3>1. claims'["main"] = <<1>> \o <<2>>
        BY <1>5, <2>1, <2>3 DEF Hands, CInv
      <3> QED
        BY <3>1, OneAndOne
    <2>6. at'["main"] = 10 /\ failed' = failed
      <3>1. at["main"] + 1 = 10
        BY <1>6, <1>14
      <3> QED
        BY <2>3, <3>1 DEF Moves
    <2>7. SoFar'
      <3>1. Statement("main").op # "mark_ready"
        BY <1>4, <1>7, <1>14 DEF Do
      <3>2. \E hs : Leaves(hs)
        BY <2>3 DEF Hands
      <3> QED
        BY <1>2, <1>5, <2>3, <3>1, <3>2, SoFarStays
    <2> QED
      BY <1>2, <2>4, <2>5, <2>6, <2>7 DEF BatchesInv
  <1> QED
    BY <1>8, <1>10, <1>11, <1>12, <1>13, <1>14
-----------------------------------------------------------------------------
\* The lobbies: the second is full first and leaves first, the other when it is full.
Alpha == {"ada", "linus", "grace"}
Beta == {"hedy", "alan"}
MatchmakingInv ==
  scenario = Matchmaking =>
    /\ failed = {} /\ at["main"] \in 1..11 /\ SoFar
    /\ claims["main"] = IF at["main"] = 11 THEN <<2, 1>>
                        ELSE IF at["main"] > 6 THEN <<2>> ELSE <<>>
    /\ at["main"] = 1 => DOMAIN group = {}
    /\ at["main"] = 2 => Alone("lobby-alpha", 1, Alpha) /\ DOMAIN group = {1}
    /\ at["main"] \in 3..6 => Pair("lobby-alpha", Alpha, "lobby-beta", Beta)
    /\ at["main"] \in 7..10 => Alone("lobby-alpha", 1, Alpha)
    /\ at["main"] = 11 => DOMAIN groups = {}

\* Every statement keeps this.
LEMMA MatchmakingKept ==
  ASSUME CInv, MatchmakingInv, NEW t \in Threads, Turn(t)
  PROVE  MatchmakingInv'
  <1>1. scenario' = scenario /\ Threads' = Threads
    BY TurnAt
  <1> SUFFICES ASSUME scenario = Matchmaking
               PROVE  MatchmakingInv'
    BY <1>1 DEF MatchmakingInv
  <1>2. /\ failed = {} /\ at["main"] \in 1..11 /\ SoFar
        /\ claims["main"] = IF at["main"] = 11 THEN <<2, 1>>
                            ELSE IF at["main"] > 6 THEN <<2>> ELSE <<>>
        /\ at["main"] = 1 => DOMAIN group = {}
        /\ at["main"] = 2 => Alone("lobby-alpha", 1, Alpha) /\ DOMAIN group = {1}
        /\ at["main"] \in 3..6 => Pair("lobby-alpha", Alpha, "lobby-beta", Beta)
        /\ at["main"] \in 7..10 => Alone("lobby-alpha", 1, Alpha)
    BY DEF MatchmakingInv
  <1>3. PICK p : p = scenario.program["main"]
    OBVIOUS
  <1>4. /\ Threads = {"main"} /\ Len(p) = 10 /\ scenario.strict = FALSE
        /\ p[1] = Do("admit", <<"lobby-alpha", <<"ada", "linus", "grace">>>>)
        /\ p[2] = Do("admit", <<"lobby-beta", <<"hedy", "alan">>>>)
        /\ p[3] = Do("mark_ready", "ada") /\ p[4] = Do("mark_ready", "hedy")
        /\ p[5] = Do("mark_ready", "alan") /\ p[6] = Do("release", <<>>)
        /\ p[7] = Do("group_of", "ada") /\ p[8] = Do("mark_ready", "linus")
        /\ p[9] = Do("mark_ready", "grace") /\ p[10] = Do("release", <<>>)
    BY <1>3, MatchmakingProgram DEF Threads
  <1>5. t = "main" /\ "main" \in Threads /\ Turn("main")
    BY <1>4
  <1>6. PICK k \in 1..10 : k = at["main"]
    BY <1>3, <1>4, <1>5, TurnAt
  <1>7. Statement("main") = p[k]
    BY <1>3, <1>6 DEF Statement
  <1>8. \/ k = 1 \/ k = 2 \/ k = 6 \/ k = 7 \/ k = 10
        \/ k \in 3..5 \/ k \in 8..9
    OBVIOUS
  <1>9. ASSUME Goes, Pair("lobby-alpha", Alpha, "lobby-beta", Beta)', k \in 2..5
        PROVE  MatchmakingInv'
    <2>1. claims["main"] = <<>>
      BY <1>2, <1>6, <1>9
    <2>2. /\ at'["main"] = k + 1 /\ k + 1 \in 3..6 /\ failed' = failed
          /\ claims' = claims /\ SoFar'
      BY <1>6, <1>9 DEF Goes, Moves
    <2> QED
      BY <1>2, <1>9, <2>1, <2>2 DEF MatchmakingInv
  <1>10. CASE k = 1
    <2>1. PICK list : list = <<"ada", "linus", "grace">>
      OBVIOUS
    <2>2. list # <<>> /\ IsInjective(list) /\ Range(list) = Alpha
      BY <2>1 DEF IsInjective, Range, Alpha
    <2>3. Goes /\ Alone("lobby-alpha", 1, Alpha)' /\ DOMAIN group' = {1}
      <3>1. /\ Statement("main") = Do("admit", <<"lobby-alpha", list>>)
            /\ DOMAIN group = {} /\ at["main"] = 1
        BY <1>2, <1>4, <1>6, <1>7, <1>10, <2>1
      <3>2. Goes /\ Alone("lobby-alpha", 1, Range(list))' /\ DOMAIN group' = {1}
        BY <1>2, <1>5, <2>2, <3>1, FirstComes
      <3> QED
        BY <2>2, <3>2
    <2>4. at'["main"] = 2 /\ failed' = failed /\ claims' = claims /\ SoFar'
      <3>1. at["main"] + 1 = 2
        BY <1>6, <1>10
      <3> QED
        BY <2>3, <3>1 DEF Goes, Moves
    <2>5. claims["main"] = <<>>
      BY <1>2, <1>6, <1>10
    <2> QED
      BY <1>2, <2>3, <2>4, <2>5 DEF MatchmakingInv
  <1>11. CASE k = 2
    <2>1. PICK list : list = <<"hedy", "alan">>
      OBVIOUS
    <2>2. /\ list # <<>> /\ IsInjective(list) /\ Range(list) = Beta
          /\ Range(list) \cap Alpha = {}
      BY <2>1 DEF IsInjective, Range, Alpha, Beta
    <2>3. Goes /\ Pair("lobby-alpha", Alpha, "lobby-beta", Range(list))'
      <3>1. /\ Statement("main") = Do("admit", <<"lobby-beta", list>>)
            /\ Alone("lobby-alpha", 1, Alpha) /\ DOMAIN group = {1} /\ at["main"] = 2
        BY <1>2, <1>4, <1>6, <1>7, <1>11, <2>1
      <3>2. scenario.program["main"][1].op = "admit"
        BY <1>3, <1>4 DEF Do
      <3> QED
        BY <1>2, <1>5, <2>2, <3>1, <3>2, SecondComes
    <2> QED
      BY <1>9, <1>11, <2>2, <2>3
  <1>12. CASE k \in 3..5
    <2>1. PICK m \in Alpha \cup Beta : p[k] = Do("mark_ready", m)
      <3>1. k = 3 \/ k = 4 \/ k = 5
        BY <1>12
      <3> QED
        BY <1>4, <3>1 DEF Alpha, Beta
    <2>2. Pair("lobby-alpha", Alpha, "lobby-beta", Beta)
      BY <1>2, <1>6, <1>12
    <2>3. Goes /\ Pair("lobby-alpha", Alpha, "lobby-beta", Beta)'
      BY <1>2, <1>5, <1>7, <2>1, <2>2, PairCalled
    <2> QED
      BY <1>9, <1>12, <2>3
  <1>13. CASE k = 6
    <2>1. Pair("lobby-alpha", Alpha, "lobby-beta", Beta) /\ claims["main"] = <<>>
      BY <1>2, <1>6, <1>13
    <2>2. \A i : i \in 1..(at["main"] - 1) <=> i \in 1..5
      BY <1>6, <1>13
    <2>3. Beta \subseteq Called
      <3>1. Beta \subseteq People
        BY Vocabulary DEF Names, Beta
      <3>2. \A m \in Beta : \E i \in 1..5 : p[i] = Do("mark_ready", m)
        BY <1>4 DEF Beta
      <3> QED
        BY <1>3, <2>2, <3>1, <3>2 DEF Called
    <2>4. ~ (Alpha \subseteq Called)
      <3>1. "linus" \in Alpha
        BY DEF Alpha
      <3>2. \A i \in 1..5 : i = 1 \/ i = 2 \/ i = 3 \/ i = 4 \/ i = 5
        OBVIOUS
      <3>3. /\ p[1].op = "admit" /\ p[2].op = "admit" /\ p[3].arg = "ada"
            /\ p[4].arg = "hedy" /\ p[5].arg = "alan"
        BY <1>4 DEF Do
      <3>4. \A i \in 1..5 : p[i].op = "admit" \/ p[i].arg # "linus"
        BY <3>2, <3>3
      <3>5. \A i \in 1..5 : p[i] # Do("mark_ready", "linus")
        BY <3>4 DEF Do
      <3> QED
        BY <1>3, <2>2, <3>1, <3>5 DEF Called
    <2>5. MayLeave = {2} /\ Waiting = {1, 2}
      <3>1. Waiting = {1, 2} /\ ~ Full(1) /\ Full(2)
        BY <1>2, <2>1, <2>3, <2>4, PairFull
      <3> QED
        BY <1>4, <3>1 DEF MayLeave
    <2>6. Moves("main", at["main"] + 1) /\ Hands("main", 2)
      <3>1. Statement("main") = Do("release", <<>>)
        BY <1>4, <1>7, <1>13
      <3> QED
        BY <1>5, <2>5, <3>1, ReleaseTurn DEF Hands
    <2>7. Alone("lobby-alpha", 1, Alpha)'
      <3>1. /\ DOMAIN groups = {"lobby-alpha", "lobby-beta"} /\ groups["lobby-alpha"] = 1
            /\ groups["lobby-beta"] = 2
            /\ DOMAIN group = {1, 2} /\ group[1].members = Alpha
        BY <2>1 DEF Pair
      <3>2. /\ DOMAIN group' = DOMAIN group /\ group'[1].members = group[1].members
            /\ DOMAIN groups' \subseteq DOMAIN groups
            /\ \A id \in DOMAIN groups : id \notin DOMAIN groups' <=> groups[id] = 2
            /\ \A id \in DOMAIN groups' : groups'[id] = groups[id]
        BY <2>6, <3>1 DEF Hands, Leaves
      <3>3. "lobby-alpha" \in DOMAIN groups' /\ "lobby-beta" \notin DOMAIN groups'
        BY <3>1, <3>2
      <3>4. DOMAIN groups' = {"lobby-alpha"} /\ groups'["lobby-alpha"] = 1
        BY <3>1, <3>2, <3>3
      <3> QED
        BY <3>1, <3>2, <3>4 DEF Alone
    <2>8. claims'["main"] = <<2>>
      <3>1. claims'["main"] = <<>> \o <<2>>
        BY <1>5, <2>1, <2>6 DEF Hands, CInv
      <3> QED
        BY <3>1, OneAndOne
    <2>9. at'["main"] = 7 /\ failed' = failed
      <3>1. at["main"] + 1 = 7
        BY <1>6, <1>13
      <3> QED
        BY <2>6, <3>1 DEF Moves
    <2>10. SoFar'
      <3>1. Statement("main").op # "mark_ready"
        BY <1>4, <1>7, <1>13 DEF Do
      <3>2. \E hs : Leaves(hs)
        BY <2>6 DEF Hands
      <3> QED
        BY <1>2, <1>5, <2>6, <3>1, <3>2, SoFarStays
    <2>11. claims'["main"] = IF at'["main"] = 11 THEN <<2, 1>>
                               ELSE IF at'["main"] > 6 THEN <<2>> ELSE <<>>
      BY <2>8, <2>9
    <2>12. /\ at'["main"] \in 1..11 /\ at'["main"] # 1 /\ at'["main"] # 2 /\ at'["main"] # 11
           /\ at'["main"] \notin 3..6
      BY <2>9
    <2>13. failed' = {}
      BY <1>2, <2>9
    <2> QED
      BY <2>7, <2>10, <2>11, <2>12, <2>13 DEF MatchmakingInv
  <1>14. CASE k \in 7..9
    <2>1. Alone("lobby-alpha", 1, Alpha) /\ claims["main"] = <<2>>
      BY <1>2, <1>6, <1>14
    <2>2. Goes /\ Alone("lobby-alpha", 1, Alpha)'
      <3>1. CASE k = 7
        <4>1. Statement("main") = Do("group_of", "ada")
          BY <1>4, <1>7, <3>1
        <4>2. "lobby-alpha" \in DOMAIN groups /\ "ada" \in group[groups["lobby-alpha"]].members
          BY <2>1 DEF Alone, Alpha
        <4>3. Goes /\ Rests
          BY <1>2, <1>5, <4>1, <4>2, Looks
        <4> QED
          BY <2>1, <4>3, AloneRests
      <3>2. ASSUME NEW m \in Alpha, p[k] = Do("mark_ready", m)
            PROVE  Goes /\ Alone("lobby-alpha", 1, Alpha)'
        BY <1>2, <1>5, <1>7, <2>1, <3>2, AloneCalled
      <3>3. CASE k = 8 \/ k = 9
        BY <1>4, <3>2, <3>3 DEF Alpha
      <3> QED
        BY <1>14, <3>1, <3>3
    <2>3. /\ at'["main"] = k + 1 /\ k + 1 \in 8..10 /\ failed' = failed
          /\ claims' = claims /\ SoFar'
      BY <1>6, <1>14, <2>2 DEF Goes, Moves
    <2>4. claims'["main"] = IF at'["main"] = 11 THEN <<2, 1>>
                               ELSE IF at'["main"] > 6 THEN <<2>> ELSE <<>>
      BY <2>1, <2>3
    <2>5. /\ at'["main"] \in 1..11 /\ at'["main"] # 1 /\ at'["main"] # 2 /\ at'["main"] # 11
          /\ at'["main"] \notin 3..6
      BY <2>3
    <2>6. failed' = {}
      BY <1>2, <2>3
    <2> QED
      BY <2>2, <2>3, <2>4, <2>5, <2>6 DEF MatchmakingInv
  <1>15. CASE k = 10
    <2>1. Alone("lobby-alpha", 1, Alpha) /\ claims["main"] = <<2>>
      BY <1>2, <1>6, <1>15
    <2>2. Statement("main") = Do("release", <<>>)
      BY <1>4, <1>7, <1>15
    <2>3. Alpha \subseteq group[1].ready
      <3>1. Alpha \subseteq Called
        <4>1. Alpha \subseteq People
          BY Vocabulary DEF Names, Alpha
        <4>2. \A i : i \in 1..(at["main"] - 1) <=> i \in 1..9
          BY <1>6, <1>15
        <4>3. \A m \in Alpha : \E i \in 1..9 : p[i] = Do("mark_ready", m)
          BY <1>4 DEF Alpha
        <4> QED
          BY <1>3, <4>1, <4>2, <4>3 DEF Called
      <3>2. 1 \in Waiting /\ group[1].members = Alpha
        BY <2>1, NoTrace DEF Alone
      <3> QED
        BY <1>2, <3>1, <3>2 DEF SoFar
    <2>4. /\ DOMAIN groups' = {} /\ claims'["main"] = <<2>> \o <<1>>
          /\ Moves("main", at["main"] + 1)
      BY <1>5, <2>1, <2>2, <2>3, AloneLeaves
    <2>5. claims'["main"] = <<2, 1>>
      BY <2>4, OneAndOne
    <2>6. at'["main"] = 11 /\ failed' = failed
      <3>1. at["main"] + 1 = 11
        BY <1>6, <1>15
      <3> QED
        BY <2>4, <3>1 DEF Moves
    <2>7. SoFar'
      <3>1. Waiting' = {}
        BY <2>4 DEF Waiting, Range
      <3> QED
        BY <3>1 DEF SoFar
    <2>8. claims'["main"] = IF at'["main"] = 11 THEN <<2, 1>>
                               ELSE IF at'["main"] > 6 THEN <<2>> ELSE <<>>
      BY <2>5, <2>6
    <2>9. /\ at'["main"] \in 1..11 /\ at'["main"] # 1 /\ at'["main"] # 2
          /\ at'["main"] \notin 3..6 /\ at'["main"] \notin 7..10
      BY <2>6
    <2>10. failed' = {}
      BY <1>2, <2>6
    <2> QED
      BY <2>4, <2>7, <2>8, <2>9, <2>10 DEF MatchmakingInv
  <1>16. k \in 7..9 \/ k \in 1..6 \/ k = 10
    OBVIOUS
  <1> QED
    BY <1>8, <1>10, <1>11, <1>12, <1>13, <1>14, <1>15, <1>16
-----------------------------------------------------------------------------
\* The guarded shifts: the second is refused, since one of its members is in the first.
GuardedInv ==
  scenario = Guarded =>
    /\ failed = {} /\ claims["main"] = <<>> /\ at["main"] \in 1..4
    /\ at["main"] = 1 => DOMAIN group = {}
    /\ at["main"] > 1 => Alone("shift-a", 1, {"nurse-1", "nurse-2"})

\* Every statement keeps this.
LEMMA GuardedKept ==
  ASSUME CInv, GuardedInv, NEW t \in Threads, Turn(t)
  PROVE  GuardedInv'
  <1>1. scenario' = scenario /\ Threads' = Threads
    BY TurnAt
  <1> SUFFICES ASSUME scenario = Guarded
               PROVE  GuardedInv'
    BY <1>1 DEF GuardedInv
  <1>2. /\ failed = {} /\ claims["main"] = <<>> /\ at["main"] \in 1..4
        /\ at["main"] = 1 => DOMAIN group = {}
        /\ at["main"] > 1 => Alone("shift-a", 1, {"nurse-1", "nurse-2"})
    BY DEF GuardedInv
  <1>3. PICK p : p = scenario.program["main"]
    OBVIOUS
  <1>4. /\ Threads = {"main"} /\ Len(p) = 3
        /\ p[1] = Do("admit", <<"shift-a", <<"nurse-1", "nurse-2">>>>)
        /\ p[2] = Try("admit", <<"shift-b", <<"nurse-2", "nurse-3">>>>)
        /\ p[3] = Do("group_of", "nurse-2")
    BY <1>3, GuardedProgram DEF Threads
  <1>5. t = "main" /\ "main" \in Threads /\ Turn("main")
    BY <1>4
  <1>6. PICK k \in 1..3 : k = at["main"]
    BY <1>3, <1>4, <1>5, TurnAt
  <1>7. Statement("main") = p[k]
    BY <1>3, <1>6 DEF Statement
  <1>8. ASSUME Alone("shift-a", 1, {"nurse-1", "nurse-2"})', Moves("main", at["main"] + 1),
               claims' = claims
        PROVE  GuardedInv'
    <2>1. at'["main"] = k + 1 /\ k + 1 \in 2..4 /\ failed' = failed
      BY <1>6, <1>8 DEF Moves
    <2> QED
      BY <1>2, <1>8, <2>1 DEF GuardedInv
  <1>9. CASE k = 1
    <2>1. PICK list : list = <<"nurse-1", "nurse-2">>
      OBVIOUS
    <2>2. list # <<>> /\ IsInjective(list) /\ Range(list) = {"nurse-1", "nurse-2"}
      BY <2>1 DEF IsInjective, Range
    <2>3. Statement("main") = Do("admit", <<"shift-a", list>>) /\ DOMAIN group = {}
      BY <1>2, <1>4, <1>6, <1>7, <1>9, <2>1
    <2>4. /\ Alone("shift-a", 1, Range(list))' /\ Moves("main", at["main"] + 1)
          /\ claims' = claims
      BY <1>5, <2>2, <2>3, AloneComes
    <2> QED
      BY <1>8, <2>2, <2>4
  <1>10. CASE k \in 2..3
    <2>1. Alone("shift-a", 1, {"nurse-1", "nurse-2"})
      BY <1>2, <1>6, <1>10
    <2>2. "nurse-2" \in DOMAIN member_index
      <3>1. "shift-a" \in DOMAIN groups /\ "nurse-2" \in group[groups["shift-a"]].members
        BY <2>1 DEF Alone
      <3> QED
        BY <3>1, IndexFacts DEF CInv
    <2>3. Rests /\ Moves("main", at["main"] + 1) /\ claims' = claims
      <3>1. CASE k = 2
        <4>1. PICK list : list = <<"nurse-2", "nurse-3">>
          OBVIOUS
        <4>2. "nurse-2" \in Range(list)
          BY <4>1 DEF Range
        <4>3. Statement("main") = Try("admit", <<"shift-b", list>>)
          BY <1>4, <1>7, <3>1, <4>1
        <4>4. Statement("main") \in {Do("admit", <<"shift-b", list>>),
                                     Try("admit", <<"shift-b", list>>)}
          BY <4>3
        <4>5. ~ Comes("shift-b", list)
          BY <2>2, <4>2 DEF Comes
        <4> QED
          BY <1>5, <4>3, <4>4, <4>5, AdmitTurn
      <3>2. CASE k = 3
        BY <1>4, <1>5, <1>7, <2>2, <3>2, LookTurn
      <3> QED
        BY <1>10, <3>1, <3>2
    <2>4. Alone("shift-a", 1, {"nurse-1", "nurse-2"})'
      BY <2>1, <2>3, AloneRests
    <2> QED
      BY <1>8, <2>3, <2>4
  <1>11. k = 1 \/ k \in 2..3
    OBVIOUS
  <1> QED
    BY <1>9, <1>10, <1>11
-----------------------------------------------------------------------------
\* What each program counts on between two calls.
EndsInv ==
  /\ RestaurantInv /\ MatchmakingInv /\ BatchesInv /\ FanOutInv /\ GuardedInv
  /\ HalvesInv /\ DrainsInv /\ SameIdInv /\ ProducersInv /\ CancelReleaseInv

\* Every program counts on this from its first statement.
LEMMA InitEnds == Init => EndsInv
  <1> SUFFICES ASSUME Init
               PROVE  EndsInv
    OBVIOUS
  <1>1. /\ DOMAIN group = {} /\ DOMAIN groups = {} /\ failed = {} /\ noted = {}
        /\ at["main"] = 1 /\ claims["main"] = <<>>
        /\ \A t \in Threads : t # "main" => at[t] = 0
    BY StartOfAll
  <1>2. Waiting = {}
    BY <1>1 DEF Waiting, Range
  <1>3. SoFar
    BY <1>2 DEF SoFar
  <1>4. RestaurantInv /\ MatchmakingInv /\ GuardedInv
    BY <1>1, <1>3 DEF RestaurantInv, MatchmakingInv, GuardedInv
  <1>5. BatchesInv
    BY <1>1, <1>3 DEF BatchesInv
  <1>6. FanOutInv
    <2> SUFFICES ASSUME scenario = FanOut
                 PROVE  FanOutInv
      BY DEF FanOutInv
    <2>1. DOMAIN Nth = {"profile", "orders", "recommendations"}
      BY DEF Nth
    <2>2. \A w \in DOMAIN Nth : at[w] = 0
      BY <1>1, <2>1, FanOutProgram DEF Threads
    <2>3. \A w \in DOMAIN Nth : Nth[w] \in 1..3
      BY DEF Nth
    <2>4. \A w \in DOMAIN Nth : Part(w)
      BY <1>1, <2>2, <2>3 DEF Part
    <2> QED
      BY <1>1, <2>4 DEF FanOutInv
  <1>7. HalvesInv
    <2> SUFFICES ASSUME scenario = Halves
                 PROVE  HalvesInv
      BY DEF HalvesInv
    <2>1. at["up"] = 0 /\ at["down"] = 0
      BY <1>1, HalvesProgram DEF Threads
    <2> QED
      BY <1>1, <2>1 DEF HalvesInv
  <1>8. NumbersMarked("main") /\ NumbersMarked("producer")
    BY <1>1 DEF NumbersMarked
  <1>9. DrainsInv
    <2> SUFFICES ASSUME scenario \in {Drains(TRUE), Drains(FALSE)}
                 PROVE  DrainsInv
      BY DEF DrainsInv
    <2>1. PICK strict \in BOOLEAN : scenario = Drains(strict)
      OBVIOUS
    <2>2. at["one"] = 0 /\ at["two"] = 0
      BY <1>1, <2>1, DrainsProgram DEF Threads
    <2> QED
      BY <1>1, <1>8, <2>2 DEF DrainsInv, Drainer
  <1>10. SameIdInv
    <2> SUFFICES ASSUME scenario = SameId
                 PROVE  SameIdInv
      BY DEF SameIdInv
    <2>1. at["one"] = 0 /\ at["two"] = 0 /\ at["three"] = 0
      BY <1>1, SameIdProgram DEF Threads
    <2> QED
      BY <1>1, <2>1 DEF SameIdInv, Applicant
  <1>11. ProducersInv
    <2> SUFFICES ASSUME scenario = ProducersConsumers
                 PROVE  ProducersInv
      BY DEF ProducersInv
    <2>1. at["one"] = 0 /\ at["two"] = 0 /\ at["producer"] = 0
      BY <1>1, ProducersConsumersProgram DEF Threads
    <2> QED
      BY <1>1, <1>8, <2>1 DEF ProducersInv, Consumer
  <1>12. CancelReleaseInv
    <2> SUFFICES ASSUME scenario = CancelRelease
                 PROVE  CancelReleaseInv
      BY DEF CancelReleaseInv
    <2>1. at["releaser"] = 0
      BY <1>1, CancelReleaseProgram DEF Threads
    <2> QED
      BY <1>1, <1>8, <2>1 DEF CancelReleaseInv
  <1> QED
    BY <1>4, <1>5, <1>6, <1>7, <1>9, <1>10, <1>11, <1>12 DEF EndsInv

\* Every step keeps it.
LEMMA EndsKept ==
  ASSUME CInv, EndsInv, [Next]_vars
  PROVE  EndsInv'
  <1>1. ASSUME NEW t \in Threads, Turn(t)
        PROVE  EndsInv'
    <2>1. RestaurantInv' /\ MatchmakingInv' /\ BatchesInv' /\ GuardedInv'
      BY <1>1, RestaurantKept, MatchmakingKept, BatchesKept, GuardedKept DEF EndsInv
    <2>2. FanOutInv' /\ HalvesInv' /\ DrainsInv'
      BY <1>1, FanOutKept, HalvesKept, DrainsKept DEF EndsInv
    <2>3. SameIdInv' /\ ProducersInv' /\ CancelReleaseInv'
      BY <1>1, SameIdKept, ProducersKept, CancelReleaseKept DEF EndsInv
    <2> QED
      BY <2>1, <2>2, <2>3 DEF EndsInv
  <1>2. CASE UNCHANGED vars
    <2>1. UNCHANGED <<group, groups, scenario, at, failed, noted, claims>>
      BY <1>2 DEF vars, queue
    <2>2. SoFar' = SoFar
      BY <2>1 DEF SoFar, Called, Waiting
    <2>3. /\ RestaurantInv' = RestaurantInv /\ MatchmakingInv' = MatchmakingInv
          /\ BatchesInv' = BatchesInv /\ GuardedInv' = GuardedInv
      BY <2>1, <2>2 DEF RestaurantInv, MatchmakingInv, BatchesInv, GuardedInv, Alone, Pair
    <2>4. FanOutInv' = FanOutInv /\ HalvesInv' = HalvesInv
      BY <2>1 DEF FanOutInv, HalvesInv, Alone, Part, PartReady, Marker
    <2>5. NumbersMarked("main")' = NumbersMarked("main")
      BY <2>1 DEF NumbersMarked, IsMarked, Full
    <2>6. NumbersMarked("producer")' = NumbersMarked("producer")
      BY <2>1 DEF NumbersMarked, IsMarked, Full
    <2>7. /\ DrainsInv' = DrainsInv /\ SameIdInv' = SameIdInv
          /\ ProducersInv' = ProducersInv /\ CancelReleaseInv' = CancelReleaseInv
      BY <2>1, <2>5, <2>6
         DEF DrainsInv, SameIdInv, ProducersInv, CancelReleaseInv, Drainer, Applicant, Consumer
    <2> QED
      BY <2>3, <2>4, <2>7 DEF EndsInv
  <1> QED
    BY <1>1, <1>2 DEF Next, Terminating

\* What the programs of one thread have at their end.
LEMMA SequentialEnds ==
  ASSUME CInv, EndsInv, AllOver,
         scenario \in {Restaurant, Matchmaking, Batches, Guarded}
  PROVE  DOMAIN groups = scenario.left /\ claims["main"] = scenario.taken
  <1>1. "main" \in Threads => "main" \in failed \/ at["main"] > Len(scenario.program["main"])
    BY DEF AllOver, Over, Finished
  <1>2. CASE scenario = Restaurant
    <2>1. /\ "main" \in Threads /\ Len(scenario.program["main"]) = 10
          /\ scenario.left = {} /\ scenario.taken = <<1, 2>>
      BY <1>2, RestaurantProgram DEF Threads
    <2>2. failed = {} /\ at["main"] \in 1..11
      BY <1>2 DEF EndsInv, RestaurantInv
    <2>3. at["main"] = 11
      BY <1>1, <2>1, <2>2
    <2> QED
      BY <1>2, <2>1, <2>3 DEF EndsInv, RestaurantInv
  <1>3. CASE scenario = Matchmaking
    <2>1. /\ "main" \in Threads /\ Len(scenario.program["main"]) = 10
          /\ scenario.left = {} /\ scenario.taken = <<2, 1>>
      BY <1>3, MatchmakingProgram DEF Threads
    <2>2. failed = {} /\ at["main"] \in 1..11
      BY <1>3 DEF EndsInv, MatchmakingInv
    <2>3. at["main"] = 11
      BY <1>1, <2>1, <2>2
    <2> QED
      BY <1>3, <2>1, <2>3 DEF EndsInv, MatchmakingInv
  <1>4. CASE scenario = Batches
    <2>1. /\ "main" \in Threads /\ Len(scenario.program["main"]) = 9
          /\ scenario.left = {} /\ scenario.taken = <<1, 2>>
      BY <1>4, BatchesProgram DEF Threads
    <2>2. failed = {} /\ at["main"] \in 1..10
      BY <1>4 DEF EndsInv, BatchesInv
    <2>3. at["main"] = 10
      BY <1>1, <2>1, <2>2
    <2> QED
      BY <1>4, <2>1, <2>3 DEF EndsInv, BatchesInv
  <1>5. CASE scenario = Guarded
    <2>1. /\ "main" \in Threads /\ Len(scenario.program["main"]) = 3
          /\ scenario.left = {"shift-a"} /\ scenario.taken = <<>>
      BY <1>5, GuardedProgram DEF Threads
    <2>2. failed = {} /\ at["main"] \in 1..4
      BY <1>5 DEF EndsInv, GuardedInv
    <2>3. at["main"] > 1
      BY <1>1, <2>1, <2>2
    <2> QED
      BY <1>5, <2>1, <2>3 DEF EndsInv, GuardedInv, Alone
  <1> QED
    BY <1>2, <1>3, <1>4, <1>5

\* What the programs of several threads have at their end.
LEMMA ConcurrentEnds ==
  ASSUME CInv, EndsInv, AllOver,
         scenario \in {FanOut, Halves, Drains(TRUE), Drains(FALSE), SameId, ProducersConsumers,
                       CancelRelease}
  PROVE  DOMAIN groups = scenario.left /\ claims["main"] = scenario.taken
  <1>1. \A t \in Threads : t \in failed \/ at[t] > Len(scenario.program[t])
    BY DEF AllOver, Over, Finished
  <1>2. CASE scenario = FanOut
    <2>1. /\ "main" \in Threads /\ Len(scenario.program["main"]) = 9
          /\ scenario.left = {} /\ scenario.taken = <<1>>
      BY <1>2, FanOutProgram DEF Threads
    <2>2. failed = {} /\ at["main"] \in 1..10
      BY <1>2 DEF EndsInv, FanOutInv
    <2>3. at["main"] >= 9
      <3>1. "main" \in failed \/ at["main"] > 9
        BY <1>1, <2>1
      <3> QED
        BY <2>2, <3>1
    <2> QED
      BY <1>2, <2>1, <2>3 DEF EndsInv, FanOutInv
  <1>3. CASE scenario = Halves
    <2>1. /\ "main" \in Threads /\ Len(scenario.program["main"]) = 6
          /\ scenario.left = {} /\ scenario.taken = <<1>>
      BY <1>3, HalvesProgram DEF Threads
    <2>2. failed = {} /\ at["main"] \in 1..7
      BY <1>3 DEF EndsInv, HalvesInv
    <2>3. at["main"] = 7
      <3>1. "main" \in failed \/ at["main"] > 6
        BY <1>1, <2>1
      <3> QED
        BY <2>2, <3>1
    <2> QED
      BY <1>3, <2>1, <2>3 DEF EndsInv, HalvesInv
  <1>4. CASE scenario \in {Drains(TRUE), Drains(FALSE)}
    <2>1. PICK strict \in BOOLEAN : scenario = Drains(strict)
      BY <1>4
    <2>2. /\ "one" \in Threads /\ Len(scenario.program["one"]) = 1
          /\ scenario.left = {} /\ scenario.taken = <<>>
      BY <2>1, DrainsProgram DEF Threads
    <2>3. Drainer("one") /\ claims["main"] = <<>>
      BY <1>4 DEF EndsInv, DrainsInv
    <2>4. DOMAIN groups = {}
      <3>1. "one" \in failed \/ at["one"] > 1
        BY <1>1, <2>2
      <3> QED
        BY <2>3, <3>1 DEF Drainer
    <2> QED
      BY <2>2, <2>3, <2>4
  <1>5. CASE scenario = SameId
    <2>1. /\ "one" \in Threads /\ Len(scenario.program["one"]) = 1
          /\ scenario.left = {"same"} /\ scenario.taken = <<>>
      BY <1>5, SameIdProgram DEF Threads
    <2>2. Applicant("one") /\ claims["main"] = <<>> /\ DOMAIN groups \subseteq {"same"}
      BY <1>5 DEF EndsInv, SameIdInv
    <2>3. "same" \in DOMAIN groups
      <3>1. "one" \in failed \/ at["one"] > 1
        BY <1>1, <2>1
      <3> QED
        BY <2>2, <3>1 DEF Applicant
    <2> QED
      BY <2>1, <2>2, <2>3
  <1>6. CASE scenario = ProducersConsumers
    <2>1. /\ "one" \in Threads /\ Len(scenario.program["one"]) = 2
          /\ scenario.left = {} /\ scenario.taken = <<>>
      BY <1>6, ProducersConsumersProgram DEF Threads
    <2>2. Consumer("one") /\ claims["main"] = <<>>
      BY <1>6 DEF EndsInv, ProducersInv
    <2>3. DOMAIN groups = {}
      <3>1. "one" \in failed \/ at["one"] > 2
        BY <1>1, <2>1
      <3> QED
        BY <2>2, <3>1 DEF Consumer
    <2> QED
      BY <2>1, <2>2, <2>3
  <1>7. CASE scenario = CancelRelease
    <2>1. /\ "releaser" \in Threads /\ Len(scenario.program["releaser"]) = 3
          /\ scenario.left = {} /\ scenario.taken = <<>>
      BY <1>7, CancelReleaseProgram DEF Threads
    <2>2. /\ "releaser" \notin failed /\ at["releaser"] \in 0..4 /\ claims["main"] = <<>>
          /\ at["releaser"] = 4 => DOMAIN groups = {}
      BY <1>7 DEF EndsInv, CancelReleaseInv
    <2>3. DOMAIN groups = {}
      <3>1. "releaser" \in failed \/ at["releaser"] > 3
        BY <1>1, <2>1
      <3> QED
        BY <2>2, <3>1
    <2> QED
      BY <2>1, <2>2, <2>3
  <1> QED
    BY <1>2, <1>3, <1>4, <1>5, <1>6, <1>7

\* The queue that a program leaves has no trace of the groups that left: nothing ready is
\* kept where the policy is strict, nor where nothing waits.
LEMMA ReadyEnds ==
  ASSUME CInv, DOMAIN groups = scenario.left
  PROVE  ready_groups = <<>>
  <1>1. scenario \in Scenarios
    BY DEF CInv
  <1>2. scenario.strict \/ scenario.left = {}
    <2>1. \A strict \in BOOLEAN : Drains(strict).left = {}
      BY DrainsProgram
    <2>2. /\ Restaurant.left = {} /\ Matchmaking.left = {} /\ Batches.left = {}
          /\ FanOut.left = {} /\ Guarded.strict /\ Halves.left = {} /\ SameId.strict
          /\ ProducersConsumers.left = {} /\ CancelRelease.left = {}
      BY RestaurantProgram, MatchmakingProgram, BatchesProgram, FanOutProgram, GuardedProgram,
         HalvesProgram, SameIdProgram, ProducersConsumersProgram, CancelReleaseProgram
    <2> QED
      BY <1>1, <2>1, <2>2 DEF Scenarios
  <1> QED
    BY <1>2, NoTrace

\* However the threads interleave and however many groups the tests use: when all threads
\* of a scenario of practical_usage.py or of a concurrent test are through, the queue holds
\* what it asserts or prints, with no trace of the groups that left, and the main thread
\* has been given the groups that it expects, in order.
THEOREM EndsAsTestedHolds == Spec => []EndsAsTested
  <1>1. CInv /\ EndsInv => EndsAsTested
    <2> SUFFICES ASSUME CInv, EndsInv, AllOver
                 PROVE  /\ DOMAIN groups = scenario.left /\ Range(member_index) = scenario.left
                        /\ ready_groups = <<>> /\ claims["main"] = scenario.taken
      BY DEF EndsAsTested
    <2>1. scenario \in Scenarios
      BY DEF CInv
    <2>2. DOMAIN groups = scenario.left /\ claims["main"] = scenario.taken
      BY <2>1, SequentialEnds, ConcurrentEnds DEF Scenarios
    <2>3. Range(member_index) = scenario.left
      BY <2>2, NoTrace
    <2>4. ready_groups = <<>>
      BY <2>2, ReadyEnds
    <2> QED
      BY <2>2, <2>3, <2>4
  <1>2. CInv /\ EndsInv /\ [Next]_vars => EndsInv'
    BY EndsKept
  <1>3. Spec => []EndsInv
    BY <1>2, InitEnds, ClientsConsistent, PTL DEF Spec
  <1> QED
    BY <1>1, <1>3, ClientsConsistent, PTL
=============================================================================
