-------------------------- MODULE ParallelSort_proofs --------------------------
(***************************************************************************)
(* The parallel sort is free of data races, leaves no thread behind and    *)
(* sorts, for a container of any size and any contents.                    *)
(***************************************************************************)
EXTENDS ParallelSort, FiniteSetTheorems, FunctionTheorems, WellFoundedInduction, TLAPS

\* The divide point is inside a range of two or more elements.
LEMMA MidFacts ==
  ASSUME NEW c \in Calls
  PROVE  /\ c[1] \in 0..N /\ c[2] \in 0..N /\ c[1] <= c[2] /\ c = <<c[1], c[2]>>
         /\ Size(c) \in Nat /\ Mid(c) \in Int
         /\ Size(c) > 1 => /\ c[1] < Mid(c) /\ Mid(c) < c[2]
                           /\ Left(c) \in Calls /\ Right(c) \in Calls
  <1>1. c[1] \in 0..N /\ c[2] \in 0..N /\ c[1] <= c[2] /\ c = <<c[1], c[2]>>
    BY SizeAssumption DEF Calls
  <1>2. \A n \in Nat : n > 1 => n \div 2 \in Nat /\ 0 < n \div 2 /\ n \div 2 < n
    OBVIOUS
  <1>3. Size(c) \in Nat /\ Mid(c) \in Int
    BY <1>1, SizeAssumption DEF Size, Mid
  <1>4. ASSUME Size(c) > 1 PROVE c[1] < Mid(c) /\ Mid(c) < c[2]
    <2>1. Size(c) \div 2 \in Nat /\ 0 < Size(c) \div 2 /\ Size(c) \div 2 < Size(c)
      BY <1>2, <1>3, <1>4
    <2>2. Size(c) = c[2] - c[1]
      BY DEF Size
    <2> HIDE DEF Size
    <2> QED
      BY <1>1, <2>1, <2>2, SizeAssumption DEF Mid
  <1>5. ASSUME Size(c) > 1 PROVE Left(c) \in Calls /\ Right(c) \in Calls
    BY <1>1, <1>3, <1>4, <1>5, SizeAssumption DEF Calls, Left, Right
  <1> QED
    BY <1>1, <1>3, <1>4, <1>5

-----------------------------------------------------------------------------
\* The points at which a call has handed out its left and its right half.
LeftGiven(c) == pc[c] \notin {"none", "called", "nth_element", "left"}
RightGiven(c) == pc[c] \in {"in_right", "join", "unwind"} \cup Over

Below(d, c) ==
  /\ Size(c) > 1
  /\ \/ LeftGiven(c) /\ c[1] <= d[1] /\ d[2] <= Mid(c)
     \/ RightGiven(c) /\ Mid(c) < d[1] /\ d[2] <= c[2]

Apart(c, d) == c[2] < d[1] \/ d[2] < c[1]

\* Two calls have nothing in common, or one is in a half the other has given.
TreeInv ==
  \A c, d \in Calls :
    Started(c) /\ Started(d) => c = d \/ Apart(c, d) \/ Below(c, d) \/ Below(d, c)

\* What a call has been told by its halves.
HalvesInv ==
  \A c \in Calls :
    /\ pc[c] = "in_left" => sorter # "multithreaded"
    /\ pc[c] \in {"join", "unwind", "failed"} => sorter = "multithreaded"
    /\ pc[c] \in {"right", "in_right"} =>
         sorter = "multithreaded" \/ pc[Left(c)] = "returned"
    /\ pc[c] = "join" => pc[Right(c)] = "returned"
    /\ pc[c] = "unwind" => pc[Right(c)] = "failed"

\* A call that fails fails for want of a thread.
FailInv ==
  (\E c \in Calls : pc[c] = "failed") =>
    \E c \in Calls : Size(c) > 1 /\ pc[c] = "failed" /\ pc[Left(c)] = "none"

\* The divide point stays between the halves.
PivotInv ==
  \A c \in Calls :
    Size(c) > 1 /\ pc[c] \notin {"none", "called", "nth_element"} =>
      \A i \in Elements(c) : /\ i < Mid(c) => data[i] <= data[Mid(c)]
                             /\ i > Mid(c) => data[Mid(c)] <= data[i]

SortedInv == \A c \in Calls : pc[c] = "returned" => Sorted(data, Elements(c))

CountInv == \A v : Count(data, Index, v) = Count(input, Index, v)

OutcomeInv ==
  /\ outcome # "logic_error"
  /\ outcome = "terminated" => \E c \in Calls : pc[c] = "failed"

CallsInv == TypeOK /\ TreeInv /\ HalvesInv /\ NoOrphans /\ FailInv /\ OutcomeInv
IndInv == CallsInv /\ PivotInv /\ SortedInv /\ CountInv

LEMMA InitIndInv == Init => IndInv
  <1> SUFFICES ASSUME Init PROVE IndInv
    OBVIOUS
  <1> USE DEF Init
  <1>1. \A c \in Calls : pc[c] \in {"none", "called"} /\ (pc[c] = "called" <=> c = Root)
    OBVIOUS
  <1>2. data \in [Index -> Int] /\ input \in Inputs
    BY InputsAssumption
  <1>3. TypeOK
    BY <1>1, <1>2 DEF TypeOK, Points, Started
  <1>4. TreeInv
    BY <1>1 DEF TreeInv, Started
  <1>5. HalvesInv /\ NoOrphans /\ FailInv /\ PivotInv /\ SortedInv
    BY <1>1 DEF HalvesInv, NoOrphans, FailInv, PivotInv, SortedInv, Over
  <1> QED
    BY <1>3, <1>4, <1>5 DEF IndInv, CallsInv, CountInv, OutcomeInv

-----------------------------------------------------------------------------
\* A call that is still to hand out a half has nothing running, nor over, there.
LEMMA FreshHalf ==
  ASSUME TypeOK, TreeInv, NoOrphans, NEW c \in Calls, NEW d \in Calls, Size(c) > 1,
         \/ pc[c] = "left" /\ d = Left(c)
         \/ pc[c] = "right" /\ d = Right(c)
  PROVE  /\ d # c /\ ~Started(d)
         /\ \A e \in Calls \ {c} : Started(e) => Apart(d, e) \/ Below(d, e)
         /\ \A e \in Calls \ {c} :
              Started(e) /\ e[1] <= d[1] /\ d[2] <= e[2] =>
                /\ pc[e] \notin Over
                /\ d # Left(e) \/ LeftGiven(e)
                /\ d # Right(e)
  <1>1. c[1] < Mid(c) /\ Mid(c) < c[2] /\ Mid(c) \in Int /\ d # c
        /\ c[1] \in 0..N /\ c[2] \in 0..N
    <2>1. c[1] < Mid(c) /\ Mid(c) < c[2] /\ Mid(c) \in Int /\ c[1] \in 0..N /\ c[2] \in 0..N
      BY MidFacts
    <2>2. d[1] # c[1] \/ d[2] # c[2]
      BY <2>1, SizeAssumption DEF Left, Right
    <2> QED
      BY <2>1, <2>2
  <1>2. ASSUME NEW e \in Calls, Started(e), e # c PROVE Apart(d, e) \/ Below(d, e)
    <2>1. Apart(c, e) \/ Below(c, e) \/ Below(e, c)
      BY <1>2 DEF TreeInv, Started
    <2>2. e[1] \in 0..N /\ e[2] \in 0..N /\ e[1] <= e[2] /\ Mid(e) \in Int
      BY MidFacts
    <2>3. CASE Apart(c, e)
      BY <1>1, <2>2, <2>3, SizeAssumption DEF Apart, Left, Right
    <2>4. CASE Below(c, e)
      BY <1>1, <2>2, <2>4, SizeAssumption DEF Below, Left, Right
    <2>5. CASE Below(e, c)
      BY <1>1, <2>2, <2>5, SizeAssumption DEF Below, Apart, Left, Right, LeftGiven, RightGiven, Over
    <2> QED
      BY <2>1, <2>3, <2>4, <2>5
  <1>3. ~Started(d)
    <2> SUFFICES ASSUME Started(d) PROVE FALSE
      OBVIOUS
    <2>1. Apart(d, d) \/ Below(d, d)
      BY <1>1, <1>2
    <2>2. d[1] \in 0..N /\ d[2] \in 0..N /\ d[1] <= d[2] /\ Mid(d) \in Int
          /\ (Size(d) > 1 => d[1] < Mid(d) /\ Mid(d) < d[2])
      BY MidFacts
    <2> QED
      BY <2>1, <2>2, SizeAssumption DEF Apart, Below
  <1>4. ASSUME NEW e \in Calls \ {c}, Started(e), e[1] <= d[1], d[2] <= e[2]
        PROVE  /\ pc[e] \notin Over
               /\ d # Left(e) \/ LeftGiven(e)
               /\ d # Right(e)
    <2>1. Apart(c, e) \/ Below(c, e) \/ Below(e, c)
      BY <1>4 DEF TreeInv, Started
    <2>2. /\ e[1] \in 0..N /\ e[2] \in 0..N /\ e[1] <= e[2] /\ Mid(e) \in Int
          /\ d[1] \in 0..N /\ d[2] \in 0..N /\ d[1] <= d[2]
          /\ Size(e) > 1 => e[1] < Mid(e) /\ Mid(e) < e[2]
      BY MidFacts
    <2>3. ~Apart(c, e)
      BY <1>1, <1>4, <2>2, SizeAssumption DEF Apart, Left, Right
    <2>4. ~Below(e, c)
      BY <1>1, <1>4, <2>2, SizeAssumption DEF Below, Left, Right, LeftGiven, RightGiven, Over
    <2>5. e[1] <= c[1] /\ c[2] <= e[2] /\ Live(c) /\ Below(c, e)
      BY <1>1, <2>1, <2>2, <2>3, <2>4, SizeAssumption DEF Below, Live, Started, Over
    <2>6. pc[e] \notin Over
      BY <2>5 DEF NoOrphans
    <2>7. d # Left(e) \/ LeftGiven(e)
      BY <1>1, <2>2, <2>5, SizeAssumption DEF Below, Left, Right
    <2>8. d # Right(e)
      BY <1>1, <2>2, <2>5, SizeAssumption DEF Below, Left, Right
    <2> QED
      BY <2>6, <2>7, <2>8
  <1> QED
    BY <1>1, <1>2, <1>3, <1>4

\* A step that moves call c from one point to another, both between "called" and
\* its end, keeps the tree of calls.
LEMMA TreeMove ==
  ASSUME TypeOK, TreeInv, NEW c \in Calls, NEW p \in Points \ {"none", "called"},
         Started(c),
         LeftGiven(c) => p \notin {"none", "called", "nth_element", "left"},
         RightGiven(c) => p \in {"in_right", "join", "unwind"} \cup Over,
         pc' = [pc EXCEPT ![c] = p]
  PROVE  TreeInv'
  <1>1. \A d \in Calls : pc'[d] = IF d = c THEN p ELSE pc[d]
    BY DEF TypeOK
  <1>2. \A d \in Calls : Started(d)' <=> Started(d)
    BY <1>1 DEF Started
  <1>3. \A d \in Calls : (LeftGiven(d) => LeftGiven(d)') /\ (RightGiven(d) => RightGiven(d)')
    BY <1>1 DEF LeftGiven, RightGiven
  <1>4. \A d, e \in Calls : Below(d, e) => Below(d, e)'
    BY <1>3 DEF Below
  <1> QED
    BY <1>2, <1>4 DEF TreeInv, Apart

\* The same when it also calls its left or its right half.
LEMMA TreeCall ==
  ASSUME TypeOK, TreeInv, NoOrphans, NEW c \in Calls, NEW d \in Calls, Size(c) > 1,
         NEW p \in {"in_left", "right", "in_right"},
         \/ pc[c] = "left" /\ d = Left(c)
         \/ pc[c] = "right" /\ d = Right(c) /\ p = "in_right",
         pc' = [pc EXCEPT ![c] = p, ![d] = "called"]
  PROVE  TreeInv'
  <1>1. d # c /\ ~Started(d) /\ \A e \in Calls \ {c} : Started(e) => Apart(d, e) \/ Below(d, e)
    BY FreshHalf
  <1>2. \A e \in Calls : pc'[e] = IF e = d THEN "called" ELSE IF e = c THEN p ELSE pc[e]
    BY <1>1 DEF TypeOK
  <1>3. \A e \in Calls : Started(e)' <=> Started(e) \/ e = d
    <2>1. Started(c) /\ p # "none"
      BY DEF Started
    <2>2. ASSUME NEW e \in Calls PROVE Started(e)' <=> Started(e) \/ e = d
      <3>1. CASE e = d
        <4>1. pc'[e] = "called"
          BY <3>1, <1>2
        <4> QED
          BY <3>1, <4>1 DEF Started
      <3>2. CASE e = c /\ e # d
        BY <3>2, <1>2, <2>1 DEF Started
      <3>3. CASE e # c /\ e # d
        BY <3>3, <1>2 DEF Started
      <3> QED
        BY <3>1, <3>2, <3>3
    <2> QED
      BY <2>2
  <1>4. \A e \in Calls : (LeftGiven(e) => LeftGiven(e)') /\ (RightGiven(e) => RightGiven(e)')
    <2> TAKE e \in Calls
    <2>1. CASE e = d
      BY <2>1, <1>1 DEF LeftGiven, RightGiven, Started, Over
    <2>2. CASE e # d
      BY <2>2, <1>2 DEF LeftGiven, RightGiven, Over
    <2> QED
      BY <2>1, <2>2
  <1>5. \A e, f \in Calls : Below(e, f) => Below(e, f)'
    BY <1>4 DEF Below
  <1>6. Below(d, c)'
    <2>1. c[1] < Mid(c) /\ Mid(c) < c[2] /\ Mid(c) \in Int /\ c[1] \in 0..N /\ c[2] \in 0..N
      BY MidFacts
    <2>2. \/ d[1] = c[1] /\ d[2] = Mid(c) /\ LeftGiven(c)'
          \/ d[1] = Mid(c) + 1 /\ d[2] = c[2] /\ RightGiven(c)'
      <3>1. pc'[c] = p
        BY <1>1, <1>2
      <3>2. CASE pc[c] = "left" /\ d = Left(c)
        BY <3>1, <3>2 DEF Left, LeftGiven
      <3>3. CASE pc[c] = "right" /\ d = Right(c) /\ p = "in_right"
        BY <3>1, <3>3 DEF Right, RightGiven
      <3> QED
        BY <3>2, <3>3
    <2> QED
      BY <2>1, <2>2, SizeAssumption DEF Below
  <1>7. \A e \in Calls : Started(e) => e = c \/ Apart(d, e) \/ Below(d, e)
    BY <1>1
  <1>8. \A e \in Calls : Started(e)' => d = e \/ Apart(d, e) \/ Below(d, e)'
    BY <1>3, <1>5, <1>6, <1>7
  <1>9. \A e, f \in Calls : Apart(e, f) <=> Apart(f, e)
    BY DEF Apart
  <1> SUFFICES ASSUME NEW e \in Calls, NEW f \in Calls, Started(e)', Started(f)'
               PROVE  e = f \/ Apart(e, f) \/ Below(e, f)' \/ Below(f, e)'
    BY DEF TreeInv, Apart
  <1>10. CASE e = d \/ f = d
    BY <1>8, <1>9, <1>10
  <1>11. CASE e # d /\ f # d
    BY <1>3, <1>5, <1>11 DEF TreeInv
  <1> QED
    BY <1>10, <1>11

\* What is started within the range of a call is below it.
LEMMA Inside ==
  ASSUME TreeInv, NEW c \in Calls, NEW d \in Calls, Started(c), Started(d),
         c[1] <= d[1], d[2] <= c[2], d # c
  PROVE  Below(d, c)
  <1>1. /\ c[1] \in 0..N /\ c[2] \in 0..N /\ c[1] <= c[2] /\ c = <<c[1], c[2]>>
        /\ d[1] \in 0..N /\ d[2] \in 0..N /\ d[1] <= d[2] /\ d = <<d[1], d[2]>>
        /\ Mid(d) \in Int /\ (Size(d) > 1 => d[1] < Mid(d) /\ Mid(d) < d[2])
    BY MidFacts
  <1>2. ~Apart(c, d) /\ ~Below(c, d)
    BY <1>1, SizeAssumption DEF Apart, Below
  <1> QED
    BY <1>2 DEF TreeInv

\* A call that goes on, without or with calling a half, leaves no orphans; nor
\* does one that ends when nothing below it is running.
LEMMA OrphansMove ==
  ASSUME TypeOK, TreeInv, NoOrphans, NEW c \in Calls, NEW p \in Points, Live(c),
         p \in Over => \A d \in Calls : Below(d, c) => ~Live(d),
         pc' = [pc EXCEPT ![c] = p]
  PROVE  NoOrphans'
  <1>1. \A d \in Calls : pc'[d] = IF d = c THEN p ELSE pc[d]
    BY DEF TypeOK
  <1>2. \A d \in Calls : Live(d)' => Live(d)
    BY <1>1 DEF Live, Started
  <1> SUFFICES ASSUME NEW e \in Calls, NEW d \in Calls, pc'[e] \in Over,
                      e[1] <= d[1], d[2] <= e[2], Live(d)'
               PROVE  FALSE
    BY DEF NoOrphans
  <1>3. CASE e # c
    BY <1>1, <1>2, <1>3 DEF NoOrphans
  <1>4. CASE e = c /\ d = c
    BY <1>1, <1>4 DEF Live, Started
  <1>5. CASE e = c /\ d # c
    BY <1>1, <1>2, <1>5, Inside DEF Live
  <1> QED
    BY <1>3, <1>4, <1>5

LEMMA OrphansCall ==
  ASSUME TypeOK, TreeInv, NoOrphans, NEW c \in Calls, NEW d \in Calls, Size(c) > 1,
         NEW p \in {"in_left", "right", "in_right"},
         \/ pc[c] = "left" /\ d = Left(c)
         \/ pc[c] = "right" /\ d = Right(c) /\ p = "in_right",
         pc' = [pc EXCEPT ![c] = p, ![d] = "called"]
  PROVE  NoOrphans'
  <1>1. /\ d # c /\ ~Started(d)
        /\ \A e \in Calls \ {c} : Started(e) /\ e[1] <= d[1] /\ d[2] <= e[2] => pc[e] \notin Over
    BY FreshHalf
  <1>2. \A e \in Calls : pc'[e] = IF e = d THEN "called" ELSE IF e = c THEN p ELSE pc[e]
    BY <1>1 DEF TypeOK
  <1> SUFFICES ASSUME NEW e \in Calls, NEW f \in Calls, pc'[e] \in Over,
                      e[1] <= f[1], f[2] <= e[2], Live(f)'
               PROVE  FALSE
    BY DEF NoOrphans
  <1>3. e # c /\ e # d /\ pc[e] \in Over
    <2>1. p \notin Over /\ "called" \notin Over
      BY DEF Over
    <2> QED
      BY <1>2, <2>1
  <1>4. CASE f = d
    BY <1>1, <1>3, <1>4 DEF Started, Over
  <1>5. CASE f = c
    <2>1. Live(c)
      BY DEF Live, Started, Over
    <2> QED
      BY <1>3, <1>5, <2>1 DEF NoOrphans
  <1>6. CASE f # c /\ f # d
    <2>1. Live(f)
      BY <1>2, <1>6 DEF Live, Started
    <2> QED
      BY <1>3, <2>1 DEF NoOrphans
  <1> QED
    BY <1>4, <1>5, <1>6

\* Nothing is running below a call whose halves are over.
LEMMA HalvesOver ==
  ASSUME TypeOK, NoOrphans, NEW c \in Calls, Size(c) > 1,
         pc[Left(c)] \in Over, pc[Right(c)] \in Over
  PROVE  \A d \in Calls : Below(d, c) => ~Live(d)
  <1>1. Left(c) \in Calls /\ Right(c) \in Calls /\ Mid(c) \in Int
        /\ Left(c)[1] = c[1] /\ Left(c)[2] = Mid(c)
        /\ Right(c)[1] = Mid(c) + 1 /\ Right(c)[2] = c[2]
    BY MidFacts DEF Left, Right
  <1> TAKE d \in Calls
  <1>2. d[1] \in 0..N /\ d[2] \in 0..N
    BY MidFacts
  <1>3. ASSUME c[1] <= d[1], d[2] <= Mid(c) PROVE ~Live(d)
    BY <1>1, <1>3 DEF NoOrphans
  <1>4. ASSUME Mid(c) < d[1], d[2] <= c[2] PROVE ~Live(d)
    <2>1. Mid(c) + 1 <= d[1]
      BY <1>1, <1>2, <1>4, SizeAssumption
    <2> QED
      BY <1>1, <1>4, <2>1 DEF NoOrphans
  <1> QED
    BY <1>3, <1>4 DEF Below

\* A step in which one live call goes on: the invariants about single calls and
\* their halves, where the new point agrees with what the halves have reached.
LEMMA MoveCalls ==
  ASSUME CallsInv, NEW c \in Calls, NEW p \in Points \ {"none", "called"}, Live(c),
         LeftGiven(c) => p \notin {"none", "called", "nth_element", "left"},
         RightGiven(c) => p \in {"in_right", "join", "unwind"} \cup Over,
         p \in Over => \A d \in Calls : Below(d, c) => ~Live(d),
         p # "returned" => Size(c) > 1,
         p \in {"in_left", "right", "in_right", "join", "unwind"} => Started(Left(c)),
         p \in {"in_right", "join", "unwind"} => Started(Right(c)),
         p = "in_left" => sorter # "multithreaded",
         p \in {"join", "unwind", "failed"} => sorter = "multithreaded",
         p \in {"right", "in_right"} => sorter = "multithreaded" \/ pc[Left(c)] = "returned",
         p = "join" => pc[Right(c)] = "returned",
         p = "unwind" => pc[Right(c)] = "failed",
         p = "failed" => pc[Left(c)] = "none" \/ \E d \in Calls : pc[d] = "failed",
         data' \in [Index -> Int], input' = input, sorter' = sorter,
         outcome = "sorting", outcome' = outcome,
         pc' = [pc EXCEPT ![c] = p]
  PROVE  CallsInv'
  <1> USE DEF CallsInv
  <1>1. \A d \in Calls : pc'[d] = IF d = c THEN p ELSE pc[d]
    BY DEF TypeOK
  <1>2. \A d \in Calls : (Started(d) => Started(d)') /\ (pc[d] \in Over => pc'[d] = pc[d])
    BY <1>1 DEF Live, Started
  <1>3. \A d \in Calls : Size(d) > 1 => Left(d) \in Calls /\ Right(d) \in Calls
    BY MidFacts
  <1>4. \A d \in Calls :
          pc[d] \notin {"none", "called", "returned"} => Size(d) > 1
    BY DEF TypeOK
  <1>5. TypeOK'
    <2>1. pc' \in [Calls -> Points]
      BY DEF TypeOK
    <2>2. ASSUME NEW d \in Calls
          PROVE  /\ pc'[d] \notin {"none", "called", "returned"} => Size(d) > 1
                 /\ pc'[d] \in {"in_left", "right", "in_right", "join", "unwind"} => Started(Left(d))'
                 /\ pc'[d] \in {"in_right", "join", "unwind"} => Started(Right(d))'
      <3>1. CASE d = c
        BY <3>1, <1>1, <1>2, <1>3
      <3>2. CASE d # c
        BY <3>2, <1>1, <1>2, <1>3 DEF TypeOK
      <3> QED
        BY <3>1, <3>2
    <2> QED
      BY <2>1, <2>2 DEF TypeOK
  <1>6. TreeInv' /\ NoOrphans'
    BY TreeMove, OrphansMove DEF Live
  <1>7. HalvesInv'
    <2> SUFFICES ASSUME NEW d \in Calls
                 PROVE  /\ pc'[d] = "in_left" => sorter # "multithreaded"
                        /\ pc'[d] \in {"join", "unwind", "failed"} => sorter = "multithreaded"
                        /\ pc'[d] \in {"right", "in_right"} =>
                             sorter = "multithreaded" \/ pc'[Left(d)] = "returned"
                        /\ pc'[d] = "join" => pc'[Right(d)] = "returned"
                        /\ pc'[d] = "unwind" => pc'[Right(d)] = "failed"
      BY DEF HalvesInv
    <2>1. CASE d = c
      BY <2>1, <1>1, <1>2, <1>3 DEF Over
    <2>2. CASE d # c
      BY <2>2, <1>1, <1>2, <1>3, <1>4 DEF Over, HalvesInv
    <2> QED
      BY <2>1, <2>2
  <1>8. FailInv'
    <2> SUFFICES ASSUME NEW d \in Calls, pc'[d] = "failed"
                 PROVE  \E e \in Calls : Size(e) > 1 /\ pc'[e] = "failed" /\ pc'[Left(e)] = "none"
      BY DEF FailInv
    <2>1. CASE \E e \in Calls : pc[e] = "failed"
      <3>1. PICK e \in Calls : Size(e) > 1 /\ pc[e] = "failed" /\ pc[Left(e)] = "none"
        BY <2>1 DEF FailInv
      <3>2. pc'[e] = "failed" /\ pc'[Left(e)] = "none"
        BY <3>1, <1>1, <1>2, <1>3 DEF Over, Live, Started
      <3> QED
        BY <3>1, <3>2
    <2>2. CASE ~\E e \in Calls : pc[e] = "failed"
      <3>1. d = c /\ p = "failed" /\ pc[Left(c)] = "none" /\ Size(c) > 1
        BY <2>2, <1>1
      <3>2. pc'[Left(c)] = "none"
        BY <3>1, <1>1, <1>3 DEF Live, Started
      <3> QED
        BY <3>1, <3>2, <1>1
    <2> QED
      BY <2>1, <2>2
  <1>9. OutcomeInv'
    BY DEF OutcomeInv
  <1> QED
    BY <1>5, <1>6, <1>7, <1>8, <1>9

\* The same for a step that also calls a half.
LEMMA CallCalls ==
  ASSUME CallsInv, NEW c \in Calls, NEW d \in Calls, Size(c) > 1,
         NEW p \in {"in_left", "right", "in_right"},
         \/ pc[c] = "left" /\ d = Left(c) /\ p = (IF sorter = "multithreaded" THEN "right" ELSE "in_left")
         \/ pc[c] = "right" /\ d = Right(c) /\ p = "in_right",
         UNCHANGED <<data, input, sorter, outcome>>, outcome = "sorting",
         pc' = [pc EXCEPT ![c] = p, ![d] = "called"]
  PROVE  CallsInv'
  <1> USE DEF CallsInv
  <1>1. /\ d # c /\ ~Started(d)
        /\ \A e \in Calls \ {c} : Started(e) /\ e[1] <= d[1] /\ d[2] <= e[2] => pc[e] \notin Over
    BY FreshHalf
  <1>2. \A e \in Calls : pc'[e] = IF e = d THEN "called" ELSE IF e = c THEN p ELSE pc[e]
    BY <1>1 DEF TypeOK
  <1>3. \A e \in Calls : Size(e) > 1 => Left(e) \in Calls /\ Right(e) \in Calls
    BY MidFacts
  <1>4. \A e \in Calls :
          pc[e] \notin {"none", "called", "returned"} => Size(e) > 1
    BY DEF TypeOK
  <1>5. \A e \in Calls : (Started(e) => Started(e)') /\ (pc[e] \in Over => pc'[e] = pc[e])
    <2> TAKE e \in Calls
    <2>1. CASE e = d
      BY <2>1, <1>1 DEF Started, Over
    <2>2. CASE e # d
      BY <2>2, <1>2 DEF Started, Over
    <2> QED
      BY <2>1, <2>2
  <1>6. Started(d)' /\ pc'[c] = p /\ pc'[d] = "called"
    <2>1. pc'[c] = p /\ pc'[d] = "called"
      BY <1>1, <1>2
    <2> QED
      BY <2>1 DEF Started
  <1>7. TypeOK'
    <2>1. pc' \in [Calls -> Points]
      BY DEF TypeOK, Points
    <2>2. ASSUME NEW e \in Calls
          PROVE  /\ pc'[e] \notin {"none", "called", "returned"} => Size(e) > 1
                 /\ pc'[e] \in {"in_left", "right", "in_right", "join", "unwind"} => Started(Left(e))'
                 /\ pc'[e] \in {"in_right", "join", "unwind"} => Started(Right(e))'
      <3>1. CASE e = c
        BY <3>1, <1>3, <1>5, <1>6 DEF TypeOK
      <3>2. CASE e = d
        BY <3>2, <1>6
      <3>3. CASE e # c /\ e # d
        BY <3>3, <1>2, <1>3, <1>4, <1>5 DEF TypeOK
      <3> QED
        BY <3>1, <3>2, <3>3
    <2> QED
      BY <2>1, <2>2 DEF TypeOK
  <1>8. TreeInv'
    BY TreeCall
  <1>9. NoOrphans'
    BY OrphansCall
  <1>10. HalvesInv'
    <2> SUFFICES ASSUME NEW e \in Calls
                 PROVE  /\ pc'[e] = "in_left" => sorter # "multithreaded"
                        /\ pc'[e] \in {"join", "unwind", "failed"} => sorter = "multithreaded"
                        /\ pc'[e] \in {"right", "in_right"} =>
                             sorter = "multithreaded" \/ pc'[Left(e)] = "returned"
                        /\ pc'[e] = "join" => pc'[Right(e)] = "returned"
                        /\ pc'[e] = "unwind" => pc'[Right(e)] = "failed"
      BY DEF HalvesInv
    <2>1. CASE e = c
      BY <2>1, <1>3, <1>5, <1>6 DEF Over, HalvesInv
    <2>2. CASE e = d
      BY <2>2, <1>6
    <2>3. CASE e # c /\ e # d
      <3>1. pc'[e] = pc[e]
        BY <2>3, <1>2
      <3>2. pc[e] \in {"right", "in_right", "join", "unwind"} =>
              Left(e) \in Calls /\ Right(e) \in Calls
        BY <1>3, <1>4
      <3> QED
        BY <3>1, <3>2, <1>5 DEF Over, HalvesInv
    <2> QED
      BY <2>1, <2>2, <2>3
  <1>11. FailInv'
    <2> SUFFICES ASSUME NEW f \in Calls, pc'[f] = "failed"
                 PROVE  \E e \in Calls : Size(e) > 1 /\ pc'[e] = "failed" /\ pc'[Left(e)] = "none"
      BY DEF FailInv
    <2>1. pc[f] = "failed"
      BY <1>1, <1>2, <1>6
    <2>2. PICK e \in Calls : Size(e) > 1 /\ pc[e] = "failed" /\ pc[Left(e)] = "none"
      BY <2>1 DEF FailInv
    <2>3. Left(e) # d
      <3>1. e[1] <= Left(e)[1] /\ Left(e)[2] <= e[2]
        BY <2>2, MidFacts, SizeAssumption DEF Left
      <3>2. e # c /\ Started(e) /\ pc[e] \in Over
        BY <2>2 DEF Started, Over
      <3> QED
        BY <1>1, <3>1, <3>2
    <2>4. Left(e) # c
      BY <2>2
    <2>5. pc'[Left(e)] = "none" /\ pc'[e] = "failed"
      BY <1>2, <1>3, <1>5, <2>2, <2>3, <2>4 DEF Over
    <2> QED
      BY <2>2, <2>5
  <1>12. OutcomeInv'
    BY DEF OutcomeInv
  <1> QED
    BY <1>7, <1>8, <1>9, <1>10, <1>11, <1>12

\* Every step of a call keeps what CallsInv says of all calls.
LEMMA StepCalls == ASSUME IndInv, [Next]_vars PROVE CallsInv'
  <1> USE DEF IndInv
  <1>1. CASE UNCHANGED vars
    BY <1>1 DEF vars, CallsInv, TypeOK, TreeInv, HalvesInv, NoOrphans, FailInv, OutcomeInv,
                Started, Apart, Below, LeftGiven, RightGiven, Live
  <1>2. ASSUME NEW c \in Calls, ReturnAtOnce(c) PROVE CallsInv'
    BY <1>2, MoveCalls, MidFacts
       DEF ReturnAtOnce, At, Goto, Below, LeftGiven, RightGiven, Live, Started, Over, Points,
           CallsInv, TypeOK
  <1>3. ASSUME NEW c \in Calls, Begin(c) PROVE CallsInv'
    BY <1>3, MoveCalls
       DEF Begin, At, Goto, LeftGiven, RightGiven, Live, Started, Over, Points, CallsInv, TypeOK
  <1>4. ASSUME NEW c \in Calls, Partition(c) PROVE CallsInv'
    <2>1. PICK d \in Partitions(c) :
            data' = [i \in Index |-> IF i \in Elements(c) THEN d[i] ELSE data[i]]
      BY <1>4 DEF Partition
    <2>2. \A i \in Elements(c) : i \in Index /\ d[i] \in Int
      <3>1. \A i \in Elements(c) : i \in Index
        BY MidFacts, SizeAssumption DEF Elements, Index
      <3>2. d \in [Elements(c) -> {data[i] : i \in Elements(c)}]
        BY <2>1 DEF Partitions
      <3>3. \A i \in Elements(c) : data[i] \in Int
        BY <3>1 DEF CallsInv, TypeOK
      <3> QED
        BY <3>1, <3>2, <3>3
    <2>3. data' \in [Index -> Int]
      BY <2>1, <2>2 DEF CallsInv, TypeOK
    <2> QED
      BY <1>4, <2>3, MoveCalls
         DEF Partition, At, Goto, LeftGiven, RightGiven, Live, Started, Over, Points,
             CallsInv, TypeOK
  <1>5. ASSUME NEW c \in Calls, StartLeft(c) PROVE CallsInv'
    <2>1. Size(c) > 1 /\ Left(c) \in Calls
      BY <1>5, MidFacts DEF StartLeft, At, CallsInv, TypeOK
    <2> QED
      BY <1>5, <2>1, CallCalls DEF StartLeft, At, GotoAndCall
  <1>6. ASSUME NEW c \in Calls, ThreadThrows(c) PROVE CallsInv'
    <2>1. Size(c) > 1 /\ Left(c) \in Calls
      BY <1>6, MidFacts DEF ThreadThrows, At, CallsInv, TypeOK
    <2>2. pc[Left(c)] = "none"
      BY <1>6, <2>1, FreshHalf DEF ThreadThrows, At, CallsInv, Started
    <2> QED
      BY <1>6, <2>1, <2>2, MoveCalls
         DEF ThreadThrows, At, Goto, Below, LeftGiven, RightGiven, Live, Started, Over, Points,
             CallsInv, TypeOK
  <1>7. ASSUME NEW c \in Calls, LeftReturns(c) PROVE CallsInv'
    BY <1>7, MoveCalls
       DEF LeftReturns, At, Goto, LeftGiven, RightGiven, Live, Started, Over, Points,
           CallsInv, TypeOK
  <1>8. ASSUME NEW c \in Calls, CallRight(c) PROVE CallsInv'
    <2>1. Size(c) > 1 /\ Right(c) \in Calls
      BY <1>8, MidFacts DEF CallRight, At, CallsInv, TypeOK
    <2> QED
      BY <1>8, <2>1, CallCalls DEF CallRight, At, GotoAndCall
  <1>9. ASSUME NEW c \in Calls, RightReturns(c) PROVE CallsInv'
    <2>1. Size(c) > 1
      BY <1>9 DEF RightReturns, At, CallsInv, TypeOK
    <2>2. sorter # "multithreaded" => pc[Left(c)] = "returned"
      BY <1>9 DEF RightReturns, At, CallsInv, HalvesInv
    <2>3. sorter # "multithreaded" => \A d \in Calls : Below(d, c) => ~Live(d)
      BY <1>9, <2>1, <2>2, HalvesOver DEF RightReturns, CallsInv, Over
    <2>4. CASE sorter = "multithreaded"
      BY <1>9, <2>1, <2>4, MoveCalls
         DEF RightReturns, At, Goto, LeftGiven, RightGiven, Live, Started, Over, Points,
             CallsInv, TypeOK
    <2>5. CASE sorter # "multithreaded"
      BY <1>9, <2>1, <2>3, <2>5, MoveCalls
         DEF RightReturns, At, Goto, LeftGiven, RightGiven, Live, Started, Over, Points,
             CallsInv, TypeOK
    <2> QED
      BY <2>4, <2>5
  <1>10. ASSUME NEW c \in Calls, RightThrows(c) PROVE CallsInv'
    <2>1. Size(c) > 1 /\ Right(c) \in Calls /\ Started(Left(c)) /\ Started(Right(c))
      BY <1>10, MidFacts DEF RightThrows, At, CallsInv, TypeOK
    <2>2. sorter = "multithreaded"
      BY <1>10, <2>1 DEF RightThrows, CallsInv, HalvesInv
    <2> QED
      BY <1>10, <2>1, <2>2, MoveCalls
         DEF RightThrows, At, Goto, LeftGiven, RightGiven, Live, Started, Over, Points,
             CallsInv, TypeOK
  <1>11. ASSUME NEW c \in Calls, Join(c) PROVE CallsInv'
    <2>1. Size(c) > 1 /\ Right(c) \in Calls /\ sorter = "multithreaded"
      BY <1>11, MidFacts DEF Join, At, CallsInv, TypeOK, HalvesInv
    <2>2. /\ pc[Left(c)] = "returned"
          /\ pc[c] = "join" => pc[Right(c)] = "returned"
          /\ pc[c] = "unwind" => pc[Right(c)] = "failed"
      BY <1>11 DEF Join, CallsInv, HalvesInv
    <2>3. \A d \in Calls : Below(d, c) => ~Live(d)
      BY <1>11, <2>1, <2>2, HalvesOver DEF Join, At, CallsInv, Over
    <2>4. CASE At(c, "join")
      BY <1>11, <2>1, <2>3, <2>4, MoveCalls
         DEF Join, At, Goto, LeftGiven, RightGiven, Live, Started, Over, Points, CallsInv, TypeOK
    <2>5. CASE At(c, "unwind")
      BY <1>11, <2>1, <2>2, <2>3, <2>5, MoveCalls
         DEF Join, At, Goto, LeftGiven, RightGiven, Live, Started, Over, Points, CallsInv, TypeOK
    <2> QED
      BY <1>11, <2>4, <2>5 DEF Join
  <1>12. ASSUME NEW c \in Calls, Terminate(c) PROVE CallsInv'
    BY <1>12 DEF Terminate, At, CallsInv, TypeOK, TreeInv, HalvesInv, NoOrphans, FailInv,
                 OutcomeInv, Started, Apart, Below, LeftGiven, RightGiven, Live
  <1>13. ASSUME Check PROVE CallsInv'
    <2>1. Root \in Calls /\ Elements(Root) = Index
      BY SizeAssumption DEF Root, Calls, Elements, Index
    <2>2. outcome' = "sorted"
      BY <1>13, <2>1 DEF Check, At, SortedInv
    <2> QED
      BY <1>13, <2>2 DEF Check, CallsInv, TypeOK, TreeInv, HalvesInv, NoOrphans, FailInv,
                 OutcomeInv, Started, Apart, Below, LeftGiven, RightGiven, Live
  <1> QED
    BY <1>1, <1>2, <1>3, <1>4, <1>5, <1>6, <1>7, <1>8, <1>9, <1>10, <1>11, <1>12, <1>13 DEF Next

-----------------------------------------------------------------------------
\* Two sorted halves with the divide point between them are a sorted range.
LEMMA SortedHalves ==
  ASSUME NEW f \in [Index -> Int], NEW c \in Calls, Size(c) > 1,
         Sorted(f, Elements(Left(c))), Sorted(f, Elements(Right(c))),
         \A i \in Elements(c) : /\ i < Mid(c) => f[i] <= f[Mid(c)]
                                /\ i > Mid(c) => f[Mid(c)] <= f[i]
  PROVE  Sorted(f, Elements(c))
  <1>1. /\ c[1] \in 0..N /\ c[2] \in 0..N /\ Mid(c) \in Int
        /\ c[1] < Mid(c) /\ Mid(c) < c[2]
    BY MidFacts
  <1> SUFFICES ASSUME NEW i \in Elements(c), NEW j \in Elements(c), i < j PROVE f[i] <= f[j]
    BY DEF Sorted
  <1>2. i \in Index /\ j \in Index /\ i \in Int /\ j \in Int /\ Mid(c) \in Index
        /\ c[1] <= i /\ i < c[2] /\ c[1] <= j /\ j < c[2]
    <2>1. ASSUME NEW k \in Elements(c) PROVE k \in Int /\ c[1] <= k /\ k < c[2] /\ k \in Index
      BY <1>1, SizeAssumption DEF Elements, Index
    <2>2. Mid(c) \in Index
      BY <1>1, SizeAssumption DEF Index
    <2> QED
      BY <2>1, <2>2
  <1>3. CASE j < Mid(c)
    <2>1. i \in Elements(Left(c)) /\ j \in Elements(Left(c))
      BY <1>1, <1>2, <1>3, SizeAssumption DEF Elements, Left
    <2> QED
      BY <2>1 DEF Sorted
  <1>4. CASE Mid(c) < i
    <2>1. i \in Elements(Right(c)) /\ j \in Elements(Right(c))
      BY <1>1, <1>2, <1>4, SizeAssumption DEF Elements, Right
    <2> QED
      BY <2>1 DEF Sorted
  <1>5. CASE i <= Mid(c) /\ Mid(c) <= j
    <2>1. f[i] \in Int /\ f[j] \in Int /\ f[Mid(c)] \in Int
      BY <1>2
    <2>2. f[i] <= f[Mid(c)] /\ f[Mid(c)] <= f[j]
      BY <1>1, <1>2, <1>5, <2>1
    <2> QED
      BY <2>1, <2>2
  <1> QED
    BY <1>1, <1>2, <1>3, <1>4, <1>5

\* Counting in a range and beside it.
LEMMA CountParts ==
  ASSUME NEW f, NEW v, NEW S \in SUBSET Index
  PROVE  /\ Count(f, Index, v) = Count(f, S, v) + Count(f, Index \ S, v)
         /\ Count(f, S, v) \in Nat /\ Count(f, Index \ S, v) \in Nat
  <1> DEFINE A == {i \in S : f[i] = v}
             B == {i \in Index \ S : f[i] = v}
  <1>1. IsFiniteSet(Index)
    BY FS_Interval, SizeAssumption DEF Index
  <1>2. IsFiniteSet(A) /\ IsFiniteSet(B)
    BY <1>1, FS_Subset
  <1>3. A \cap B = {} /\ A \cup B = {i \in Index : f[i] = v}
    OBVIOUS
  <1>4. Cardinality(A) \in Nat /\ Cardinality(B) \in Nat
    BY <1>2, FS_CardinalityType
  <1>5. Cardinality(A \cup B) = Cardinality(A) + Cardinality(B) - Cardinality(A \cap B)
    BY <1>2, FS_Union
  <1> HIDE DEF A, B
  <1>6. Cardinality(A \cup B) = Cardinality(A) + Cardinality(B)
    <2>1. Cardinality(A \cap B) = 0
      BY <1>3, FS_EmptySet
    <2> QED
      BY <1>4, <1>5, <2>1
  <1> QED
    BY <1>3, <1>4, <1>6 DEF Count, A, B

\* nth_element keeps how often each value occurs.
LEMMA CountKept ==
  ASSUME TypeOK, NEW c \in Calls, NEW d \in Partitions(c), NEW v,
         data' = [i \in Index |-> IF i \in Elements(c) THEN d[i] ELSE data[i]]
  PROVE  Count(data', Index, v) = Count(data, Index, v)
  <1> DEFINE S == Elements(c)
             values == {data[i] : i \in S}
  <1>1. S \in SUBSET Index
    BY MidFacts, SizeAssumption DEF Elements, Index
  <1>2. d \in [S -> values] /\ \A w \in values : Count(d, S, w) = Count(data, S, w)
    BY DEF Partitions
  <1>3. Count(d, S, v) = Count(data, S, v)
    <2>1. CASE v \in values
      BY <1>2, <2>1
    <2>2. CASE v \notin values
      <3>1. {i \in S : d[i] = v} = {} /\ {i \in S : data[i] = v} = {}
        BY <1>2, <2>2
      <3> QED
        BY <3>1 DEF Count
    <2> QED
      BY <2>1, <2>2
  <1>4. {i \in S : data'[i] = v} = {i \in S : d[i] = v}
    BY <1>1
  <1>5. {i \in Index \ S : data'[i] = v} = {i \in Index \ S : data[i] = v}
    OBVIOUS
  <1>6. Count(data', S, v) = Count(data, S, v) /\ Count(data', Index \ S, v) = Count(data, Index \ S, v)
    BY <1>3, <1>4, <1>5 DEF Count
  <1>7. /\ Count(data', Index, v) = Count(data', S, v) + Count(data', Index \ S, v)
        /\ Count(data, Index, v) = Count(data, S, v) + Count(data, Index \ S, v)
    BY <1>1, CountParts
  <1> HIDE DEF S
  <1> QED
    BY <1>6, <1>7

\* While a call is in nth_element, every other call that has divided its range
\* either has nothing in common with it or contains it in one of its halves, and
\* no call that contains or meets it is over.
LEMMA Alone ==
  ASSUME CallsInv, NEW c \in Calls, pc[c] = "nth_element", NEW e \in Calls, e # c, Started(e)
  PROVE  /\ Apart(c, e) \/ Below(c, e)
         /\ pc[e] \in Over => Apart(c, e)
  <1>1. Apart(c, e) \/ Below(c, e) \/ Below(e, c)
    BY DEF CallsInv, TreeInv, Started
  <1>2. ~Below(e, c)
    BY DEF Below, LeftGiven, RightGiven, Over
  <1>3. ASSUME pc[e] \in Over, Below(c, e) PROVE FALSE
    <2>1. Live(c)
      BY DEF Live, Started, Over
    <2>2. e[1] <= c[1] /\ c[2] <= e[2]
      BY <1>3, MidFacts, SizeAssumption DEF Below
    <2> QED
      BY <1>3, <2>1, <2>2 DEF CallsInv, NoOrphans
  <1> QED
    BY <1>1, <1>2, <1>3

\* Steps that leave the container alone: the divide points stand, and a call
\* that is over has sorted its range.
LEMMA QuietData ==
  ASSUME IndInv, NEW c \in Calls, NEW p \in Points,
         \A d \in Calls \ {c} : pc'[d] = pc[d] \/ pc'[d] = "called",
         pc'[c] = p, UNCHANGED <<data, input>>,
         \/ Size(c) <= 1
         \/ pc[c] \notin {"none", "called", "nth_element"}
         \/ p = "nth_element",
         p = "returned" => Sorted(data, Elements(c))
  PROVE  PivotInv' /\ SortedInv' /\ CountInv'
  <1>1. PivotInv'
    <2> SUFFICES ASSUME NEW d \in Calls, Size(d) > 1,
                        pc'[d] \notin {"none", "called", "nth_element"}, NEW i \in Elements(d)
                 PROVE  /\ i < Mid(d) => data[i] <= data[Mid(d)]
                        /\ i > Mid(d) => data[Mid(d)] <= data[i]
      BY DEF PivotInv
    <2>1. pc[d] \notin {"none", "called", "nth_element"}
      <3>1. CASE d = c
        BY <3>1, MidFacts
      <3>2. CASE d # c
        BY <3>2
      <3> QED
        BY <3>1, <3>2
    <2> QED
      BY <2>1 DEF IndInv, PivotInv
  <1>2. SortedInv'
    BY DEF IndInv, SortedInv, Sorted
  <1>3. CountInv'
    BY DEF IndInv, CountInv, Count
  <1> QED
    BY <1>1, <1>2, <1>3

LEMMA PartitionData ==
  ASSUME IndInv, NEW c \in Calls, Partition(c)
  PROVE  PivotInv' /\ SortedInv' /\ CountInv'
  <1> USE DEF IndInv
  <1>1. PICK d \in Partitions(c) :
          data' = [i \in Index |-> IF i \in Elements(c) THEN d[i] ELSE data[i]]
    BY DEF Partition
  <1>2. /\ pc[c] = "nth_element" /\ Size(c) > 1 /\ TypeOK /\ input' = input
        /\ \A e \in Calls : pc'[e] = IF e = c THEN "left" ELSE pc[e]
    BY DEF Partition, At, Goto, CallsInv, TypeOK
  <1>3. ASSUME NEW e \in Calls
        PROVE  /\ e[1] \in 0..N /\ e[2] \in 0..N /\ Mid(e) \in Int
               /\ \A i \in Elements(e) : i \in Index /\ i \in Int /\ e[1] <= i /\ i < e[2]
               /\ Size(e) > 1 => Mid(e) \in Elements(e)
    BY MidFacts, SizeAssumption DEF Elements, Index
  <1>4. /\ d \in [Elements(c) -> {data[i] : i \in Elements(c)}]
        /\ \A i \in Elements(c) : /\ i < Mid(c) => d[i] <= d[Mid(c)]
                                  /\ i > Mid(c) => d[i] >= d[Mid(c)]
    BY <1>1 DEF Partitions
  <1>5. \A i \in Elements(c) : d[i] \in Int
    BY <1>2, <1>3, <1>4 DEF TypeOK
  <1>6. \A i \in Index : data'[i] = IF i \in Elements(c) THEN d[i] ELSE data[i]
    BY <1>1
  <1>7. PivotInv'
    <2> SUFFICES ASSUME NEW e \in Calls, Size(e) > 1,
                        pc'[e] \notin {"none", "called", "nth_element"}, NEW i \in Elements(e)
                 PROVE  /\ i < Mid(e) => data'[i] <= data'[Mid(e)]
                        /\ i > Mid(e) => data'[Mid(e)] <= data'[i]
      BY DEF PivotInv
    <2>1. i \in Index /\ i \in Int /\ Mid(e) \in Index /\ Mid(e) \in Elements(e)
      BY <1>3
    <2>2. CASE e = c
      BY <2>1, <2>2, <1>3, <1>4, <1>5, <1>6
    <2>3. CASE e # c
      <3>1. /\ Started(e) /\ pc[e] \notin {"none", "called", "nth_element"}
        BY <2>3, <1>2 DEF Started
      <3>2. Apart(c, e) \/ Below(c, e)
        BY <2>3, <3>1, <1>2, Alone
      <3>3. \A k \in Elements(e) : /\ k < Mid(e) => data[k] <= data[Mid(e)]
                                   /\ k > Mid(e) => data[Mid(e)] <= data[k]
        BY <3>1 DEF PivotInv
      <3>4. Mid(e) \notin Elements(c)
        BY <3>2, <1>3, <2>1, SizeAssumption DEF Apart, Below
      <3>5. data'[Mid(e)] = data[Mid(e)]
        BY <3>4, <1>6, <2>1
      <3>6. CASE i \notin Elements(c)
        BY <3>3, <3>5, <3>6, <1>6, <2>1
      <3>7. CASE i \in Elements(c)
        <4>1. PICK k \in Elements(c) : d[i] = data[k]
          BY <3>7, <1>4
        <4>2. data'[i] = data[k]
          BY <4>1, <3>7, <1>6, <2>1
        <4>3. k \in Elements(e) /\ (i < Mid(e) <=> k < Mid(e)) /\ (i > Mid(e) <=> k > Mid(e))
          <5>1. ~Apart(c, e)
            BY <3>7, <1>3, <2>1, SizeAssumption DEF Apart
          <5>2. Below(c, e)
            BY <3>2, <5>1
          <5> QED
            BY <5>2, <3>7, <1>3, SizeAssumption DEF Below, Elements
        <4> QED
          BY <4>2, <4>3, <3>3, <3>5
      <3> QED
        BY <3>6, <3>7
    <2> QED
      BY <2>2, <2>3
  <1>8. SortedInv'
    <2> SUFFICES ASSUME NEW e \in Calls, pc'[e] = "returned" PROVE Sorted(data', Elements(e))
      BY DEF SortedInv
    <2>1. e # c /\ pc[e] = "returned"
      BY <1>2
    <2>2. Apart(c, e)
      BY <2>1, <1>2, Alone DEF Started, Over
    <2>3. \A i \in Elements(e) : i \notin Elements(c)
      BY <2>2, <1>3, SizeAssumption DEF Apart
    <2>4. \A i \in Elements(e) : data'[i] = data[i]
      BY <2>3, <1>3, <1>6
    <2> QED
      BY <2>1, <2>4 DEF SortedInv, Sorted
  <1>9. CountInv'
    BY <1>1, <1>2, CountKept DEF CountInv
  <1> QED
    BY <1>7, <1>8, <1>9

LEMMA StepIndInv == IndInv /\ [Next]_vars => IndInv'
  <1> SUFFICES ASSUME IndInv, [Next]_vars PROVE IndInv'
    OBVIOUS
  <1>1. CASE data' = data /\ input' = input /\ pc' = pc
    BY <1>1, StepCalls DEF IndInv, PivotInv, SortedInv, Sorted, CountInv, Count
  <1>2. ASSUME NEW c \in Calls, ReturnAtOnce(c) PROVE PivotInv' /\ SortedInv' /\ CountInv'
    <2>1. \A i, j \in Elements(c) : ~(i < j)
      BY <1>2, MidFacts, SizeAssumption DEF ReturnAtOnce, Size, Elements
    <2>2. Sorted(data, Elements(c))
      BY <2>1 DEF Sorted
    <2> QED
      BY <1>2, <2>2, QuietData
         DEF ReturnAtOnce, At, Goto, Points, IndInv, CallsInv, TypeOK
  <1>3. ASSUME NEW c \in Calls, Begin(c) PROVE PivotInv' /\ SortedInv' /\ CountInv'
    BY <1>3, QuietData
       DEF Begin, At, Goto, GotoAndCall, Points, IndInv, CallsInv, TypeOK
  <1>4. ASSUME NEW c \in Calls, StartLeft(c) PROVE PivotInv' /\ SortedInv' /\ CountInv'
    BY <1>4, QuietData
       DEF StartLeft, At, Goto, GotoAndCall, Points, IndInv, CallsInv, TypeOK
  <1>5. ASSUME NEW c \in Calls, ThreadThrows(c) PROVE PivotInv' /\ SortedInv' /\ CountInv'
    BY <1>5, QuietData
       DEF ThreadThrows, At, Goto, GotoAndCall, Points, IndInv, CallsInv, TypeOK
  <1>6. ASSUME NEW c \in Calls, LeftReturns(c) PROVE PivotInv' /\ SortedInv' /\ CountInv'
    BY <1>6, QuietData
       DEF LeftReturns, At, Goto, GotoAndCall, Points, IndInv, CallsInv, TypeOK
  <1>7. ASSUME NEW c \in Calls, CallRight(c) PROVE PivotInv' /\ SortedInv' /\ CountInv'
    BY <1>7, QuietData
       DEF CallRight, At, Goto, GotoAndCall, Points, IndInv, CallsInv, TypeOK
  <1>8. ASSUME NEW c \in Calls, RightThrows(c) PROVE PivotInv' /\ SortedInv' /\ CountInv'
    BY <1>8, QuietData
       DEF RightThrows, At, Goto, GotoAndCall, Points, IndInv, CallsInv, TypeOK
  <1>9. ASSUME NEW c \in Calls, RightReturns(c) \/ Join(c), pc'[c] = "returned"
        PROVE Sorted(data, Elements(c))
    <2>1. /\ pc[c] \in {"in_right", "join", "unwind"} /\ Size(c) > 1 /\ data \in [Index -> Int]
          /\ Left(c) \in Calls /\ Right(c) \in Calls
      BY <1>9, MidFacts DEF RightReturns, Join, At, IndInv, CallsInv, TypeOK
    <2>2. pc[Left(c)] = "returned" /\ pc[Right(c)] = "returned"
      BY <1>9, <2>1 DEF RightReturns, Join, At, Goto, IndInv, CallsInv, TypeOK, HalvesInv
    <2>3. Sorted(data, Elements(Left(c))) /\ Sorted(data, Elements(Right(c)))
      BY <2>1, <2>2 DEF IndInv, SortedInv
    <2>4. \A i \in Elements(c) : /\ i < Mid(c) => data[i] <= data[Mid(c)]
                                 /\ i > Mid(c) => data[Mid(c)] <= data[i]
      BY <2>1 DEF IndInv, PivotInv
    <2> QED
      BY <2>1, <2>3, <2>4, SortedHalves
  <1>10. ASSUME NEW c \in Calls, RightReturns(c) PROVE PivotInv' /\ SortedInv' /\ CountInv'
    BY <1>9, <1>10, QuietData DEF RightReturns, At, Goto, Points, IndInv, CallsInv, TypeOK
  <1>11. ASSUME NEW c \in Calls, Join(c) PROVE PivotInv' /\ SortedInv' /\ CountInv'
    BY <1>9, <1>11, QuietData DEF Join, At, Goto, Points, IndInv, CallsInv, TypeOK
  <1>12. CASE UNCHANGED vars
    BY <1>1, <1>12 DEF vars
  <1>13. ASSUME NEW c \in Calls, Terminate(c) PROVE IndInv'
    BY <1>1, <1>13 DEF Terminate
  <1>14. CASE Check
    BY <1>1, <1>14 DEF Check
  <1>15. ASSUME NEW c \in Calls, Partition(c) PROVE PivotInv' /\ SortedInv' /\ CountInv'
    BY <1>15, PartitionData
  <1> QED
    BY StepCalls, <1>2, <1>3, <1>4, <1>5, <1>6, <1>7, <1>8, <1>10, <1>11, <1>12, <1>13, <1>14,
       <1>15 DEF Next, IndInv

-----------------------------------------------------------------------------
\* Every reachable state satisfies the inductive invariant.
THEOREM Invariance == Spec => []IndInv
  BY InitIndInv, StepIndInv, PTL DEF Spec

\* The state is well typed and a call waits only for halves it has started.
THEOREM TypeCorrect == Spec => []TypeOK
  <1>1. IndInv => TypeOK
    BY DEF IndInv, CallsInv
  <1> QED
    BY <1>1, Invariance, PTL

\* No two threads write one element at the same time, for any size and input.
THEOREM NoDataRace == Spec => []DisjointWrites
  <1>1. IndInv => DisjointWrites
    <2> SUFFICES ASSUME IndInv, NEW c \in Calls, NEW d \in Calls, c # d,
                        pc[c] = "nth_element", pc[d] = "nth_element"
                 PROVE  Elements(c) \cap Elements(d) = {}
      BY DEF DisjointWrites
    <2>1. Apart(c, d) \/ Below(c, d)
      BY Alone DEF IndInv, Started
    <2>2. ~Below(c, d)
      BY DEF Below, LeftGiven, RightGiven, Over
    <2>3. /\ c[1] \in 0..N /\ c[2] \in 0..N /\ d[1] \in 0..N /\ d[2] \in 0..N
      BY MidFacts
    <2> QED
      BY <2>1, <2>2, <2>3, SizeAssumption DEF Apart, Elements
  <1> QED
    BY <1>1, Invariance, PTL

\* No thread outlives the call that started it, also when an exception ends it.
THEOREM ThreadsAreJoined == Spec => []NoOrphans
  <1>1. IndInv => NoOrphans
    BY DEF IndInv, CallsInv
  <1> QED
    BY <1>1, Invariance, PTL

\* When the first call returns the container is the sorted input.
THEOREM Sorts == Spec => []ResultSorted
  <1>1. IndInv => ResultSorted
    <2> SUFFICES ASSUME IndInv PROVE ResultSorted
      OBVIOUS
    <2>1. Root \in Calls /\ Elements(Root) = Index
      BY SizeAssumption DEF Root, Calls, Elements, Index
    <2>2. pc[Root] = "returned" => Sorted(data, Index)
      BY <2>1 DEF IndInv, SortedInv
    <2>3. \A i \in Index : Count(data, Index, input[i]) = Count(input, Index, input[i])
      BY DEF IndInv, CountInv
    <2> QED
      BY <2>2, <2>3 DEF ResultSorted, IndInv, CallsInv, OutcomeInv
  <1> QED
    BY <1>1, Invariance, PTL

\* Only a thread that could not be started ends the sort otherwise.
THEOREM OnlyThreadsFail == Spec => []FailsOnlyForWantOfThreads
  <1>1. IndInv => FailsOnlyForWantOfThreads
    BY DEF IndInv, CallsInv, OutcomeInv, FailInv, HalvesInv, FailsOnlyForWantOfThreads, WantOfThreads
  <1> QED
    BY <1>1, Invariance, PTL

\* Nobody touches a range after a call has sorted it.
THEOREM SortedStays == Spec => SortedIsFinal
  <1> DEFINE Final ==
        \A c \in Calls : pc[c] = "returned" =>
          \A i \in Elements(c) :
            /\ data'[i] = data[i]
            /\ i + 1 \in Elements(c) => data[i] <= data[i + 1]
  <1>1. IndInv /\ [Next]_vars => [Final]_vars
    <2> SUFFICES ASSUME IndInv, Next, NEW e \in Calls, pc[e] = "returned", NEW i \in Elements(e)
                 PROVE  /\ data'[i] = data[i]
                        /\ i + 1 \in Elements(e) => data[i] <= data[i + 1]
      OBVIOUS
    <2>1. i \in Index /\ i \in Int /\ e[1] <= i /\ i < e[2] /\ e[1] \in 0..N /\ e[2] \in 0..N
      BY MidFacts, SizeAssumption DEF Elements, Index
    <2>2. i + 1 \in Elements(e) => data[i] <= data[i + 1]
      BY <2>1 DEF IndInv, SortedInv, Sorted
    <2>3. CASE data' = data
      BY <2>2, <2>3
    <2>4. ASSUME NEW c \in Calls, Partition(c) PROVE data'[i] = data[i]
      <3>1. pc[c] = "nth_element" /\ e # c
        BY <2>4 DEF Partition, At
      <3>2. Apart(c, e)
        BY <3>1, Alone DEF IndInv, Started, Over
      <3>3. i \notin Elements(c)
        BY <2>1, <3>2, MidFacts, SizeAssumption DEF Apart, Elements
      <3> QED
        BY <2>1, <2>4, <3>3 DEF Partition
    <2> QED
      BY <2>2, <2>3, <2>4
         DEF Next, ReturnAtOnce, Begin, StartLeft, ThreadThrows, LeftReturns, CallRight,
             RightReturns, RightThrows, Join, Terminate, Check
  <1>2. Spec => [][Final]_vars
    BY <1>1, Invariance, PTL DEF Spec
  <1> QED
    BY <1>2 DEF SortedIsFinal

-----------------------------------------------------------------------------
(* Elements can be put in the order nth_element promises. *)

LEMMA LeastNat ==
  ASSUME NEW R \in SUBSET Nat, R # {}
  PROVE  \E x \in R : \A y \in R : x <= y
  <1>1. PICK x \in R : \A y \in R : ~(<<y, x>> \in OpToRel(<, Nat))
    BY NatLessThanWellFounded, WFMin
  <1>2. ASSUME NEW y \in R, ~(x <= y) PROVE FALSE
    <2>1. x \in Nat /\ y \in Nat /\ y < x
      BY <1>2
    <2>2. <<y, x>> \in OpToRel(<, Nat)
      BY <2>1 DEF OpToRel
    <2> QED
      BY <1>1, <2>2
  <1> QED
    BY <1>2

LEMMA LeastElement ==
  ASSUME NEW S, IsFiniteSet(S), S # {}, NEW f, \A i \in S : f[i] \in Int
  PROVE  \E m \in S : \A i \in S : f[m] <= f[i]
  <1> DEFINE Less(m) == {i \in S : f[i] < f[m]}
             R == {Cardinality(Less(m)) : m \in S}
  <1>1. \A m \in S : IsFiniteSet(Less(m)) /\ Cardinality(Less(m)) \in Nat
    BY FS_Subset, FS_CardinalityType
  <1>2. PICK x \in R : \A y \in R : x <= y
    <2>1. R \in SUBSET Nat /\ R # {}
      BY <1>1
    <2> HIDE DEF R
    <2> QED
      BY <2>1, LeastNat
  <1>3. PICK m \in S : x = Cardinality(Less(m))
    OBVIOUS
  <1>4. ASSUME NEW i \in S, f[i] < f[m] PROVE FALSE
    <2>1. Less(i) \in SUBSET Less(m) /\ i \in Less(m) /\ i \notin Less(i)
      BY <1>4
    <2>2. Cardinality(Less(i)) <= Cardinality(Less(m)) /\ Cardinality(Less(i)) # Cardinality(Less(m))
      BY <1>1, <2>1, FS_Subset
    <2>3. Cardinality(Less(m)) <= Cardinality(Less(i))
      BY <1>2, <1>3
    <2>4. Cardinality(Less(i)) \in Nat /\ Cardinality(Less(m)) \in Nat
      BY <1>1
    <2> HIDE DEF Less, R
    <2> QED
      BY <2>2, <2>3, <2>4
  <1> QED
    BY <1>4

\* Swapping two elements keeps how often each value occurs.
LEMMA SwapKeeps ==
  ASSUME NEW E, IsFiniteSet(E), NEW k \in E, NEW m \in E, NEW V, NEW d \in [E -> V],
         NEW e \in [E -> V], e[k] = d[m], e[m] = d[k],
         \A i \in E \ {k, m} : e[i] = d[i], NEW v
  PROVE  Count(e, E, v) = Count(d, E, v)
  <1> DEFINE A == {i \in E : d[i] = v}
             B == {i \in E : e[i] = v}
             other(i) == IF i = k THEN m ELSE IF i = m THEN k ELSE i
             f == [i \in A |-> other(i)]
  <1>1. \A i \in E : other(i) \in E /\ other(other(i)) = i /\ e[other(i)] = d[i] /\ d[other(i)] = e[i]
    OBVIOUS
  <1>2. \A i \in A : other(i) \in B
    BY <1>1
  <1>3. \A i \in B : other(i) \in A
    BY <1>1
  <1> HIDE DEF other
  <1>4. f \in [A -> B]
    BY <1>2
  <1>5. \A i, j \in A : f[i] = f[j] => i = j
    BY <1>1
  <1>6. \A i \in B : other(i) \in A /\ f[other(i)] = i
    BY <1>1, <1>3
  <1> HIDE DEF A, B, f
  <1>7. f \in Bijection(A, B)
    BY <1>4, <1>5, <1>6, Fun_IsBij
  <1>8. IsFiniteSet(A)
    BY FS_Subset DEF A
  <1>9. Cardinality(B) = Cardinality(A)
    BY <1>7, <1>8, FS_Bijection DEF ExistsBijection
  <1> QED
    BY <1>9 DEF Count, A, B

\* There is an order in which all elements of a call are sorted, and so one that
\* nth_element may leave them in: selecting the least of the rest again and again
\* gets there.
LEMMA PartitionsExist ==
  ASSUME TypeOK, NEW c \in Calls, Size(c) > 1
  PROVE  Partitions(c) # {}
  <1> DEFINE E == Elements(c)
             V == {data[i] : i \in E}
             Reached(d, k) ==
               /\ d \in [E -> V] /\ \A v \in V : Count(d, E, v) = Count(data, E, v)
               /\ \A i, j \in E : i < k /\ i < j => d[i] <= d[j]
             Rest == {n \in 0..(c[2] - c[1]) : \E d : Reached(d, c[2] - n)}
  <1>1. /\ c[1] \in Int /\ c[2] \in Int /\ c[1] < Mid(c) /\ Mid(c) < c[2] /\ Mid(c) \in Int
        /\ 0 <= c[1] /\ c[2] <= N
    BY MidFacts, SizeAssumption
  <1>2. IsFiniteSet(E) /\ E = c[1]..(c[2] - 1) /\ E \subseteq Index
    <2>1. c[1] \in Int /\ c[2] - 1 \in Int
      BY <1>1
    <2>2. IsFiniteSet(c[1]..(c[2] - 1))
      BY <2>1, FS_Interval
    <2> QED
      BY <1>1, <2>2, SizeAssumption DEF Elements, Index
  <1>3. V \subseteq Int
    BY <1>2 DEF TypeOK
  <1>4. c[2] - c[1] \in Rest
    <2>1. [i \in E |-> data[i]] \in [E -> V]
      OBVIOUS
    <2>2. \A v : {i \in E : [j \in E |-> data[j]][i] = v} = {i \in E : data[i] = v}
      OBVIOUS
    <2>3. \A v : Count([i \in E |-> data[i]], E, v) = Count(data, E, v)
      BY <2>2 DEF Count
    <2>4. \A i \in E : ~(i < c[1])
      BY <1>1, <1>2
    <2> HIDE DEF E, V
    <2>5. Reached([i \in E |-> data[i]], c[1])
      BY <2>1, <2>3, <2>4
    <2>6. c[2] - (c[2] - c[1]) = c[1] /\ c[2] - c[1] \in 0..(c[2] - c[1])
      BY <1>1
    <2> HIDE DEF Reached
    <2> QED
      BY <2>5, <2>6
  <1> HIDE DEF Reached
  <1>5. PICK n \in Rest : \A r \in Rest : n <= r
    <2>1. Rest \in SUBSET Nat /\ Rest # {}
      BY <1>1, <1>4
    <2> HIDE DEF Rest
    <2> QED
      BY <2>1, LeastNat
  <1>6. PICK d : Reached(d, c[2] - n)
    BY <1>5
  <1>7. CASE n = 0
    <2>1. Reached(d, c[2])
      BY <1>1, <1>6, <1>7
    <2>2. \A i \in E : /\ i < Mid(c) => d[i] <= d[Mid(c)]
                       /\ i > Mid(c) => d[i] >= d[Mid(c)]
      <3>1. d \in [E -> V] /\ Mid(c) \in E /\ Mid(c) < c[2]
        BY <1>1, <1>2, <2>1 DEF Reached
      <3>2. \A i \in E : i < c[2] /\ i \in Int /\ d[i] \in Int
        <4>1. \A i \in E : i < c[2] /\ i \in Int
          BY <1>1, <1>2
        <4> HIDE DEF E, V
        <4> QED
          BY <1>3, <3>1, <4>1
      <3>3. \A i, j \in E : i < j => d[i] <= d[j]
        BY <2>1, <3>2 DEF Reached
      <3> HIDE DEF E, V
      <3> QED
        BY <3>1, <3>2, <3>3
    <2>3. d \in Partitions(c)
      BY <2>1, <2>2 DEF Reached, Partitions
    <2> QED
      BY <2>3
  <1>8. CASE n # 0
    <2> DEFINE k == c[2] - n
               S == {i \in E : k <= i}
    <2>1. n \in Int /\ n > 0 /\ n <= c[2] - c[1] /\ k \in E /\ k \in Int /\ k \in S
      BY <1>1, <1>2, <1>5, <1>8
    <2>2. Reached(d, k) /\ d \in [E -> V]
      BY <1>6 DEF Reached
    <2> HIDE DEF k
    <2>3. IsFiniteSet(S) /\ S # {} /\ \A i \in S : d[i] \in Int
      BY <1>2, <1>3, <2>1, <2>2, FS_Subset
    <2>4. PICK m \in S : \A i \in S : d[m] <= d[i]
      BY <2>3, LeastElement
    <2> DEFINE e == [d EXCEPT ![k] = d[m], ![m] = d[k]]
    <2>5. e \in [E -> V] /\ m \in E /\ k <= m
      BY <2>1, <2>2
    <2>6. \A v \in V : Count(e, E, v) = Count(data, E, v)
      <3>1. \A v \in V : Count(e, E, v) = Count(d, E, v)
        <4>1. IsFiniteSet(E) /\ k \in E /\ m \in E /\ d \in [E -> V]
          BY <1>2, <2>1, <2>2, <2>5
        <4>2. /\ e \in [E -> V] /\ e[k] = d[m] /\ e[m] = d[k]
              /\ \A i \in E \ {k, m} : e[i] = d[i]
          BY <2>5, <4>1
        <4> HIDE DEF E, V, e
        <4> QED
          BY <4>1, <4>2, SwapKeeps
      <3> QED
        BY <2>2, <3>1 DEF Reached
    <2>7. ASSUME NEW i \in E, NEW j \in E, i < k + 1, i < j PROVE e[i] <= e[j]
      <3>1. i \in Int /\ j \in Int /\ m \in Int
        BY <1>1, <1>2, <2>5
      <3>2. e[j] = IF j = m THEN d[k] ELSE IF j = k THEN d[m] ELSE d[j]
        BY <2>1, <2>2, <2>5
      <3>3. CASE i < k
        <4>1. e[i] = d[i]
          BY <2>1, <2>2, <2>5, <3>1, <3>3
        <4>2. d[i] <= d[j] /\ d[i] <= d[k] /\ d[i] <= d[m]
          BY <2>1, <2>2, <2>5, <2>7, <3>1, <3>3 DEF Reached
        <4> HIDE DEF e
        <4> QED
          BY <3>2, <4>1, <4>2
      <3>4. CASE i = k
        <4>1. e[i] = d[m]
          BY <2>1, <2>2, <2>5, <3>4
        <4>2. j \in S /\ j # k
          BY <2>1, <2>7, <3>1, <3>4
        <4>3. d[m] <= d[j] /\ d[m] <= d[k]
          BY <2>1, <2>4, <4>2
        <4> HIDE DEF e
        <4> QED
          BY <3>2, <4>1, <4>2, <4>3
      <3> QED
        BY <2>1, <2>7, <3>1, <3>3, <3>4
    <2>8. Reached(e, k + 1)
      BY <2>5, <2>6, <2>7 DEF Reached
    <2>9. k + 1 = c[2] - (n - 1) /\ n - 1 \in 0..(c[2] - c[1])
      BY <1>1, <2>1 DEF k
    <2> HIDE DEF e
    <2>10. n - 1 \in Rest
      BY <2>8, <2>9
    <2> QED
      BY <1>5, <2>1, <2>10
  <1> QED
    BY <1>7, <1>8

-----------------------------------------------------------------------------
(***************************************************************************)
(* Why every sort ends (SortEnds): until it does some call can step, and   *)
(* each step brings the calls it changes closer to their ends.             *)
(***************************************************************************)

\* The guards of the actions of c; nth_element returns because there is an order
\* it may leave the elements in (PartitionsExist).
CanStep(c) ==
  \/ pc[c] \in {"called", "nth_element", "left", "right"}
  \/ pc[c] = "in_left" /\ pc[Left(c)] = "returned"
  \/ pc[c] = "in_right" /\ pc[Right(c)] \in Over
  \/ pc[c] \in {"join", "unwind"} /\ pc[Left(c)] = "returned"
  \/ pc[c] = "failed" /\ FirstOfThread(c)
  \/ pc[c] = "returned" /\ c = Root

\* The calls do not all wait for each other.
NotStuck == outcome = "sorting" => \E c \in Calls : CanStep(c)

\* How far a call is from its end.
Rank == [p \in Points |->
           CASE p = "none" -> 8
             [] p = "called" -> 7
             [] p = "nth_element" -> 6
             [] p = "left" -> 5
             [] p = "in_left" -> 4
             [] p = "right" -> 3
             [] p = "in_right" -> 2
             [] p \in {"join", "unwind"} -> 1
             [] p \in Over -> 0]

Descends(c) == Rank[pc'[c]] < Rank[pc[c]]

\* There are no more steps than there are points in all calls together, and one.
StepsDown ==
  /\ outcome = "sorting"
  /\ \A c \in Calls : pc'[c] = pc[c] \/ Descends(c)
  /\ outcome' # "sorting" \/ \E c \in Calls : Descends(c)

CallsDescend == [][StepsDown]_vars

LEMMA RankOf ==
  /\ Rank["none"] = 8 /\ Rank["called"] = 7 /\ Rank["nth_element"] = 6 /\ Rank["left"] = 5
  /\ Rank["in_left"] = 4 /\ Rank["right"] = 3 /\ Rank["in_right"] = 2 /\ Rank["join"] = 1
  /\ Rank["unwind"] = 1 /\ Rank["returned"] = 0 /\ Rank["failed"] = 0
  BY DEF Rank, Points, Over

\* Of the calls that are not over one of the smallest can step, or one it has
\* waited for has failed in a thread of its own.
LEMMA SmallestGoesOn == IndInv /\ Started(Root) => NotStuck
  <1> SUFFICES ASSUME IndInv, Started(Root) PROVE \E c \in Calls : CanStep(c)
    BY DEF NotStuck
  <1> DEFINE L == {c \in Calls : Live(c)}
             R == {Size(c) : c \in L}
  <1>1. CASE L = {}
    <2>1. Root \in Calls
      BY SizeAssumption DEF Root, Calls
    <2>2. pc[Root] \in Over
      BY <1>1, <2>1 DEF Live
    <2> QED
      BY <2>1, <2>2 DEF Over, CanStep, FirstOfThread
  <1>2. CASE L # {}
    <2>1. PICK x \in R : \A y \in R : x <= y
      <3>1. R \in SUBSET Nat /\ R # {}
        BY <1>2, MidFacts
      <3> QED
        BY <3>1, LeastNat
    <2>2. PICK c \in L : x = Size(c)
      OBVIOUS
    <2>3. ASSUME NEW d \in Calls, Started(d), Size(d) < Size(c) PROVE pc[d] \in Over
      <3>1. d \notin L
        <4>1. Size(d) \in Nat /\ Size(c) \in Nat /\ ~(Size(c) <= Size(d))
          BY <2>3, MidFacts
        <4>2. Size(d) \notin R
          BY <2>1, <2>2, <4>1
        <4> QED
          BY <4>2
      <3> QED
        BY <2>3, <3>1 DEF Live
    <2>4. c \in Calls /\ pc[c] \in Points /\ pc[c] \notin Over \cup {"none"}
      BY <2>2 DEF Live, Started, IndInv, CallsInv, TypeOK
    <2>5. CASE pc[c] \in {"called", "nth_element", "left", "right"}
      BY <2>4, <2>5 DEF CanStep
    <2>6. CASE pc[c] \in {"in_left", "in_right", "join", "unwind"}
      <3>1. /\ Size(c) > 1 /\ Started(Left(c))
            /\ pc[c] = "in_right" => Started(Right(c))
        BY <2>4, <2>6 DEF IndInv, CallsInv, TypeOK
      <3>2. /\ Left(c) \in Calls /\ Right(c) \in Calls /\ Left(c) # c
            /\ Size(Left(c)) < Size(c) /\ Size(Right(c)) < Size(c)
        <4>1. /\ c[1] \in 0..N /\ c[2] \in 0..N /\ c[1] < Mid(c) /\ Mid(c) < c[2]
              /\ Mid(c) \in Int /\ Left(c) \in Calls /\ Right(c) \in Calls
          BY <2>4, <3>1, MidFacts
        <4>2. /\ Size(Left(c)) = Mid(c) - c[1] /\ Size(Right(c)) = c[2] - (Mid(c) + 1)
              /\ Size(c) = c[2] - c[1]
          BY DEF Size, Left, Right
        <4> HIDE DEF Size, Mid
        <4> QED
          BY <4>1, <4>2, SizeAssumption
      <3>3. pc[Left(c)] \in Over
        BY <2>3, <3>1, <3>2
      <3>4. CASE pc[c] = "in_right"
        <4>1. pc[Right(c)] \in Over
          BY <2>3, <3>1, <3>2, <3>4
        <4> QED
          BY <2>4, <3>4, <4>1 DEF CanStep
      <3>5. CASE pc[Left(c)] = "returned"
        BY <2>4, <2>6, <3>4, <3>5 DEF CanStep
      <3>6. CASE pc[Left(c)] = "failed" /\ pc[c] # "in_right"
        <4>1. FirstOfThread(Left(c))
          BY <2>4, <3>2 DEF FirstOfThread, Started
        <4> QED
          BY <3>2, <3>6, <4>1 DEF CanStep
      <3> QED
        BY <3>3, <3>4, <3>5, <3>6 DEF Over
    <2> QED
      BY <2>4, <2>5, <2>6 DEF Points, Over
  <1> QED
    BY <1>1, <1>2

LEMMA MoveDescends ==
  ASSUME TypeOK, outcome = "sorting", NEW c \in Calls, NEW p, pc' = [pc EXCEPT ![c] = p],
         Rank[p] < Rank[pc[c]]
  PROVE  StepsDown
  <1>1. pc'[c] = p /\ \A d \in Calls \ {c} : pc'[d] = pc[d]
    BY DEF TypeOK
  <1> QED
    BY <1>1 DEF StepsDown, Descends

LEMMA CallDescends ==
  ASSUME TypeOK, outcome = "sorting", NEW c \in Calls, NEW d \in Calls, d # c, pc[d] = "none",
         NEW p, pc' = [pc EXCEPT ![c] = p, ![d] = "called"], Rank[p] < Rank[pc[c]]
  PROVE  StepsDown
  <1>1. pc'[c] = p /\ pc'[d] = "called" /\ \A e \in Calls \ {c, d} : pc'[e] = pc[e]
    BY DEF TypeOK
  <1>2. Descends(c) /\ Descends(d)
    BY <1>1, RankOf DEF Descends
  <1> QED
    BY <1>1, <1>2 DEF StepsDown

LEMMA StepDescends == IndInv /\ Next => StepsDown
  <1> SUFFICES ASSUME IndInv, Next PROVE StepsDown
    OBVIOUS
  <1>0. TypeOK /\ TreeInv /\ NoOrphans
    BY DEF IndInv, CallsInv
  <1>1. ASSUME NEW c \in Calls,
               \/ ReturnAtOnce(c) \/ Begin(c) \/ Partition(c) \/ ThreadThrows(c) \/ LeftReturns(c)
               \/ RightReturns(c) \/ RightThrows(c) \/ Join(c)
        PROVE  StepsDown
    <2>1. PICK p \in Points : pc' = [pc EXCEPT ![c] = p] /\ Rank[p] < Rank[pc[c]]
      BY <1>1, RankOf
         DEF ReturnAtOnce, Begin, Partition, ThreadThrows, LeftReturns, RightReturns, RightThrows,
             Join, At, Goto, Points
    <2>2. outcome = "sorting"
      BY <1>1 DEF ReturnAtOnce, Begin, Partition, ThreadThrows, LeftReturns, RightReturns,
                  RightThrows, Join, At
    <2> QED
      BY <1>0, <2>1, <2>2, MoveDescends
  <1>2. ASSUME NEW c \in Calls, StartLeft(c) PROVE StepsDown
    <2>1. pc[c] = "left" /\ outcome = "sorting" /\ Size(c) > 1
      BY <1>0, <1>2 DEF StartLeft, At, TypeOK
    <2>2. Left(c) \in Calls
      BY <2>1, MidFacts
    <2>3. Left(c) # c /\ pc[Left(c)] = "none"
      BY <1>0, <2>1, <2>2, FreshHalf DEF Started
    <2>4. PICK p \in {"right", "in_left"} : pc' = [pc EXCEPT ![c] = p, ![Left(c)] = "called"]
      BY <1>2 DEF StartLeft, GotoAndCall
    <2>5. Rank[p] < Rank[pc[c]]
      BY <2>1, <2>4, RankOf
    <2> QED
      BY <1>0, <2>1, <2>2, <2>3, <2>4, <2>5, CallDescends
  <1>3. ASSUME NEW c \in Calls, CallRight(c) PROVE StepsDown
    <2>1. pc[c] = "right" /\ outcome = "sorting" /\ Size(c) > 1
      BY <1>0, <1>3 DEF CallRight, At, TypeOK
    <2>2. Right(c) \in Calls
      BY <2>1, MidFacts
    <2>3. Right(c) # c /\ pc[Right(c)] = "none"
      BY <1>0, <2>1, <2>2, FreshHalf DEF Started
    <2>4. pc' = [pc EXCEPT ![c] = "in_right", ![Right(c)] = "called"]
      BY <1>3 DEF CallRight, GotoAndCall
    <2>5. Rank["in_right"] < Rank[pc[c]]
      BY <2>1, RankOf
    <2> QED
      BY <1>0, <2>1, <2>2, <2>3, <2>4, <2>5, CallDescends
  <1>4. ASSUME NEW c \in Calls, Terminate(c) PROVE StepsDown
    BY <1>4 DEF Terminate, At, StepsDown
  <1>5. CASE Check
    BY <1>5 DEF Check, At, StepsDown
  <1> QED
    BY <1>1, <1>2, <1>3, <1>4, <1>5 DEF Next

\* Nothing a call does makes the first one forgotten.
LEMMA RootStays == ASSUME IndInv, Started(Root), [Next]_vars PROVE Started(Root)'
  <1>1. Root \in Calls
    BY SizeAssumption DEF Root, Calls
  <1>2. CASE Next
    <2>1. pc'[Root] = pc[Root] \/ Rank[pc'[Root]] < Rank[pc[Root]]
      BY <1>1, <1>2, StepDescends DEF StepsDown, Descends
    <2>2. Rank[pc[Root]] <= 8
      BY <1>1, RankOf DEF IndInv, CallsInv, TypeOK, Points
    <2>3. Rank[pc[Root]] \in Int
      BY <1>1, RankOf DEF IndInv, CallsInv, TypeOK, Points
    <2> QED
      BY <2>1, <2>2, <2>3, RankOf DEF Started
  <1>3. CASE UNCHANGED vars
    BY <1>3 DEF vars, Started
  <1> QED
    BY <1>2, <1>3

\* Until the sort has ended some call can step: the waiting of callers for their
\* halves and of JoinableThreads for theirs is no circle.
THEOREM SortNeverStuck == Spec => []NotStuck
  <1> DEFINE RootInv == Started(Root)
  <1>1. Init => RootInv
    BY SizeAssumption DEF Init, Started, Root, Calls
  <1>2. IndInv /\ RootInv /\ [Next]_vars => RootInv'
    BY RootStays
  <1>3. IndInv /\ RootInv => NotStuck
    BY SmallestGoesOn
  <1> HIDE DEF RootInv
  <1>4. Spec => []RootInv
    BY <1>1, <1>2, Invariance, PTL DEF Spec
  <1> QED
    BY <1>3, <1>4, Invariance, PTL

\* Each step of a sort uses up a point of one of its calls, of which there are
\* finitely many, or is the last.
THEOREM EveryStepDescends == Spec => CallsDescend
  <1>1. IndInv /\ [Next]_vars => [StepsDown]_vars
    BY StepDescends
  <1> QED
    BY <1>1, Invariance, PTL DEF Spec, CallsDescend
=============================================================================
