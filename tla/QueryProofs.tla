---------------------------- MODULE QueryProofs ----------------------------
(***************************************************************************)
(* What parseWhere writes for a Result means what its conditions mean, for *)
(* every table, every nesting of And and Or and every number of arguments; *)
(* so queries return, and writes touch, what the conditions select.        *)
(***************************************************************************)
EXTENDS Query, FiniteSetTheorems, SequenceTheorems, WellFoundedInduction, TLAPS

----------------------------------------------------------------------------
\* Least elements and recursive functions

\* A set of natural numbers that is not empty has a least element: the initial segments
\* of its members are finite sets, which \subset orders well.
LEMMA Least ==
  ASSUME NEW T, T \subseteq Nat, T # {}
  PROVE  \E x \in T : \A y \in T : x <= y
<1> DEFINE R == StrictSubsetOrdering(Nat)
           U == {1 .. n : n \in T}
<1>1. IsWellFoundedOn(R, FiniteSubsetsOf(Nat))
  BY FS_StrictSubsetOrderingWellFounded
<1>2. U \subseteq FiniteSubsetsOf(Nat) /\ U # {}
  <2>1. \A n \in T : 1 .. n \subseteq Nat /\ IsFiniteSet(1 .. n)
    BY FS_Interval
  <2> QED BY <2>1 DEF FiniteSubsetsOf
<1>3. PICK x \in U : \A y \in U : <<y, x>> \notin R
  <2> HIDE DEF R, U
  <2> QED BY <1>1, <1>2, WFMin
<1>4. PICK n \in T : x = 1 .. n
  OBVIOUS
<1>5. ASSUME NEW m \in T, m < n PROVE FALSE
  <2>1. 1 .. m \subseteq 1 .. n /\ n \in 1 .. n /\ n \notin 1 .. m
    BY <1>5
  <2>2. <<1 .. m, 1 .. n>> \in R
    BY <2>1 DEF StrictSubsetOrdering
  <2> QED BY <1>3, <1>4, <2>2
<1> QED BY <1>5

\* A recursion on D whose calls go to smaller arguments, and what it defines
Recursion(D, B, size, step) ==
  /\ B # {} /\ size \in [D -> Nat] /\ step \in [D \X [D -> B] -> B]
  /\ \A d \in D : \A f, g \in [D -> B] :
       (\A e \in D : size[e] < size[d] => f[e] = g[e]) => step[<<d, f>>] = step[<<d, g>>]

Solutions(D, B, step) == {f \in [D -> B] : \A d \in D : f[d] = step[<<d, f>>]}

\* Such a recursion is a function: approximations that are right on ever larger
\* arguments exist, agree with each other, and are put together.
LEMMA RecursionWorks ==
  ASSUME NEW D, NEW B, NEW size, NEW step, Recursion(D, B, size, step)
  PROVE  Solutions(D, B, step) # {}
<1> USE DEF Recursion
<1> DEFINE Good(m) == {f \in [D -> B] : \A d \in D : size[d] < m => f[d] = step[<<d, f>>]}
           Bad == {m \in Nat : Good(m) = {}}
<1>1. Good(0) # {}
  <2>1. PICK b \in B : TRUE
    OBVIOUS
  <2>2. [d \in D |-> b] \in Good(0)
    OBVIOUS
  <2> QED BY <2>2
<1>2. ASSUME NEW m \in Nat, Good(m) # {} PROVE Good(m + 1) # {}
  <2>1. PICK f \in Good(m) : TRUE
    BY <1>2
  <2>2. f \in [D -> B] /\ \A d \in D : size[d] < m => f[d] = step[<<d, f>>]
    OBVIOUS
  <2> DEFINE g == [d \in D |-> step[<<d, f>>]]
  <2>3. g \in [D -> B]
    BY <2>2
  <2>4. ASSUME NEW d \in D, size[d] < m + 1 PROVE g[d] = step[<<d, g>>]
    <3>1. \A e \in D : size[e] < size[d] => f[e] = g[e]
      BY <2>2, <2>4
    <3>2. step[<<d, f>>] = step[<<d, g>>]
      BY <2>2, <2>3, <3>1
    <3> QED BY <3>2
  <2> HIDE DEF g
  <2> QED BY <2>3, <2>4
<1>3. \A m \in Nat : Good(m) # {}
  <2> HIDE DEF Good
  <2>1. SUFFICES ASSUME Bad # {} PROVE FALSE
    OBVIOUS
  <2>2. PICK m \in Bad : \A k \in Bad : m <= k
    BY <2>1, Least
  <2>3. m # 0 /\ m - 1 \in Nat /\ m - 1 \notin Bad
    BY <1>1, <2>2
  <2> QED BY <1>2, <2>2, <2>3
<1>4. ASSUME NEW m \in Nat, NEW k \in Nat, NEW f \in Good(m), NEW g \in Good(k)
      PROVE  \A d \in D : size[d] < m /\ size[d] < k => f[d] = g[d]
  <2> DEFINE Off == {n \in Nat : n < m /\ n < k /\ \E d \in D : size[d] = n /\ f[d] # g[d]}
  <2>1. SUFFICES ASSUME Off # {} PROVE FALSE
    OBVIOUS
  <2>2. PICK n \in Off : \A j \in Off : n <= j
    BY <2>1, Least
  <2>3. PICK d \in D : size[d] = n /\ f[d] # g[d]
    BY <2>2
  <2>4. \A e \in D : size[e] < size[d] => f[e] = g[e]
    BY <2>2, <2>3
  <2>5. step[<<d, f>>] = step[<<d, g>>]
    BY <2>4
  <2> QED BY <2>2, <2>3, <2>5
<1> DEFINE Near(d) == CHOOSE f \in Good(size[d] + 1) : TRUE
           F == [d \in D |-> Near(d)[d]]
<1>5. \A d \in D : Near(d) \in Good(size[d] + 1)
  <2> HIDE DEF Good
  <2> QED BY <1>3
<1>6. \A d \in D : Near(d) \in [D -> B] /\ Near(d)[d] = step[<<d, Near(d)>>]
  <2> SUFFICES ASSUME NEW d \in D PROVE Near(d) \in [D -> B] /\ Near(d)[d] = step[<<d, Near(d)>>]
    OBVIOUS
  <2>1. Near(d) \in Good(size[d] + 1)
    BY <1>5
  <2> HIDE DEF Near
  <2> QED BY <2>1
<1>7. F \in [D -> B]
  <2> HIDE DEF Near
  <2> QED BY <1>6
<1>8. ASSUME NEW d \in D PROVE F[d] = step[<<d, F>>]
  <2>1. \A e \in D : size[e] < size[d] => F[e] = Near(d)[e]
    <3> SUFFICES ASSUME NEW e \in D, size[e] < size[d] PROVE Near(e)[e] = Near(d)[e]
      OBVIOUS
    <3>1. Near(e) \in Good(size[e] + 1) /\ Near(d) \in Good(size[d] + 1)
      BY <1>5
    <3> HIDE DEF Near, Good
    <3> QED BY <1>4, <3>1
  <2> HIDE DEF Near
  <2>2. step[<<d, F>>] = step[<<d, Near(d)>>]
    <3> HIDE DEF F
    <3> QED BY <1>6, <1>7, <2>1
  <2> QED BY <1>6, <2>2
<1> HIDE DEF F
<1> QED BY <1>7, <1>8 DEF Solutions

----------------------------------------------------------------------------
\* Counting tokens

\* A count is a natural number.
LEMMA CountType ==
  ASSUME NEW ts, NEW T, NEW i \in Nat
  PROVE  HowMany(ts, T, i) \in Nat /\ IsFiniteSet({j \in 1 .. i : ts[j] \in T})
<1>1. IsFiniteSet(1 .. i)
  BY FS_Interval
<1>2. IsFiniteSet({j \in 1 .. i : ts[j] \in T})
  BY <1>1, FS_Subset
<1> QED BY <1>2, FS_CardinalityType DEF HowMany

\* Of no tokens there are none.
LEMMA CountZero ==
  ASSUME NEW ts, NEW T
  PROVE  HowMany(ts, T, 0) = 0
<1>1. {j \in 1 .. 0 : ts[j] \in T} = {}
  OBVIOUS
<1> QED BY <1>1, FS_EmptySet DEF HowMany

\* One token more
LEMMA CountNext ==
  ASSUME NEW ts, NEW T, NEW i \in Nat
  PROVE  HowMany(ts, T, i + 1) = HowMany(ts, T, i) + (IF ts[i + 1] \in T THEN 1 ELSE 0)
<1> DEFINE A == {j \in 1 .. i : ts[j] \in T}
           A1 == {j \in 1 .. i + 1 : ts[j] \in T}
<1>1. IsFiniteSet(A) /\ i + 1 \notin A
  <2>1. IsFiniteSet(A)
    BY CountType
  <2> QED BY <2>1
<1>2. CASE ts[i + 1] \in T
  <2>1. A1 = A \cup {i + 1}
    BY <1>2
  <2>2. Cardinality(A \cup {i + 1}) = Cardinality(A) + 1
    <3> HIDE DEF A
    <3> QED BY <1>1, FS_AddElement
  <2> QED BY <1>2, <2>1, <2>2 DEF HowMany
<1>3. CASE ts[i + 1] \notin T
  <2>1. A1 = A
    BY <1>3
  <2>2. HowMany(ts, T, i) \in Nat
    BY CountType
  <2> QED BY <1>3, <2>1, <2>2 DEF HowMany
<1> QED BY <1>2, <1>3

\* In a concatenation the tokens of the first part come first, then those of the second.
LEMMA CountFirst ==
  ASSUME NEW s \in Seq(Token), NEW t \in Seq(Token), NEW T, NEW i \in 0 .. Len(s)
  PROVE  HowMany(s \o t, T, i) = HowMany(s, T, i)
<1>1. \A j \in 1 .. i : (s \o t)[j] = s[j]
  OBVIOUS
<1>2. {j \in 1 .. i : (s \o t)[j] \in T} = {j \in 1 .. i : s[j] \in T}
  BY <1>1
<1> QED BY <1>2 DEF HowMany

\* Counts add up over a concatenation.
LEMMA CountConcat ==
  ASSUME NEW s \in Seq(Token), NEW t \in Seq(Token), NEW T
  PROVE  \A i \in 0 .. Len(t) :
           HowMany(s \o t, T, Len(s) + i) = HowMany(s, T, Len(s)) + HowMany(t, T, i)
<1>1. Len(s) \in Nat /\ Len(t) \in Nat
  OBVIOUS
<1>2. HowMany(s \o t, T, Len(s)) = HowMany(s, T, Len(s))
  BY <1>1, CountFirst
<1> DEFINE Off == {i \in 0 .. Len(t) :
                     HowMany(s \o t, T, Len(s) + i) # HowMany(s, T, Len(s)) + HowMany(t, T, i)}
<1>3. Off = {}
  <2>1. SUFFICES ASSUME Off # {} PROVE FALSE
    OBVIOUS
  <2>2. PICK i \in 0 .. Len(t) : i \in Off /\ \A k \in Off : i <= k
    <3>1. Off \subseteq Nat /\ Off \subseteq 0 .. Len(t)
      OBVIOUS
    <3> HIDE DEF Off
    <3> QED BY <2>1, <3>1, Least
  <2>3. i # 0
    <3>1. HowMany(s \o t, T, Len(s)) = HowMany(s, T, Len(s))
      BY <1>1, <1>2
    <3>2. HowMany(t, T, 0) = 0
      BY CountZero
    <3>3. HowMany(s, T, Len(s)) \in Nat
      BY <1>1, CountType
    <3>4. HowMany(s \o t, T, Len(s) + 0) = HowMany(s, T, Len(s)) + HowMany(t, T, 0)
      BY <1>1, <3>1, <3>2, <3>3
    <3> QED BY <2>2, <3>4
  <2>4. i - 1 \in 0 .. Len(t) /\ i - 1 \notin Off
    BY <1>1, <2>2, <2>3
  <2>5. HowMany(s \o t, T, Len(s) + (i - 1)) = HowMany(s, T, Len(s)) + HowMany(t, T, i - 1)
    BY <2>4
  <2>6. (s \o t)[Len(s) + i] = t[i]
    BY <1>1, <2>3
  <2>7. PICK k \in Nat : k = Len(s) + (i - 1)
    <3>1. Len(s) + (i - 1) \in Nat
      BY <1>1, <2>3
    <3> QED BY <3>1
  <2>8. PICK d \in {0, 1} : d = IF t[i] \in T THEN 1 ELSE 0
    OBVIOUS
  <2>9. HowMany(s \o t, T, Len(s) + i) = HowMany(s \o t, T, k) + d
    <3>1. HowMany(s \o t, T, k + 1) = HowMany(s \o t, T, k) + (IF (s \o t)[k + 1] \in T THEN 1 ELSE 0)
      BY ZenonT(60), CountNext
    <3>2. k + 1 = Len(s) + i
      BY <1>1, <2>7
    <3> QED BY <2>6, <2>8, <3>1, <3>2
  <2>10. HowMany(t, T, i) = HowMany(t, T, i - 1) + d
    <3>1. i - 1 \in Nat /\ (i - 1) + 1 = i
      BY <1>1, <2>3
    <3>2. HowMany(t, T, (i - 1) + 1) = HowMany(t, T, i - 1) + (IF t[(i - 1) + 1] \in T THEN 1 ELSE 0)
      BY <3>1, CountNext
    <3> QED BY <2>8, <3>1, <3>2
  <2>11. HowMany(s, T, Len(s)) \in Nat /\ HowMany(t, T, i - 1) \in Nat
    <3>1. Len(s) \in Nat /\ i - 1 \in Nat
      BY <1>1, <2>3
    <3> QED BY <3>1, CountType
  <2>12. HowMany(s \o t, T, Len(s) + i) = HowMany(s, T, Len(s)) + HowMany(t, T, i)
    <3> HIDE DEF Off
    <3> QED BY <2>5, <2>7, <2>9, <2>10, <2>11
  <2> QED BY <2>2, <2>12
<1> QED BY <1>3

\* A sequence of one token
LEMMA CountOne ==
  ASSUME NEW x, NEW T
  PROVE  HowMany(<<x>>, T, 1) = IF x \in T THEN 1 ELSE 0
<1>1. HowMany(<<x>>, T, 0 + 1) = HowMany(<<x>>, T, 0) + (IF <<x>>[0 + 1] \in T THEN 1 ELSE 0)
  BY CountNext
<1> QED BY <1>1, CountZero

----------------------------------------------------------------------------
\* How a condition is read

\* The reading of a condition from that of the shorter ones.
LastCut(ts, w) == CHOOSE i \in Cuts(ts, w) : \A j \in Cuts(ts, w) : j <= i
Before(ts, w) == SubSeq(ts, 1, LastCut(ts, w) - 1)
After(ts, w) == SubSeq(ts, LastCut(ts, w) + 1, Len(ts))
Inside(ts) == SubSeq(ts, 2, Len(ts) - 1)

Read(row, ts, holds) ==
  IF Cuts(ts, "OR") # {} THEN holds[Before(ts, "OR")] \/ holds[After(ts, "OR")]
  ELSE IF Cuts(ts, "AND") # {} THEN holds[Before(ts, "AND")] /\ holds[After(ts, "AND")]
  ELSE IF Len(ts) > 1 THEN ts[1] = Word("(") /\ holds[Inside(ts)]
  ELSE Len(ts) = 1 /\ ts[1].t = "atom" /\ AtomTrue(ts[1].e, row)

\* A cut there is, there is a last one.
LEMMA LastCutExists ==
  ASSUME NEW ts \in Seq(Token), NEW w, Cuts(ts, w) # {}
  PROVE  /\ LastCut(ts, w) \in Cuts(ts, w)
         /\ \A j \in Cuts(ts, w) : j <= LastCut(ts, w)
         /\ LastCut(ts, w) \in 1 .. Len(ts)
<1> DEFINE T == {Len(ts) - i : i \in Cuts(ts, w)}
<1>1. Len(ts) \in Nat /\ Cuts(ts, w) \subseteq 1 .. Len(ts)
  BY DEF Cuts
<1>2. PICK x \in T : \A y \in T : x <= y
  <2>1. T \subseteq Nat /\ T # {}
    BY <1>1
  <2> HIDE DEF T
  <2> QED BY <2>1, Least
<1>3. PICK i \in Cuts(ts, w) : x = Len(ts) - i
  OBVIOUS
<1>4. \A j \in Cuts(ts, w) : j <= i
  <2> SUFFICES ASSUME NEW j \in Cuts(ts, w) PROVE j <= i
    OBVIOUS
  <2>1. Len(ts) - j \in T
    OBVIOUS
  <2>2. Len(ts) - i <= Len(ts) - j
    BY <1>2, <1>3, <2>1
  <2> QED BY <1>1, <2>2
<1>5. LastCut(ts, w) \in Cuts(ts, w) /\ \A j \in Cuts(ts, w) : j <= LastCut(ts, w)
  BY <1>4 DEF LastCut
<1> QED BY <1>1, <1>5

\* The parts that a reading is made of are shorter.
LEMMA PartsAreShorter ==
  ASSUME NEW ts \in Seq(Token)
  PROVE  /\ \A w : Cuts(ts, w) # {} =>
              /\ Before(ts, w) \in Seq(Token) /\ Len(Before(ts, w)) < Len(ts)
              /\ After(ts, w) \in Seq(Token) /\ Len(After(ts, w)) < Len(ts)
         /\ Len(ts) > 1 => Inside(ts) \in Seq(Token) /\ Len(Inside(ts)) < Len(ts)
<1>1. Len(ts) \in Nat /\ \A i \in 1 .. Len(ts) : ts[i] \in Token
  OBVIOUS
<1>2. ASSUME NEW w, Cuts(ts, w) # {}
      PROVE  /\ Before(ts, w) \in Seq(Token) /\ Len(Before(ts, w)) < Len(ts)
             /\ After(ts, w) \in Seq(Token) /\ Len(After(ts, w)) < Len(ts)
  <2>1. PICK k \in 1 .. Len(ts) : k = LastCut(ts, w)
    BY <1>2, LastCutExists
  <2>2. /\ SubSeq(ts, 1, k - 1) \in Seq(Token)
        /\ Len(SubSeq(ts, 1, k - 1)) = IF 1 <= k - 1 THEN (k - 1) - 1 + 1 ELSE 0
    <3>1. \A i \in 1 .. k - 1 : ts[i] \in Token
      BY <1>1
    <3> QED BY <1>1, <3>1, SubSeqProperties
  <2>3. /\ SubSeq(ts, k + 1, Len(ts)) \in Seq(Token)
        /\ Len(SubSeq(ts, k + 1, Len(ts))) = IF k + 1 <= Len(ts) THEN Len(ts) - (k + 1) + 1 ELSE 0
    <3>1. \A i \in k + 1 .. Len(ts) : ts[i] \in Token
      BY <1>1
    <3> QED BY <1>1, <3>1, SubSeqProperties
  <2> QED BY SMTT(60), <1>1, <2>1, <2>2, <2>3 DEF Before, After
<1>3. ASSUME Len(ts) > 1 PROVE Inside(ts) \in Seq(Token) /\ Len(Inside(ts)) < Len(ts)
  <2>1. \A i \in 2 .. Len(ts) - 1 : ts[i] \in Token
    BY <1>1
  <2>2. /\ SubSeq(ts, 2, Len(ts) - 1) \in Seq(Token)
        /\ Len(SubSeq(ts, 2, Len(ts) - 1)) =
             IF 2 <= Len(ts) - 1 THEN (Len(ts) - 1) - 2 + 1 ELSE 0
    BY <1>1, <2>1, SubSeqProperties
  <2> QED BY <1>1, <1>3, <2>2 DEF Inside
<1> QED BY <1>2, <1>3

\* Reading is a function that obeys its defining equation: every part is shorter.
LEMMA ReadingWorks ==
  ASSUME NEW row
  PROVE  \A ts \in Seq(Token) : Holds(ts, row) = Read(row, ts, Reading(row)) /\ Holds(ts, row) \in BOOLEAN
<1> DEFINE D == Seq(Token)
           size == [ts \in D |-> Len(ts)]
           step == [p \in D \X [D -> BOOLEAN] |-> Read(row, p[1], p[2])]
<1>1. ASSUME NEW ts, NEW h PROVE Read(row, ts, h) \in BOOLEAN
  BY DEF Read
<1>2. ASSUME NEW ts \in D, NEW f \in [D -> BOOLEAN], NEW g \in [D -> BOOLEAN],
             \A u \in D : Len(u) < Len(ts) => f[u] = g[u]
      PROVE  Read(row, ts, f) = Read(row, ts, g)
  <2>1. /\ \A w : Cuts(ts, w) # {} =>
             f[Before(ts, w)] = g[Before(ts, w)] /\ f[After(ts, w)] = g[After(ts, w)]
        /\ Len(ts) > 1 => f[Inside(ts)] = g[Inside(ts)]
    BY <1>2, PartsAreShorter
  <2> QED BY <2>1 DEF Read
<1>3. \E h \in [D -> BOOLEAN] : \A ts \in D : h[ts] = step[<<ts, h>>]
  <2>1. size \in [D -> Nat] /\ BOOLEAN # {}
    <3>1. \A ts \in D : Len(ts) \in Nat
      OBVIOUS
    <3> HIDE DEF D
    <3> QED BY <3>1
  <2>2. step \in [D \X [D -> BOOLEAN] -> BOOLEAN]
    BY <1>1
  <2>3. ASSUME NEW d \in D, NEW f \in [D -> BOOLEAN], NEW g \in [D -> BOOLEAN],
               \A e \in D : size[e] < size[d] => f[e] = g[e]
        PROVE  step[<<d, f>>] = step[<<d, g>>]
    <3>1. \A e \in D : Len(e) < Len(d) => f[e] = g[e]
      BY <2>3
    <3>2. Read(row, d, f) = Read(row, d, g)
      <4> HIDE DEF D
      <4> QED BY <1>2, <3>1
    <3> QED BY <3>2
  <2>4. \A d \in D : \A f, g \in [D -> BOOLEAN] :
          (\A e \in D : size[e] < size[d] => f[e] = g[e]) => step[<<d, f>>] = step[<<d, g>>]
    <3> HIDE DEF D, size, step
    <3> QED BY <2>3
  <2>5. Recursion(D, BOOLEAN, size, step)
    <3> HIDE DEF D, size, step
    <3> QED BY <2>1, <2>2, <2>4 DEF Recursion
  <2>6. Solutions(D, BOOLEAN, step) # {}
    <3> HIDE DEF D, size, step
    <3> QED BY <2>5, RecursionWorks
  <2> HIDE DEF D, size, step
  <2> QED BY <2>6 DEF Solutions
<1>4. PICK h \in [D -> BOOLEAN] : \A ts \in D : h[ts] = Read(row, ts, h)
  BY <1>3
<1>5. h = [ts \in D |-> Read(row, ts, h)]
  BY <1>4
<1>6. Reading(row) = CHOOSE f : f = [ts \in D |-> Read(row, ts, f)]
  BY DEF Reading, Read, Before, After, Inside, LastCut
<1>7. Reading(row) = [ts \in D |-> Read(row, ts, Reading(row))]
  <2> HIDE DEF D
  <2> QED BY <1>5, <1>6
<1> QED BY <1>1, <1>7 DEF Holds

----------------------------------------------------------------------------
\* Conditions that are one whole, and how they are joined

Opens(ts, i) == HowMany(ts, {Word("(")}, i)
Closes(ts, i) == HowMany(ts, {Word(")")}, i)

\* Every ")" closes a "(" before it, and all are closed.
Balanced(ts) ==
  /\ \A i \in 0 .. Len(ts) : Closes(ts, i) <= Opens(ts, i)
  /\ Closes(ts, Len(ts)) = Opens(ts, Len(ts))

\* Outside of parentheses there is no word but op; there is none at all.
Chain(op, ts) ==
  /\ ts \in Seq(Token) /\ ts # <<>> /\ Balanced(ts)
  /\ \A w \in {"AND", "OR"} : w # op => Cuts(ts, w) = {}
Closed(ts) ==
  /\ ts \in Seq(Token) /\ ts # <<>> /\ Balanced(ts)
  /\ \A w \in {"AND", "OR"} : Cuts(ts, w) = {}

\* What has no word outside of parentheses is a chain of any word.
LEMMA ClosedIsChain ==
  ASSUME NEW op, NEW ts, Closed(ts)
  PROVE  Chain(op, ts)
BY DEF Closed, Chain

\* The words are distinct tokens and no parameters, atoms are tokens.
LEMMA Words ==
  /\ \A w \in {"(", ")", "AND", "OR"} : Word(w) \in Token
  /\ \A e \in Entry : Atom(e) \in Token /\ Atom(e).t = "atom" /\ Atom(e).e = e
  /\ \A w, x : Word(w) = Word(x) => w = x
  /\ \A w, e : Word(w) = Atom(e) => w = "atom"
<1>1. \A w, x : Word(w) = Word(x) => w = x
  <2>1. \A w : Word(w).t = w
    BY DEF Word
  <2> QED BY <2>1
<1>2. \A w, e : Word(w) = Atom(e) => w = "atom"
  <2>1. \A w : Word(w).t = w
    BY DEF Word
  <2>2. \A e : Atom(e).t = "atom"
    BY DEF Atom
  <2> QED BY <2>1, <2>2
<1> QED BY <1>1, <1>2 DEF Word, Atom, Token

\* Concatenation, for sequences of tokens
LEMMA TokenConcat ==
  ASSUME NEW s \in Seq(Token), NEW t \in Seq(Token)
  PROVE  /\ s \o t \in Seq(Token) /\ Len(s) \in Nat /\ Len(t) \in Nat /\ Len(s \o t) = Len(s) + Len(t)
         /\ \A i \in 1 .. Len(s) : (s \o t)[i] = s[i]
         /\ \A i \in 1 .. Len(t) : (s \o t)[Len(s) + i] = t[i]
<1>1. Len(s) \in Nat /\ Len(t) \in Nat
  OBVIOUS
<1>2. s \o t \in Seq(Token) /\ Len(s \o t) = Len(s) + Len(t)
  OBVIOUS
<1>3. \A i \in 1 .. Len(s) : (s \o t)[i] = s[i]
  OBVIOUS
<1>4. \A i \in 1 .. Len(t) : (s \o t)[Len(s) + i] = t[i]
  OBVIOUS
<1> QED BY <1>1, <1>2, <1>3, <1>4

\* Parentheses are counted in natural numbers.
LEMMA CountsAreNat ==
  ASSUME NEW ts, NEW i \in Nat
  PROVE  Opens(ts, i) \in Nat /\ Closes(ts, i) \in Nat
BY CountType DEF Opens, Closes

\* Parentheses of a concatenation
LEMMA CountsOfConcat ==
  ASSUME NEW s \in Seq(Token), NEW t \in Seq(Token)
  PROVE  /\ \A i \in 0 .. Len(s) : Opens(s \o t, i) = Opens(s, i) /\ Closes(s \o t, i) = Closes(s, i)
         /\ \A i \in 0 .. Len(t) :
              /\ Opens(s \o t, Len(s) + i) = Opens(s, Len(s)) + Opens(t, i)
              /\ Closes(s \o t, Len(s) + i) = Closes(s, Len(s)) + Closes(t, i)
<1>1. ASSUME NEW T
      PROVE  /\ \A i \in 0 .. Len(s) : HowMany(s \o t, T, i) = HowMany(s, T, i)
             /\ \A i \in 0 .. Len(t) :
                  HowMany(s \o t, T, Len(s) + i) = HowMany(s, T, Len(s)) + HowMany(t, T, i)
  <2>1. \A i \in 0 .. Len(s) : HowMany(s \o t, T, i) = HowMany(s, T, i)
    BY CountFirst
  <2>2. \A i \in 0 .. Len(t) :
          HowMany(s \o t, T, Len(s) + i) = HowMany(s, T, Len(s)) + HowMany(t, T, i)
    BY CountConcat
  <2> QED BY <2>1, <2>2
<1>2. \A i \in 0 .. Len(s) : Opens(s \o t, i) = Opens(s, i) /\ Closes(s \o t, i) = Closes(s, i)
  BY <1>1 DEF Opens, Closes
<1>3. \A i \in 0 .. Len(t) :
        /\ Opens(s \o t, Len(s) + i) = Opens(s, Len(s)) + Opens(t, i)
        /\ Closes(s \o t, Len(s) + i) = Closes(s, Len(s)) + Closes(t, i)
  BY <1>1 DEF Opens, Closes
<1> QED BY <1>2, <1>3

\* Balanced sequences in a row are balanced.
LEMMA BalancedConcat ==
  ASSUME NEW s \in Seq(Token), NEW t \in Seq(Token), Balanced(s), Balanced(t)
  PROVE  Balanced(s \o t)
<1>1. Len(s) \in Nat /\ Len(t) \in Nat /\ Len(s \o t) = Len(s) + Len(t)
  OBVIOUS
<1>2. ASSUME NEW i \in 0 .. Len(s \o t) PROVE Closes(s \o t, i) <= Opens(s \o t, i)
  <2>1. CASE i <= Len(s)
    <3>1. i \in 0 .. Len(s)
      BY <1>1, <2>1
    <3>2. Opens(s \o t, i) = Opens(s, i) /\ Closes(s \o t, i) = Closes(s, i)
      BY <3>1, CountsOfConcat
    <3> QED BY <3>1, <3>2 DEF Balanced
  <2>2. CASE i > Len(s)
    <3>1. PICK k \in 0 .. Len(t) : i = Len(s) + k
      <4>1. i - Len(s) \in 0 .. Len(t) /\ i = Len(s) + (i - Len(s))
        BY <1>1, <2>2
      <4> QED BY <4>1
    <3>2. /\ Opens(s \o t, i) = Opens(s, Len(s)) + Opens(t, k)
          /\ Closes(s \o t, i) = Closes(s, Len(s)) + Closes(t, k)
      BY <3>1, CountsOfConcat
    <3>3. Closes(s, Len(s)) = Opens(s, Len(s)) /\ Closes(t, k) <= Opens(t, k)
      BY DEF Balanced
    <3>4. Opens(s, Len(s)) \in Nat /\ Opens(t, k) \in Nat /\ Closes(t, k) \in Nat
      BY <1>1, CountsAreNat
    <3> QED BY <3>2, <3>3, <3>4
  <2> QED BY <1>1, <2>1, <2>2
<1>3. Closes(s \o t, Len(s) + Len(t)) = Opens(s \o t, Len(s) + Len(t))
  <2>1. Len(t) \in 0 .. Len(t)
    BY <1>1
  <2>2. /\ Opens(s \o t, Len(s) + Len(t)) = Opens(s, Len(s)) + Opens(t, Len(t))
        /\ Closes(s \o t, Len(s) + Len(t)) = Closes(s, Len(s)) + Closes(t, Len(t))
    BY <2>1, CountsOfConcat
  <2> QED BY <2>2 DEF Balanced
<1> QED BY <1>1, <1>2, <1>3 DEF Balanced

\* After a balanced part, what is outside of parentheses in the next is so in the whole.
LEMMA CutsOfConcat ==
  ASSUME NEW s \in Seq(Token), NEW t \in Seq(Token), Balanced(s), NEW w
  PROVE  Cuts(s \o t, w) = Cuts(s, w) \cup {Len(s) + k : k \in Cuts(t, w)}
<1>1. Len(s) \in Nat /\ Len(t) \in Nat /\ Len(s \o t) = Len(s) + Len(t)
  OBVIOUS
<1>2. \A ts, i : i \in Cuts(ts, w) <=>
        i \in 1 .. Len(ts) /\ ts[i] = Word(w) /\ Opens(ts, i) = Closes(ts, i)
  BY DEF Cuts, Opens, Closes
<1>3. ASSUME NEW i \in 1 .. Len(s) PROVE i \in Cuts(s \o t, w) <=> i \in Cuts(s, w)
  <2>1. i \in 0 .. Len(s) /\ i \in 1 .. Len(s \o t) /\ (s \o t)[i] = s[i]
    BY <1>1
  <2>2. Opens(s \o t, i) = Opens(s, i) /\ Closes(s \o t, i) = Closes(s, i)
    BY <2>1, CountsOfConcat
  <2> QED BY <1>2, <2>1, <2>2
<1>4. ASSUME NEW k \in 1 .. Len(t) PROVE Len(s) + k \in Cuts(s \o t, w) <=> k \in Cuts(t, w)
  <2>1. k \in 0 .. Len(t) /\ Len(s) + k \in 1 .. Len(s \o t) /\ (s \o t)[Len(s) + k] = t[k]
    BY <1>1
  <2>2. /\ Opens(s \o t, Len(s) + k) = Opens(s, Len(s)) + Opens(t, k)
        /\ Closes(s \o t, Len(s) + k) = Closes(s, Len(s)) + Closes(t, k)
    BY <2>1, CountsOfConcat
  <2>3. Closes(s, Len(s)) = Opens(s, Len(s))
    BY DEF Balanced
  <2>4. Opens(s, Len(s)) \in Nat /\ Opens(t, k) \in Nat /\ Closes(t, k) \in Nat
    BY <1>1, <2>1, CountsAreNat
  <2>5. Opens(s \o t, Len(s) + k) = Closes(s \o t, Len(s) + k) <=> Opens(t, k) = Closes(t, k)
    BY <2>2, <2>3, <2>4
  <2> QED BY <1>2, <2>1, <2>5
<1>5. /\ Cuts(s, w) \subseteq 1 .. Len(s) /\ Cuts(t, w) \subseteq 1 .. Len(t)
      /\ Cuts(s \o t, w) \subseteq 1 .. Len(s) + Len(t)
  BY <1>1 DEF Cuts
<1>6. ASSUME NEW i \in 1 .. Len(s) + Len(t), i > Len(s)
      PROVE  i \in Cuts(s \o t, w) <=> \E k \in Cuts(t, w) : i = Len(s) + k
  <2>1. i - Len(s) \in 1 .. Len(t) /\ Len(s) + (i - Len(s)) = i
    BY <1>1, <1>6
  <2>2. i \in Cuts(s \o t, w) <=> i - Len(s) \in Cuts(t, w)
    BY <1>4, <2>1
  <2>3. \A k \in Cuts(t, w) : i = Len(s) + k => k = i - Len(s)
    BY <1>1, <1>5
  <2> QED BY <2>1, <2>2, <2>3
<1>7. ASSUME NEW i \in 1 .. Len(s) PROVE \A k \in Cuts(t, w) : i # Len(s) + k
  BY <1>1, <1>5
<1>8. ASSUME NEW i PROVE i \in Cuts(s \o t, w) <=> i \in Cuts(s, w) \cup {Len(s) + k : k \in Cuts(t, w)}
  <2>1. CASE i \in 1 .. Len(s)
    BY <1>3, <1>7, <2>1
  <2>2. CASE i \in 1 .. Len(s) + Len(t) /\ i > Len(s)
    <3>1. i \notin Cuts(s, w)
      BY <1>1, <1>5, <2>2
    <3> QED BY <1>6, <2>2, <3>1
  <2>3. CASE i \notin 1 .. Len(s) + Len(t)
    BY <1>1, <1>5, <2>3
  <2> QED BY <1>1, <2>1, <2>2, <2>3
<1> QED BY <1>8

\* One token that is no parenthesis
LEMMA SingleToken ==
  ASSUME NEW x \in Token, x # Word("("), x # Word(")")
  PROVE  /\ <<x>> \in Seq(Token) /\ <<x>> # <<>> /\ Len(<<x>>) = 1 /\ Balanced(<<x>>)
         /\ \A w : Cuts(<<x>>, w) = IF x = Word(w) THEN {1} ELSE {}
<1>1. <<x>> \in Seq(Token) /\ <<x>> # <<>> /\ Len(<<x>>) = 1 /\ <<x>>[1] = x
  OBVIOUS
<1>2. \A i \in 0 .. 1 : Opens(<<x>>, i) = 0 /\ Closes(<<x>>, i) = 0
  <2>1. Opens(<<x>>, 0) = 0 /\ Closes(<<x>>, 0) = 0
    BY CountZero DEF Opens, Closes
  <2>2. Opens(<<x>>, 1) = 0 /\ Closes(<<x>>, 1) = 0
    <3>1. x \notin {Word("(")} /\ x \notin {Word(")")}
      OBVIOUS
    <3> QED BY <3>1, CountOne DEF Opens, Closes
  <2> QED BY <2>1, <2>2
<1>3. Balanced(<<x>>)
  BY <1>1, <1>2 DEF Balanced
<1>4. ASSUME NEW w PROVE Cuts(<<x>>, w) = IF x = Word(w) THEN {1} ELSE {}
  <2>1. Cuts(<<x>>, w) = {i \in 1 .. 1 : <<x>>[i] = Word(w) /\ Opens(<<x>>, i) = Closes(<<x>>, i)}
    BY <1>1 DEF Cuts, Opens, Closes
  <2>2. \A i \in 1 .. 1 : i = 1 /\ Opens(<<x>>, i) = Closes(<<x>>, i)
    BY <1>2
  <2> QED BY <1>1, <2>1, <2>2
<1> QED BY <1>1, <1>3, <1>4

\* A part of a condition, found by its tokens
LEMMA Slice ==
  ASSUME NEW s \in Seq(Token), NEW t \in Seq(Token), NEW k \in Nat, k + Len(t) <= Len(s),
         \A i \in 1 .. Len(t) : s[k + i] = t[i]
  PROVE  SubSeq(s, k + 1, k + Len(t)) = t
<1>1. Len(s) \in Nat /\ Len(t) \in Nat
  OBVIOUS
<1>2. PICK n \in Nat : n = Len(t)
  BY <1>1
<1>3. PICK b \in Int : b = k + n
  BY <1>2
<1>4. PICK a \in Int : a = k + 1
  OBVIOUS
<1>5. \A i \in a .. b : s[i] \in Token
  BY <1>1, <1>2, <1>3, <1>4
<1>6. /\ SubSeq(s, a, b) \in Seq(Token) /\ Len(SubSeq(s, a, b)) = IF a <= b THEN b - a + 1 ELSE 0
      /\ \A i \in 1 .. b - a + 1 : SubSeq(s, a, b)[i] = s[a + i - 1]
  BY <1>5, SubSeqProperties
<1>7. Len(SubSeq(s, a, b)) = n
  BY <1>3, <1>4, <1>6
<1>8. ASSUME NEW i \in 1 .. n PROVE SubSeq(s, a, b)[i] = t[i]
  <2>1. i \in 1 .. b - a + 1 /\ a + i - 1 = k + i
    BY <1>3, <1>4
  <2>2. s[k + i] = t[i]
    BY <1>2
  <2> QED BY <1>6, <2>1, <2>2
<1>9. SubSeq(s, a, b) = t
  BY <1>2, <1>6, <1>7, <1>8, SeqEqual
<1> QED BY <1>2, <1>3, <1>4, <1>9

\* One comparison reads as itself.
LEMMA AtomReads ==
  ASSUME NEW e \in Entry, NEW row
  PROVE  Closed(<<Atom(e)>>) /\ (Holds(<<Atom(e)>>, row) <=> AtomTrue(e, row))
<1>1. Atom(e) \in Token /\ Atom(e).t = "atom" /\ Atom(e).e = e /\ \A w : Word(w) = Atom(e) => w = "atom"
  BY Words
<1>2. Closed(<<Atom(e)>>)
  BY <1>1, SingleToken DEF Closed
<1> DEFINE ts == <<Atom(e)>>
<1>3. Len(ts) = 1 /\ ts[1] = Atom(e) /\ Cuts(ts, "OR") = {} /\ Cuts(ts, "AND") = {} /\ ts \in Seq(Token)
  BY <1>2 DEF Closed
<1>4. Holds(ts, row) = Read(row, ts, Reading(row))
  BY <1>3, ReadingWorks
<1>5. Read(row, ts, Reading(row)) <=> AtomTrue(e, row)
  <2> HIDE DEF ts
  <2> QED BY <1>1, <1>3 DEF Read
<1> QED BY <1>2, <1>4, <1>5

\* One more condition behind a chain of such: the chain goes on, and the word joins what
\* stands before it with the one behind it.
LEMMA JoinReads ==
  ASSUME NEW op \in {"AND", "OR"}, NEW p, NEW c, Chain(op, p), Closed(c), NEW row
  PROVE  LET s == p \o <<Word(op)>> \o c
         IN  /\ Chain(op, s)
             /\ Holds(s, row) <=> IF op = "OR" THEN Holds(p, row) \/ Holds(c, row)
                                              ELSE Holds(p, row) /\ Holds(c, row)
<1> DEFINE x == <<Word(op)>>
           q == p \o x
           s == q \o c
           m == Len(p)
<1>1. /\ p \in Seq(Token) /\ p # <<>> /\ Balanced(p) /\ c \in Seq(Token) /\ c # <<>> /\ Balanced(c)
      /\ \A w \in {"AND", "OR"} : Cuts(c, w) = {} /\ (w # op => Cuts(p, w) = {})
  BY DEF Chain, Closed
<1>2. /\ x \in Seq(Token) /\ Len(x) = 1 /\ Balanced(x)
      /\ \A w \in {"AND", "OR"} : Cuts(x, w) = IF w = op THEN {1} ELSE {}
  <2>1. Word(op) \in Token /\ Word(op) # Word("(") /\ Word(op) # Word(")")
    BY Words
  <2>2. \A w \in {"AND", "OR"} : Word(op) = Word(w) <=> w = op
    BY Words
  <2>3. /\ x \in Seq(Token) /\ Len(x) = 1 /\ Balanced(x)
        /\ \A w : Cuts(x, w) = IF Word(op) = Word(w) THEN {1} ELSE {}
    BY <2>1, SingleToken
  <2> HIDE DEF x
  <2> QED BY <2>2, <2>3
<1>3. q \in Seq(Token) /\ Len(q) = m + 1 /\ Balanced(q) /\ s \in Seq(Token) /\ Len(s) = m + 1 + Len(c)
      /\ m \in Nat /\ Len(c) \in Nat /\ s # <<>>
  <2>1. Balanced(q)
    <3> HIDE DEF x
    <3> QED BY <1>1, <1>2, BalancedConcat
  <2>2. q \in Seq(Token) /\ Len(q) = m + 1 /\ m \in Nat /\ Len(c) \in Nat
    <3>1. p \in Seq(Token) /\ x \in Seq(Token) /\ c \in Seq(Token) /\ Len(x) = 1
      BY <1>1, <1>2
    <3> HIDE DEF x
    <3>2. q \in Seq(Token) /\ Len(q) = Len(p) + Len(x)
      BY <3>1, ConcatProperties
    <3>3. Len(p) \in Nat /\ Len(c) \in Nat
      BY <3>1
    <3> HIDE DEF q
    <3> QED BY <3>1, <3>2, <3>3
  <2>3. s \in Seq(Token) /\ Len(s) = Len(q) + Len(c)
    <3> HIDE DEF q
    <3> QED BY SMTT(60), <1>1, <2>2
  <2>4. s # <<>>
    <3> HIDE DEF q, s
    <3> QED BY <2>2, <2>3
  <2> HIDE DEF q, s
  <2> QED BY <2>1, <2>2, <2>3, <2>4
<1>4. Balanced(s)
  <2> HIDE DEF q
  <2> QED BY <1>1, <1>3, BalancedConcat
<1>5. ASSUME NEW w \in {"AND", "OR"} PROVE Cuts(s, w) = Cuts(p, w) \cup (IF w = op THEN {m + 1} ELSE {})
  <2>1. Cuts(q, w) = Cuts(p, w) \cup {m + k : k \in Cuts(x, w)}
    <3> HIDE DEF x
    <3> QED BY <1>1, <1>2, CutsOfConcat
  <2>2. Cuts(s, w) = Cuts(q, w) \cup {Len(q) + k : k \in Cuts(c, w)}
    <3> HIDE DEF q
    <3> QED BY <1>1, <1>3, CutsOfConcat
  <2>3. {Len(q) + k : k \in Cuts(c, w)} = {}
    BY <1>1
  <2>4. {m + k : k \in Cuts(x, w)} = IF w = op THEN {m + 1} ELSE {}
    <3> HIDE DEF x
    <3> QED BY <1>2
  <2> HIDE DEF q, s, m, x
  <2> QED BY <2>1, <2>2, <2>3, <2>4
<1>6. Chain(op, s)
  <2>1. \A w \in {"AND", "OR"} : w # op => Cuts(s, w) = {}
    <3> HIDE DEF s
    <3> QED BY <1>1, <1>5
  <2> HIDE DEF s
  <2> QED BY <1>3, <1>4, <2>1 DEF Chain
<1>7. Cuts(s, op) # {} /\ LastCut(s, op) = m + 1
  <2>1. Cuts(s, op) = Cuts(p, op) \cup {m + 1}
    BY <1>5
  <2>2. Cuts(p, op) \subseteq 1 .. m
    BY DEF Cuts
  <2>3. m + 1 \in Cuts(s, op) /\ \A j \in Cuts(s, op) : j <= m + 1
    <3> HIDE DEF s, m
    <3> QED BY <1>3, <2>1, <2>2
  <2>4. LastCut(s, op) \in Cuts(s, op) /\ \A j \in Cuts(s, op) : j <= LastCut(s, op)
    <3> HIDE DEF s
    <3> QED BY <1>3, <2>3, LastCutExists
  <2>5. LastCut(s, op) <= m + 1 /\ m + 1 <= LastCut(s, op) /\ LastCut(s, op) \in Int
    <3> HIDE DEF s, m
    <3> QED BY <1>3, <2>1, <2>2, <2>3, <2>4
  <2> HIDE DEF s, m
  <2> QED BY <1>3, <2>3, <2>5
<1>8. Before(s, op) = p
  <2>1. Before(s, op) = SubSeq(s, 1, m)
    <3> HIDE DEF s, m
    <3> QED BY <1>3, <1>7 DEF Before
  <2>2. \A i \in 1 .. m : s[i] = p[i] /\ s[i] \in Token
    <3>1. \A i \in 1 .. m : q[i] = p[i] /\ i \in 1 .. Len(q)
      <4> HIDE DEF x
      <4> QED BY <1>1, <1>2, <1>3
    <3>2. \A i \in 1 .. m : s[i] = q[i] /\ p[i] \in Token
      <4> HIDE DEF q
      <4> QED BY <1>1, <1>3, <3>1
    <3> QED BY <3>1, <3>2
  <2>3. SubSeq(s, 0 + 1, 0 + Len(p)) = p
    <3>1. 0 + Len(p) <= Len(s) /\ \A i \in 1 .. Len(p) : s[0 + i] = p[i]
      <4> HIDE DEF s
      <4> QED BY <1>3, <2>2
    <3> HIDE DEF s
    <3> QED BY <1>1, <1>3, <3>1, Slice
  <2> HIDE DEF s
  <2> QED BY <1>3, <2>1, <2>3
<1>9. After(s, op) = c
  <2>1. After(s, op) = SubSeq(s, m + 1 + 1, m + 1 + Len(c))
    <3> HIDE DEF s, m
    <3> QED BY <1>3, <1>7 DEF After
  <2>2. \A i \in 1 .. Len(c) : s[m + 1 + i] = c[i]
    <3> HIDE DEF q
    <3> QED BY <1>1, <1>3
  <2> HIDE DEF s, m
  <2> QED BY <1>1, <1>3, <2>1, <2>2, Slice
<1>10. Holds(s, row) = Read(row, s, Reading(row))
  <2> HIDE DEF s
  <2> QED BY <1>3, ReadingWorks
<1>11. Reading(row)[p] = Holds(p, row) /\ Reading(row)[c] = Holds(c, row)
  BY DEF Holds
<1>12. op = "AND" => Cuts(s, "OR") = {}
  <2> HIDE DEF s
  <2> QED BY <1>6 DEF Chain
<1>13. Holds(s, row) <=> IF op = "OR" THEN Holds(p, row) \/ Holds(c, row)
                                     ELSE Holds(p, row) /\ Holds(c, row)
  <2> HIDE DEF s
  <2> QED BY <1>7, <1>8, <1>9, <1>10, <1>11, <1>12 DEF Read
<1> HIDE DEF s
<1> QED BY <1>6, <1>13 DEF s

\* Parentheses around a chain make it one whole that reads the same.
LEMMA BracketReads ==
  ASSUME NEW op, NEW p, Chain(op, p), Len(p) > 1, NEW row
  PROVE  LET s == <<Word("(")>> \o p \o <<Word(")")>>
         IN  Closed(s) /\ (Holds(s, row) <=> Holds(p, row))
<1> DEFINE a == <<Word("(")>>
           z == <<Word(")")>>
           q == a \o p
           s == q \o z
           m == Len(p)
<1>1. p \in Seq(Token) /\ Balanced(p) /\ m \in Nat
  BY DEF Chain
<1>2. /\ a \in Seq(Token) /\ Len(a) = 1 /\ a[1] = Word("(") /\ z \in Seq(Token) /\ Len(z) = 1 /\ z[1] = Word(")")
      /\ Word("(") # Word(")")
  BY Words
<1>3. /\ Opens(a, 0) = 0 /\ Opens(a, 1) = 1 /\ Closes(a, 0) = 0 /\ Closes(a, 1) = 0
      /\ Opens(z, 0) = 0 /\ Opens(z, 1) = 0 /\ Closes(z, 0) = 0 /\ Closes(z, 1) = 1
  <2>1. Word("(") \in {Word("(")} /\ Word("(") \notin {Word(")")} /\ Word(")") \in {Word(")")} /\ Word(")") \notin {Word("(")}
    BY <1>2
  <2>2. Opens(a, 1) = 1 /\ Closes(a, 1) = 0
    BY <2>1, CountOne DEF Opens, Closes
  <2>3. Opens(z, 1) = 0 /\ Closes(z, 1) = 1
    BY <2>1, CountOne DEF Opens, Closes
  <2>4. \A ts : Opens(ts, 0) = 0 /\ Closes(ts, 0) = 0
    BY CountZero DEF Opens, Closes
  <2> HIDE DEF a, z
  <2> QED BY <2>2, <2>3, <2>4
<1>4. /\ q \in Seq(Token) /\ Len(q) = m + 1 /\ q[1] = Word("(") /\ \A i \in 1 .. m : q[1 + i] = p[i]
  <2> HIDE DEF a
  <2>1. /\ q \in Seq(Token) /\ Len(q) = Len(a) + Len(p)
        /\ \A i \in 1 .. Len(a) : q[i] = a[i]
        /\ \A i \in 1 .. m : q[Len(a) + i] = p[i]
    BY ZenonT(60), <1>1, <1>2, TokenConcat
  <2> HIDE DEF q, m
  <2> QED BY <1>1, <1>2, <2>1 DEF m
<1>5. /\ s \in Seq(Token) /\ Len(s) = m + 2 /\ s[1] = Word("(") /\ s[m + 2] = Word(")")
      /\ \A i \in 1 .. m : s[1 + i] = p[i]
  <2> HIDE DEF q, z
  <2>1. /\ s \in Seq(Token) /\ Len(s) = Len(q) + Len(z)
        /\ \A i \in 1 .. Len(q) : s[i] = q[i]
        /\ \A i \in 1 .. Len(z) : s[Len(q) + i] = z[i]
    BY ZenonT(60), <1>2, <1>4, TokenConcat
  <2> HIDE DEF s, m
  <2>2. s[m + 2] = Word(")") /\ Len(s) = m + 2 /\ s[1] = Word("(")
    <3>1. m + 1 + 1 = m + 2 /\ 1 \in 1 .. m + 1
      BY <1>1
    <3> QED BY <1>2, <1>4, <2>1, <3>1
  <2>3. \A i \in 1 .. m : s[1 + i] = p[i]
    <3>1. \A i \in 1 .. m : 1 + i \in 1 .. Len(q)
      BY <1>1, <1>4
    <3> QED BY <1>4, <2>1, <3>1
  <2> QED BY <2>1, <2>2, <2>3
<1>6. ASSUME NEW k \in 0 .. m PROVE Opens(q, 1 + k) = 1 + Opens(p, k) /\ Closes(q, 1 + k) = Closes(p, k)
  <2>1. Opens(q, Len(a) + k) = Opens(a, Len(a)) + Opens(p, k) /\ Closes(q, Len(a) + k) = Closes(a, Len(a)) + Closes(p, k)
    <3> HIDE DEF a
    <3> QED BY <1>1, <1>2, CountsOfConcat
  <2>2. Opens(p, k) \in Nat /\ Closes(p, k) \in Nat
    BY <1>1, CountsAreNat
  <2> HIDE DEF a, q
  <2> QED BY <1>2, <1>3, <2>1, <2>2
<1>7. ASSUME NEW k \in 0 .. m PROVE Opens(s, 1 + k) = 1 + Opens(p, k) /\ Closes(s, 1 + k) = Closes(p, k)
  <2>1. 1 + k \in 0 .. Len(q)
    BY <1>1, <1>4
  <2>2. Opens(s, 1 + k) = Opens(q, 1 + k) /\ Closes(s, 1 + k) = Closes(q, 1 + k)
    <3> HIDE DEF q, z
    <3> QED BY <1>2, <1>4, <2>1, CountsOfConcat
  <2> HIDE DEF s, q
  <2> QED BY <1>6, <2>2
<1>8. Opens(s, m + 2) = 1 + Opens(p, m) /\ Closes(s, m + 2) = 1 + Closes(p, m)
  <2>1. /\ Opens(s, Len(q) + 1) = Opens(q, Len(q)) + Opens(z, 1)
        /\ Closes(s, Len(q) + 1) = Closes(q, Len(q)) + Closes(z, 1)
    <3> HIDE DEF q, z
    <3>1. 1 \in 0 .. Len(z)
      BY <1>2
    <3>2. \A i \in 0 .. Len(z) :
            /\ Opens(q \o z, Len(q) + i) = Opens(q, Len(q)) + Opens(z, i)
            /\ Closes(q \o z, Len(q) + i) = Closes(q, Len(q)) + Closes(z, i)
      BY <1>2, <1>4, CountsOfConcat
    <3> QED BY <3>1, <3>2
  <2>2. Len(q) = 1 + m /\ Len(q) + 1 = m + 2 /\ m \in 0 .. m
    BY <1>1, <1>4
  <2>3. Opens(q, 1 + m) = 1 + Opens(p, m) /\ Closes(q, 1 + m) = Closes(p, m)
    BY <1>6, <2>2
  <2>4. Opens(p, m) \in Nat /\ Closes(p, m) \in Nat
    BY <1>1, CountsAreNat
  <2> HIDE DEF s, q, z, m
  <2> QED BY <1>3, <2>1, <2>2, <2>3, <2>4
<1>9. \A k \in 0 .. m : Opens(p, k) \in Nat /\ Closes(p, k) \in Nat /\ Closes(p, k) <= Opens(p, k)
  BY <1>1, CountsAreNat DEF Balanced
<1>10. Balanced(s)
  <2>1. ASSUME NEW i \in 0 .. m + 2 PROVE Closes(s, i) <= Opens(s, i)
    <3>1. CASE i = 0
      <4>1. Opens(s, 0) = 0 /\ Closes(s, 0) = 0
        BY CountZero DEF Opens, Closes
      <4> HIDE DEF s
      <4> QED BY <3>1, <4>1
    <3>2. CASE i \in 1 .. m + 1
      <4>1. i - 1 \in 0 .. m /\ 1 + (i - 1) = i
        BY <1>1, <3>2
      <4>2. Opens(s, i) = 1 + Opens(p, i - 1) /\ Closes(s, i) = Closes(p, i - 1)
        <5> HIDE DEF s
        <5> QED BY <1>7, <4>1
      <4> HIDE DEF s, m
      <4> QED BY <1>9, <4>1, <4>2
    <3>3. CASE i = m + 2
      <4>1. m \in 0 .. m
        BY <1>1
      <4> HIDE DEF s, m
      <4> QED BY <1>8, <1>9, <3>3, <4>1
    <3> QED BY <1>1, <3>1, <3>2, <3>3
  <2>2. Closes(p, m) = Opens(p, m)
    BY <1>1 DEF Balanced
  <2> HIDE DEF s
  <2> QED BY <1>5, <1>8, <2>1, <2>2 DEF Balanced
<1>11. ASSUME NEW w \in {"AND", "OR"} PROVE Cuts(s, w) = {}
  <2>1. Word(w) # Word("(") /\ Word(w) # Word(")")
    BY Words
  <2>2. ASSUME NEW i \in 1 .. m + 2, s[i] = Word(w) PROVE Opens(s, i) # Closes(s, i)
    <3>1. i # 1 /\ i # m + 2
      <4> HIDE DEF s
      <4> QED BY <1>5, <2>1, <2>2
    <3>2. i - 1 \in 0 .. m /\ 1 + (i - 1) = i
      BY <1>1, <3>1
    <3>3. Opens(s, i) = 1 + Opens(p, i - 1) /\ Closes(s, i) = Closes(p, i - 1)
      <4> HIDE DEF s
      <4> QED BY <1>7, <3>2
    <3> HIDE DEF s, m
    <3> QED BY <1>9, <3>2, <3>3
  <2> HIDE DEF s, m
  <2> QED BY <1>5, <2>2 DEF Cuts, Opens, Closes
<1>12. Closed(s)
  <2>1. s # <<>>
    <3> HIDE DEF s
    <3> QED BY <1>1, <1>5
  <2> HIDE DEF s
  <2> QED BY <1>5, <1>10, <1>11, <2>1 DEF Closed
<1>13. Inside(s) = p
  <2>1. Inside(s) = SubSeq(s, 1 + 1, 1 + Len(p))
    <3>1. m + 2 - 1 = 1 + m /\ 1 + 1 = 2
      BY <1>1
    <3> HIDE DEF s
    <3> QED BY <1>5, <3>1 DEF Inside
  <2>2. 1 + Len(p) <= Len(s)
    <3> HIDE DEF s
    <3> QED BY <1>1, <1>5
  <2> HIDE DEF s
  <2> QED BY <1>1, <1>5, <2>1, <2>2, Slice
<1>14. Holds(s, row) = Read(row, s, Reading(row)) /\ Reading(row)[p] = Holds(p, row)
  <2> HIDE DEF s
  <2> QED BY <1>5, ReadingWorks DEF Holds
<1>15. Read(row, s, Reading(row)) <=> Reading(row)[p]
  <2>1. Len(s) > 1
    <3> HIDE DEF s
    <3> QED BY <1>1, <1>5
  <2> HIDE DEF s
  <2> QED BY <1>5, <1>11, <1>13, <2>1 DEF Read
<1> HIDE DEF s
<1> QED BY <1>12, <1>14, <1>15 DEF s

----------------------------------------------------------------------------
\* Parameters stand in the order of their places.

Aligned(ts, as) ==
  /\ ts \in Seq(Token) /\ as \in Seq(Int) /\ Len(as) = HowMany(ts, Takers, Len(ts))
  /\ \A i \in 1 .. Len(ts) : ts[i] \in Takers => as[HowMany(ts, Takers, i)] = ts[i].e.v

\* A member is counted among all of its kind.
LEMMA CountBounds ==
  ASSUME NEW ts, NEW T, NEW n \in Nat, NEW i \in 1 .. n, ts[i] \in T
  PROVE  HowMany(ts, T, i) \in 1 .. HowMany(ts, T, n)
<1> DEFINE A == {j \in 1 .. i : ts[j] \in T}
           N == {j \in 1 .. n : ts[j] \in T}
<1>1. IsFiniteSet(A) /\ IsFiniteSet(N)
  <2>1. i \in Nat
    OBVIOUS
  <2> QED BY <2>1, CountType
<1>2. A \in SUBSET N /\ i \in A
  OBVIOUS
<1>3. Cardinality(A) <= Cardinality(N) /\ Cardinality(A) # 0
  <2> HIDE DEF A, N
  <2>1. Cardinality(A) <= Cardinality(N)
    BY <1>1, <1>2, FS_Subset
  <2>2. A # {}
    BY <1>2
  <2> QED BY <1>1, <2>1, <2>2, FS_EmptySet
<1>4. Cardinality(A) \in Nat /\ Cardinality(N) \in Nat
  <2> HIDE DEF A, N
  <2> QED BY <1>1, FS_CardinalityType
<1>5. HowMany(ts, T, i) = Cardinality(A) /\ HowMany(ts, T, n) = Cardinality(N)
  BY DEF HowMany
<1> HIDE DEF A, N
<1> QED BY <1>3, <1>4, <1>5

\* Parameters stay aligned when texts and their parameters are put in a row.
LEMMA AlignedConcat ==
  ASSUME NEW s, NEW a, NEW t, NEW b, Aligned(s, a), Aligned(t, b)
  PROVE  Aligned(s \o t, a \o b)
<1> DEFINE N(u, i) == HowMany(u, Takers, i)
<1>1. /\ s \in Seq(Token) /\ a \in Seq(Int) /\ Len(a) = N(s, Len(s))
      /\ t \in Seq(Token) /\ b \in Seq(Int) /\ Len(b) = N(t, Len(t))
  BY DEF Aligned
<1>2. /\ Len(s) \in Nat /\ Len(t) \in Nat /\ s \o t \in Seq(Token) /\ Len(s \o t) = Len(s) + Len(t)
      /\ \A i \in 1 .. Len(s) : (s \o t)[i] = s[i]
      /\ \A i \in 1 .. Len(t) : (s \o t)[Len(s) + i] = t[i]
  BY <1>1, TokenConcat
<1>3. /\ Len(a) \in Nat /\ Len(b) \in Nat /\ a \o b \in Seq(Int) /\ Len(a \o b) = Len(a) + Len(b)
      /\ \A i \in 1 .. Len(a) : (a \o b)[i] = a[i]
      /\ \A i \in 1 .. Len(b) : (a \o b)[Len(a) + i] = b[i]
  <2> HIDE DEF N
  <2> a \in Seq(Int) /\ b \in Seq(Int)
    BY <1>1
  <2>1. Len(a) \in Nat /\ Len(b) \in Nat
    OBVIOUS
  <2>2. a \o b \in Seq(Int) /\ Len(a \o b) = Len(a) + Len(b)
    OBVIOUS
  <2>3. \A i \in 1 .. Len(a) : (a \o b)[i] = a[i]
    OBVIOUS
  <2>4. \A i \in 1 .. Len(b) : (a \o b)[Len(a) + i] = b[i]
    OBVIOUS
  <2> QED BY <2>1, <2>2, <2>3, <2>4
<1>4. \A i \in 0 .. Len(s) : N(s \o t, i) = N(s, i)
  BY <1>1, CountFirst
<1>5. \A i \in 0 .. Len(t) : N(s \o t, Len(s) + i) = Len(a) + N(t, i)
  <2>1. \A i \in 0 .. Len(t) : N(s \o t, Len(s) + i) = N(s, Len(s)) + N(t, i)
    BY <1>1, CountConcat
  <2> QED BY <1>1, <2>1
<1> HIDE DEF N
<1>6. Len(a \o b) = N(s \o t, Len(s \o t))
  <2>1. Len(t) \in 0 .. Len(t)
    BY <1>2
  <2>2. N(s \o t, Len(s) + Len(t)) = Len(a) + Len(b)
    BY <1>1, <1>5, <2>1
  <2> QED BY <1>2, <1>3, <2>2
<1>7. ASSUME NEW i \in 1 .. Len(s \o t), (s \o t)[i] \in Takers
      PROVE  (a \o b)[N(s \o t, i)] = (s \o t)[i].e.v
  <2>1. CASE i <= Len(s)
    <3>1. i \in 1 .. Len(s) /\ i \in 0 .. Len(s) /\ (s \o t)[i] = s[i]
      BY <1>2, <2>1
    <3>2. N(s, i) \in 1 .. Len(a)
      BY <1>1, <1>2, <1>7, <3>1, CountBounds DEF N
    <3>3. a[N(s, i)] = s[i].e.v
      BY <1>7, <3>1 DEF Aligned, N
    <3>4. (a \o b)[N(s, i)] = a[N(s, i)]
      BY <1>3, <3>2
    <3> QED BY <1>4, <3>1, <3>3, <3>4
  <2>2. CASE i > Len(s)
    <3>1. PICK k \in 1 .. Len(t) : i = Len(s) + k
      <4>1. i - Len(s) \in 1 .. Len(t) /\ i = Len(s) + (i - Len(s))
        BY <1>2, <2>2
      <4> QED BY <4>1
    <3>2. k \in 0 .. Len(t) /\ (s \o t)[i] = t[k]
      BY <1>2, <3>1
    <3>3. N(t, k) \in 1 .. Len(b)
      BY <1>1, <1>2, <1>7, <3>2, CountBounds DEF N
    <3>4. b[N(t, k)] = t[k].e.v
      BY <1>7, <3>2 DEF Aligned, N
    <3>5. (a \o b)[Len(a) + N(t, k)] = b[N(t, k)]
      BY <1>3, <3>3
    <3>6. N(s \o t, i) = Len(a) + N(t, k)
      BY <1>5, <3>1, <3>2
    <3> QED BY <3>2, <3>4, <3>5, <3>6
  <2>3. i <= Len(s) \/ i > Len(s)
    BY <1>2
  <2> QED BY <2>1, <2>2, <2>3
<1> QED BY <1>2, <1>3, <1>6, <1>7 DEF Aligned, N

\* One token: a comparison brings its parameter, a word none.
LEMMA AlignedOne ==
  /\ \A x \in Token : x \notin Takers => Aligned(<<x>>, <<>>)
  /\ \A e \in Entry : Aligned(<<Atom(e)>>, EntrySql(e).attrs)
<1>1. \A x \in Token : <<x>> \in Seq(Token) /\ Len(<<x>>) = 1 /\ <<x>>[1] = x
  OBVIOUS
<1>2. ASSUME NEW x \in Token, x \notin Takers PROVE Aligned(<<x>>, <<>>)
  <2>1. HowMany(<<x>>, Takers, 1) = 0
    BY <1>2, CountOne
  <2>2. <<>> \in Seq(Int) /\ Len(<<>>) = 0
    OBVIOUS
  <2> QED BY <1>1, <1>2, <2>1, <2>2 DEF Aligned
<1>3. ASSUME NEW e \in Entry PROVE Aligned(<<Atom(e)>>, EntrySql(e).attrs)
  <2>1. Atom(e) \in Token /\ Atom(e).e = e
    BY Words
  <2>2. Atom(e) \in Takers <=> HasParam(e)
    BY DEF Atom, Takers
  <2>3. CASE HasParam(e)
    <3>1. HowMany(<<Atom(e)>>, Takers, 1) = 1
      BY <2>2, <2>3, CountOne
    <3>2. EntrySql(e).attrs = <<e.v>>
      BY <2>3 DEF EntrySql
    <3>3. e.v \in Int
      BY DEF Entry
    <3>4. <<e.v>> \in Seq(Int) /\ Len(<<e.v>>) = 1 /\ <<e.v>>[1] = e.v
      BY <3>3
    <3> QED BY <1>1, <2>1, <3>1, <3>2, <3>4 DEF Aligned
  <2>4. CASE ~ HasParam(e)
    <3>1. EntrySql(e).attrs = <<>>
      BY <2>4 DEF EntrySql
    <3> QED BY <1>2, <2>1, <2>2, <2>4, <3>1
  <2> QED BY <2>3, <2>4
<1> QED BY <1>2, <1>3

\* So binding puts every parameter where its value came from.
LEMMA BoundIsWritten ==
  ASSUME NEW where, Aligned(where.toks, where.attrs)
  PROVE  Bound(where) = where.toks
<1> DEFINE ts == where.toks
<1>1. ts \in Seq(Token) /\ DOMAIN ts = 1 .. Len(ts)
  BY DEF Aligned
<1>2. ASSUME NEW i \in 1 .. Len(ts), ts[i] \in Takers
      PROVE  [ts[i] EXCEPT !.e.v = where.attrs[HowMany(ts, Takers, i)]] = ts[i]
  <2>1. where.attrs[HowMany(ts, Takers, i)] = ts[i].e.v
    BY <1>2 DEF Aligned
  <2>2. ASSUME NEW tok \in Takers PROVE [tok EXCEPT !.e.v = tok.e.v] = tok
    <3>1. PICK e \in Entry : tok = [t |-> "atom", e |-> e]
      BY DEF Takers
    <3>2. [e EXCEPT !.v = e.v] = e
      BY DEF Entry
    <3> QED BY <3>1, <3>2
  <2> HIDE DEF ts
  <2> QED BY <1>2, <2>1, <2>2
<1>3. Bound(where) = [i \in DOMAIN ts |-> ts[i]]
  BY <1>1, <1>2 DEF Bound
<1> HIDE DEF ts
<1>4. [i \in DOMAIN ts |-> ts[i]] = ts
  BY <1>1
<1> QED BY <1>3, <1>4 DEF ts

----------------------------------------------------------------------------
\* The loop of parseWhere

\* The text of a clause: nothing, or one whole with its parameters in order
Sound(c) == Aligned(c.toks, c.attrs) /\ (c.toks = <<>> \/ Closed(c.toks))

Lists == [n : Nat, toks : Seq(Token), attrs : Seq(Int)]
EmptyList == [n |-> 0, toks |-> <<>>, attrs |-> <<>>]

\* Adding a clause gives a list of clauses.
LEMMA AddType ==
  ASSUME NEW op \in {"AND", "OR"}, NEW list \in Lists, NEW c, Sound(c)
  PROVE  Add(op, list, c) \in Lists
<1>1. /\ c.toks \in Seq(Token) /\ c.attrs \in Seq(Int) /\ <<Word(op)>> \in Seq(Token)
      /\ list.n + 1 \in Nat /\ list.toks \in Seq(Token) /\ list.attrs \in Seq(Int)
  BY Words DEF Sound, Aligned, Lists
<1>2. list.toks \o <<Word(op)>> \o c.toks \in Seq(Token)
  <2>1. list.toks \o <<Word(op)>> \in Seq(Token)
    BY <1>1, TokenConcat
  <2> QED BY <1>1, <2>1, TokenConcat
<1>3. list.attrs \o c.attrs \in Seq(Int)
  BY <1>1
<1> QED BY <1>1, <1>2, <1>3 DEF Add, Lists

Loops(op, cs, n) ==
  {list \in [0 .. n -> Lists] :
     /\ Joined(op, cs) = list[n] /\ list[0] = EmptyList
     /\ \A i \in 1 .. n : list[i] = Add(op, list[i - 1], cs[i])}

\* The loop goes through the clauses one by one.
LEMMA JoinedWorks ==
  ASSUME NEW op \in {"AND", "OR"}, NEW cs, NEW n \in Nat, n = Len(cs), \A i \in 1 .. n : Sound(cs[i])
  PROVE  Loops(op, cs, n) # {}
<1> DEFINE D == 0 .. n
           size == [i \in D |-> i]
           Next1(i, l) == IF i = 0 THEN EmptyList ELSE Add(op, l[i - 1], cs[i])
           step == [p \in D \X [D -> Lists] |-> Next1(p[1], p[2])]
<1>1. EmptyList \in Lists
  <2>1. <<>> \in Seq(Token) /\ <<>> \in Seq(Int)
    OBVIOUS
  <2> QED BY <2>1 DEF EmptyList, Lists
<1>2. ASSUME NEW i \in D, NEW l \in [D -> Lists] PROVE Next1(i, l) \in Lists
  <2>1. CASE i = 0
    BY <1>1, <2>1
  <2>2. CASE i # 0
    <3>1. i \in 1 .. n /\ i - 1 \in D
      BY <2>2
    <3>2. l[i - 1] \in Lists /\ Sound(cs[i])
      BY <3>1
    <3> QED BY <2>2, <3>2, AddType
  <2> QED BY <2>1, <2>2
<1>3. ASSUME NEW i \in D, NEW f \in [D -> Lists], NEW g \in [D -> Lists],
             \A j \in D : size[j] < size[i] => f[j] = g[j]
      PROVE  step[<<i, f>>] = step[<<i, g>>]
  <2>1. CASE i = 0
    BY <2>1
  <2>2. CASE i # 0
    <3>1. i - 1 \in D /\ size[i - 1] < size[i]
      BY <2>2
    <3>2. f[i - 1] = g[i - 1]
      BY <1>3, <3>1
    <3> QED BY <3>2
  <2> QED BY <2>1, <2>2
<1>4. Solutions(D, Lists, step) # {}
  <2>1. size \in [D -> Nat] /\ Lists # {}
    BY <1>1
  <2>2. step \in [D \X [D -> Lists] -> Lists]
    <3> HIDE DEF Next1, D
    <3> QED BY <1>2
  <2> HIDE DEF D, size, step
  <2>3. Recursion(D, Lists, size, step)
    BY <1>3, <2>1, <2>2 DEF Recursion
  <2> QED BY <2>3, RecursionWorks
<1>5. PICK l \in [D -> Lists] : \A i \in D : l[i] = Next1(i, l)
  <2>1. PICK l \in [D -> Lists] : \A i \in D : l[i] = step[<<i, l>>]
    <3> HIDE DEF D, step
    <3> QED BY <1>4 DEF Solutions
  <2>2. \A i \in D : step[<<i, l>>] = Next1(i, l)
    <3> HIDE DEF D, Next1
    <3> QED OBVIOUS
  <2> HIDE DEF D, step, Next1
  <2> QED BY <2>1, <2>2
<1> DEFINE list == CHOOSE h : h = [i \in D |-> Next1(i, h)]
<1>6. list = [i \in D |-> Next1(i, list)]
  <2>1. l = [i \in D |-> Next1(i, l)]
    <3> HIDE DEF D, Next1
    <3> QED BY <1>5
  <2> HIDE DEF D, Next1
  <2> QED BY <2>1
<1>7. Joined(op, cs) = list[n]
  BY DEF Joined, EmptyList
<1> HIDE DEF list
<1>8. \A i \in D : list[i] = Next1(i, list)
  <2> HIDE DEF Next1, D
  <2> QED BY <1>6
<1>9. list[0] = EmptyList /\ \A i \in 1 .. n : list[i] = Add(op, list[i - 1], cs[i])
  BY <1>8
<1>10. \A i \in D : list[i] \in Lists
  <2> DEFINE Off == {i \in D : list[i] \notin Lists}
  <2>1. SUFFICES ASSUME Off # {} PROVE FALSE
    OBVIOUS
  <2>2. PICK i \in D : i \in Off /\ \A k \in Off : i <= k
    <3>1. Off \subseteq Nat /\ Off \subseteq D
      OBVIOUS
    <3> HIDE DEF Off
    <3> QED BY <2>1, <3>1, Least
  <2>3. i # 0
    BY <1>1, <1>9, <2>2
  <2>4. i \in 1 .. n /\ i - 1 \in D /\ i - 1 \notin Off
    BY <2>2, <2>3
  <2>5. Add(op, list[i - 1], cs[i]) \in Lists
    BY <2>4, AddType
  <2> QED BY <1>9, <2>2, <2>4, <2>5
<1>11. list \in [D -> Lists]
  <2> HIDE DEF Next1, D
  <2> QED BY <1>6, <1>10
<1> QED BY <1>7, <1>9, <1>11 DEF Loops

\* What the first i clauses mean together
Together(op, cs, i, row) ==
  IF op = "OR" THEN \E k \in 1 .. i : cs[k].toks # <<>> /\ Holds(cs[k].toks, row)
               ELSE \A k \in 1 .. i : cs[k].toks # <<>> => Holds(cs[k].toks, row)

\* The loop after i clauses
Joins(op, list, cs, i) ==
  /\ list \in Lists /\ Aligned(list.toks, list.attrs)
  /\ list.n = 0 => list.toks = <<>> /\ \A k \in 1 .. i : cs[k].toks = <<>>
  /\ list.n = 1 => Closed(list.toks)
  /\ list.n > 0 => Chain(op, list.toks) /\ \E k \in 1 .. i : cs[k].toks # <<>>
  /\ list.n > 1 => Len(list.toks) > 1
  /\ list.n > 0 => \A row : Holds(list.toks, row) <=> Together(op, cs, i, row)

\* The list so far holds what its clauses hold, also after one clause more.
LEMMA AddJoins ==
  ASSUME NEW op \in {"AND", "OR"}, NEW list, NEW cs, NEW i \in Nat, i > 0, Sound(cs[i]),
         Joins(op, list, cs, i - 1)
  PROVE  Joins(op, Add(op, list, cs[i]), cs, i)
<1> DEFINE c == cs[i]
           new == Add(op, list, c)
<1>0. SUFFICES Joins(op, new, cs, i)
  OBVIOUS
<1>1. 1 .. i = 1 .. (i - 1) \cup {i}
  OBVIOUS
<1>2. new \in Lists
  BY AddType DEF Joins
<1>3. list \in Lists /\ list.n \in Nat
  BY DEF Joins, Lists
<1>4. \A row : Together(op, cs, i, row) <=>
        IF op = "OR" THEN Together(op, cs, i - 1, row) \/ (c.toks # <<>> /\ Holds(c.toks, row))
        ELSE Together(op, cs, i - 1, row) /\ (c.toks # <<>> => Holds(c.toks, row))
  BY <1>1 DEF Together
<1>5. CASE c.toks = <<>>
  <2>1. new = list
    BY <1>5 DEF Add
  <2>2. \A row : Together(op, cs, i, row) <=> Together(op, cs, i - 1, row)
    BY <1>4, <1>5
  <2>3. (\A k \in 1 .. i : cs[k].toks = <<>>) <=> (\A k \in 1 .. (i - 1) : cs[k].toks = <<>>)
    BY <1>1, <1>5
  <2> HIDE DEF new, c
  <2> QED BY <2>1, <2>2, <2>3 DEF Joins
<1>6. CASE c.toks # <<>>
  <2>1. Closed(c.toks) /\ Aligned(c.toks, c.attrs)
    BY <1>6 DEF Sound
  <2>2. /\ new.n = list.n + 1 /\ new.attrs = list.attrs \o c.attrs
        /\ new.toks = IF list.n = 0 THEN c.toks ELSE list.toks \o <<Word(op)>> \o c.toks
    BY <1>6 DEF Add
  <2>3. \E k \in 1 .. i : cs[k].toks # <<>>
    BY <1>6
  <2>4. CASE list.n = 0
    <3>1. list.toks = <<>> /\ \A k \in 1 .. (i - 1) : cs[k].toks = <<>>
      BY <2>4 DEF Joins
    <3>2. list.attrs = <<>>
      <4>1. Len(list.attrs) = 0 /\ list.attrs \in Seq(Int)
        <5>1. Len(<<>>) = 0
          OBVIOUS
        <5> QED BY <3>1, <5>1, CountZero DEF Joins, Aligned
      <4> QED BY <4>1, EmptySeq
    <3>3. new.n = 1 /\ new.toks = c.toks /\ new.attrs = c.attrs
      <4>1. <<>> \o c.attrs = c.attrs
        BY <2>1, ConcatEmptySeq DEF Aligned
      <4> HIDE DEF new
      <4> QED BY <2>2, <2>4, <3>2, <4>1
    <3>4. \A row : Holds(c.toks, row) <=> Together(op, cs, i, row)
      <4>1. \A row : Together(op, cs, i - 1, row) <=> op # "OR"
        BY <3>1 DEF Together
      <4> QED BY <1>4, <1>6, <4>1
    <3>5. Chain(op, c.toks)
      BY <2>1, ClosedIsChain
    <3> HIDE DEF new, c
    <3>6. Aligned(new.toks, new.attrs) /\ Closed(new.toks) /\ Chain(op, new.toks)
      BY <2>1, <3>3, <3>5
    <3>7. \A row : Holds(new.toks, row) <=> Together(op, cs, i, row)
      BY <3>3, <3>4
    <3> QED BY <1>2, <2>3, <3>3, <3>6, <3>7 DEF Joins
  <2>5. CASE list.n # 0
    <3>1. new.n > 1 /\ new.n # 0 /\ new.n # 1 /\ new.n > 0
      <4> HIDE DEF new
      <4> QED BY <1>3, <2>2, <2>5
    <3>2. new.toks = list.toks \o <<Word(op)>> \o c.toks
      BY <2>2, <2>5
    <3>3. Chain(op, list.toks) /\ Aligned(list.toks, list.attrs)
      BY <1>3, <2>5 DEF Joins
    <3>4. Chain(op, new.toks)
      BY <2>1, <3>2, <3>3, JoinReads
    <3>5. \A row : Holds(new.toks, row) <=> Together(op, cs, i, row)
      <4> SUFFICES ASSUME NEW row PROVE Holds(new.toks, row) <=> Together(op, cs, i, row)
        OBVIOUS
      <4>1. Holds(new.toks, row) <=> IF op = "OR" THEN Holds(list.toks, row) \/ Holds(c.toks, row)
                                                  ELSE Holds(list.toks, row) /\ Holds(c.toks, row)
        BY <2>1, <3>2, <3>3, JoinReads
      <4>2. Holds(list.toks, row) <=> Together(op, cs, i - 1, row)
        BY <1>3, <2>5 DEF Joins
      <4> HIDE DEF new, c
      <4> QED BY <1>4, <1>6, <4>1, <4>2
    <3>6. Aligned(new.toks, new.attrs)
      <4>1. Aligned(<<Word(op)>>, <<>>)
        <5>1. Word(op) \in Token /\ Word(op) \notin Takers
          <6>1. \A tok \in Takers : tok.t = "atom"
            BY DEF Takers
          <6>2. Word(op) \in Token /\ Word(op).t = op
            BY Words DEF Word
          <6> QED BY <6>1, <6>2
        <5> QED BY <5>1, AlignedOne
      <4>2. Aligned(list.toks \o <<Word(op)>>, list.attrs \o <<>>)
        BY <3>3, <4>1, AlignedConcat
      <4>3. list.attrs \o <<>> = list.attrs
        BY <3>3, ConcatEmptySeq DEF Aligned
      <4>4. Aligned((list.toks \o <<Word(op)>>) \o c.toks, list.attrs \o c.attrs)
        BY <2>1, <4>2, <4>3, AlignedConcat
      <4> HIDE DEF new, c
      <4> QED BY <2>2, <3>2, <4>4
    <3>7. Len(new.toks) > 1
      <4>1. /\ list.toks \in Seq(Token) /\ <<Word(op)>> \in Seq(Token) /\ Len(<<Word(op)>>) = 1
            /\ c.toks \in Seq(Token) /\ c.toks # <<>>
        BY <2>1, Words DEF Lists, Joins, Closed
      <4>2. Len(c.toks) \in Nat \ {0}
        <5> HIDE DEF c
        <5> QED BY <4>1, EmptySeq
      <4>3. /\ list.toks \o <<Word(op)>> \in Seq(Token)
            /\ Len(list.toks \o <<Word(op)>>) = Len(list.toks) + 1 /\ Len(list.toks) \in Nat
        <5> HIDE DEF c
        <5> QED BY <4>1, TokenConcat
      <4>4. Len((list.toks \o <<Word(op)>>) \o c.toks) = Len(list.toks \o <<Word(op)>>) + Len(c.toks)
        <5> HIDE DEF c
        <5> QED BY <4>1, <4>3, TokenConcat
      <4>5. Len(new.toks) = Len(list.toks) + 1 + Len(c.toks)
        BY <3>2, <4>3, <4>4
      <4> HIDE DEF new, c
      <4>6. PICK a \in Nat : a = Len(list.toks)
        BY <4>3
      <4>7. PICK b \in Nat \ {0} : b = Len(c.toks)
        BY <4>2
      <4>8. a + 1 + b > 1
        OBVIOUS
      <4> QED BY <4>5, <4>6, <4>7, <4>8
    <3> HIDE DEF new, c
    <3> QED BY <1>2, <2>3, <3>1, <3>4, <3>5, <3>6, <3>7 DEF Joins
  <2> QED BY <2>4, <2>5
<1> QED BY <1>5, <1>6

\* What setItem writes for clauses is one whole with its parameters in order; it is empty
\* when all of them are, and means all or one of the others.
LEMMA SetItemReads ==
  ASSUME NEW op \in {"AND", "OR"}, NEW cs, NEW n \in Nat, n = Len(cs), \A i \in 1 .. n : Sound(cs[i])
  PROVE  /\ Sound(SetItem(op, cs))
         /\ SetItem(op, cs).toks = <<>> <=> \A i \in 1 .. n : cs[i].toks = <<>>
         /\ SetItem(op, cs).toks # <<>> =>
              \A row : Holds(SetItem(op, cs).toks, row) <=> Together(op, cs, n, row)
<1>1. PICK list \in [0 .. n -> Lists] :
        /\ Joined(op, cs) = list[n] /\ list[0] = EmptyList
        /\ \A i \in 1 .. n : list[i] = Add(op, list[i - 1], cs[i])
  <2>1. Loops(op, cs, n) # {}
    BY JoinedWorks
  <2> QED BY <2>1 DEF Loops
<1>2. Joins(op, EmptyList, cs, 0)
  <2>1. EmptyList \in Lists /\ EmptyList.n = 0 /\ EmptyList.toks = <<>> /\ EmptyList.attrs = <<>>
    <3>1. <<>> \in Seq(Token) /\ <<>> \in Seq(Int)
      OBVIOUS
    <3> QED BY <3>1 DEF EmptyList, Lists
  <2>2. Aligned(<<>>, <<>>)
    <3>1. <<>> \in Seq(Token) /\ <<>> \in Seq(Int) /\ Len(<<>>) = 0
      OBVIOUS
    <3> QED BY <3>1, CountZero DEF Aligned
  <2> QED BY <2>1, <2>2 DEF Joins
<1>3. \A i \in 0 .. n : Joins(op, list[i], cs, i)
  <2> DEFINE Off == {i \in 0 .. n : ~ Joins(op, list[i], cs, i)}
  <2>1. SUFFICES ASSUME Off # {} PROVE FALSE
    OBVIOUS
  <2>2. PICK i \in 0 .. n : i \in Off /\ \A k \in Off : i <= k
    <3>1. Off \subseteq Nat /\ Off \subseteq 0 .. n
      OBVIOUS
    <3> HIDE DEF Off
    <3> QED BY <2>1, <3>1, Least
  <2>3. i # 0
    BY <1>1, <1>2, <2>2
  <2>4. i \in 1 .. n /\ i - 1 \in 0 .. n /\ i - 1 \notin Off /\ i > 0
    BY <2>2, <2>3
  <2>5. Joins(op, list[i - 1], cs, i - 1)
    BY <2>4
  <2>6. Joins(op, Add(op, list[i - 1], cs[i]), cs, i)
    BY <2>4, <2>5, AddJoins
  <2> QED BY <1>1, <2>2, <2>4, <2>6
<1> DEFINE l == list[n]
           c == SetItem(op, cs)
<1>4. Joins(op, l, cs, n)
  BY <1>3
<1>5. c.attrs = l.attrs /\ c.toks = IF l.n > 1 THEN <<Word("(")>> \o l.toks \o <<Word(")")>> ELSE l.toks
  BY <1>1 DEF SetItem, Group
<1>6. l.n \in Nat
  BY <1>4 DEF Joins, Lists
<1> HIDE DEF l, c
<1>7. CASE l.n = 0
  <2>1. c.toks = <<>> /\ \A i \in 1 .. n : cs[i].toks = <<>>
    BY <1>4, <1>5, <1>7 DEF Joins
  <2>2. Aligned(c.toks, c.attrs)
    BY <1>4, <1>5, <1>7 DEF Joins
  <2> QED BY <2>1, <2>2 DEF Sound, c
<1>8. CASE l.n = 1
  <2>1. c.toks = l.toks /\ Closed(c.toks) /\ Aligned(c.toks, c.attrs)
    BY <1>4, <1>5, <1>8 DEF Joins
  <2>2. c.toks # <<>> /\ \E i \in 1 .. n : cs[i].toks # <<>>
    BY <1>4, <1>8, <2>1 DEF Joins, Closed
  <2>3. \A row : Holds(c.toks, row) <=> Together(op, cs, n, row)
    BY <1>4, <1>8, <2>1 DEF Joins
  <2> QED BY <2>1, <2>2, <2>3 DEF Sound, c
<1>9. CASE l.n > 1
  <2>1. /\ Chain(op, l.toks) /\ Len(l.toks) > 1 /\ Aligned(l.toks, l.attrs)
        /\ \E i \in 1 .. n : cs[i].toks # <<>>
        /\ \A row : Holds(l.toks, row) <=> Together(op, cs, n, row)
    BY <1>4, <1>6, <1>9 DEF Joins
  <2>2. c.toks = <<Word("(")>> \o l.toks \o <<Word(")")>>
    BY <1>5, <1>9
  <2>3. Closed(c.toks) /\ \A row : Holds(c.toks, row) <=> Holds(l.toks, row)
    BY <2>1, <2>2, BracketReads
  <2>4. Aligned(c.toks, c.attrs)
    <3>1. Aligned(<<Word("(")>>, <<>>) /\ Aligned(<<Word(")")>>, <<>>)
      <4>1. \A tok \in Takers : tok.t = "atom"
        BY DEF Takers
      <4>2. \A w \in {"(", ")"} : Word(w) \in Token /\ Word(w).t = w
        BY Words DEF Word
      <4> QED BY <4>1, <4>2, AlignedOne
    <3>2. Aligned(<<Word("(")>> \o l.toks, <<>> \o l.attrs)
      BY <2>1, <3>1, AlignedConcat
    <3>3. <<>> \o l.attrs = l.attrs /\ l.attrs \o <<>> = l.attrs
      BY <2>1, ConcatEmptySeq DEF Aligned
    <3>4. Aligned((<<Word("(")>> \o l.toks) \o <<Word(")")>>, l.attrs \o <<>>)
      BY <3>1, <3>2, <3>3, AlignedConcat
    <3> QED BY <1>5, <2>2, <3>3, <3>4
  <2>5. c.toks # <<>>
    BY <2>3 DEF Closed
  <2> QED BY <2>1, <2>3, <2>4, <2>5 DEF Sound, c
<1> QED BY <1>6, <1>7, <1>8, <1>9

----------------------------------------------------------------------------
\* Filters

\* The text of a filter says what the filter means.
IsFilter(f) ==
  /\ Sound(f)
  /\ f.says <=> f.toks # <<>>
  /\ f.toks # <<>> => \A row \in Rows : Holds(f.toks, row) <=> row \in f.pass

Filter ==
  {f \in [toks : Seq(Token), attrs : Seq(Int), says : BOOLEAN, pass : SUBSET Rows] : IsFilter(f)}

AnyArgument == Argument \cup [k : {"filter"}, f : Filter]

\* The clause of one entry, and the empty one
LEMMA SoundTexts ==
  /\ Sound(Nothing) /\ Nothing.toks = <<>>
  /\ \A e \in Entry :
       /\ Sound(EntrySql(e)) /\ EntrySql(e).toks # <<>>
       /\ \A row : Holds(EntrySql(e).toks, row) <=> AtomTrue(e, row)
<1>1. Sound(Nothing) /\ Nothing.toks = <<>>
  <2>1. Nothing.toks = <<>> /\ Nothing.attrs = <<>>
    BY DEF Nothing
  <2>2. Aligned(<<>>, <<>>)
    <3>1. <<>> \in Seq(Token) /\ <<>> \in Seq(Int) /\ Len(<<>>) = 0
      OBVIOUS
    <3> QED BY <3>1, CountZero DEF Aligned
  <2> QED BY <2>1, <2>2 DEF Sound
<1>2. ASSUME NEW e \in Entry
      PROVE  /\ Sound(EntrySql(e)) /\ EntrySql(e).toks # <<>>
             /\ \A row : Holds(EntrySql(e).toks, row) <=> AtomTrue(e, row)
  <2>1. EntrySql(e).toks = <<Atom(e)>>
    BY DEF EntrySql
  <2>2. Closed(<<Atom(e)>>) /\ \A row : Holds(<<Atom(e)>>, row) <=> AtomTrue(e, row)
    BY AtomReads
  <2>3. Aligned(<<Atom(e)>>, EntrySql(e).attrs)
    BY AlignedOne
  <2>4. <<Atom(e)>> # <<>>
    BY <2>2 DEF Closed
  <2> QED BY <2>1, <2>2, <2>3, <2>4 DEF Sound
<1> QED BY <1>1, <1>2

\* An argument becomes a filter that says what the argument means.
LEMMA ParsedIsFilter ==
  ASSUME NEW op \in {"AND", "OR"}, NEW a \in AnyArgument
  PROVE  /\ Parsed(op, a) \in Filter
         /\ Parsed(op, a).says <=> Restricts(a)
         /\ Restricts(a) => \A row \in Rows : row \in Parsed(op, a).pass <=> Passes(op, a, row)
<1>1. CASE a.k = "filter"
  <2>1. a.f \in Filter
    BY <1>1 DEF AnyArgument, Argument
  <2> QED BY <1>1, <2>1 DEF Parsed, Restricts, Passes
<1>2. CASE a.k # "filter"
  <2> DEFINE n == Len(a.es)
             cs == [i \in DOMAIN a.es |-> IF i \in Kept(a) THEN EntrySql(a.es[i]) ELSE Nothing]
             c == SetItem(op, cs)
             f == Parsed(op, a)
  <2>1. a.es \in Seq(Entry)
    BY <1>2 DEF AnyArgument, Argument
  <2>2. n \in Nat /\ DOMAIN a.es = 1 .. n /\ \A i \in 1 .. n : a.es[i] \in Entry
    BY <2>1
  <2>3. Kept(a) \subseteq 1 .. n
    BY <2>2 DEF Kept
  <2>4. Len(cs) = n
    <3> HIDE DEF n
    <3> QED BY <2>2
  <2>5. \A i \in 1 .. n : cs[i] = IF i \in Kept(a) THEN EntrySql(a.es[i]) ELSE Nothing
    BY <2>2
  <2> HIDE DEF cs, n
  <2>6. ASSUME NEW i \in 1 .. n
        PROVE  /\ Sound(cs[i]) /\ (cs[i].toks # <<>> <=> i \in Kept(a))
               /\ \A row : i \in Kept(a) => (Holds(cs[i].toks, row) <=> AtomTrue(a.es[i], row))
    BY <2>2, <2>5, SoundTexts
  <2>7. /\ Sound(c)
        /\ c.toks = <<>> <=> \A i \in 1 .. n : cs[i].toks = <<>>
        /\ c.toks # <<>> => \A row : Holds(c.toks, row) <=> Together(op, cs, n, row)
    BY <2>2, <2>4, <2>6, SetItemReads
  <2>8. \A row : Together(op, cs, n, row) <=> Passes(op, a, row)
    BY <1>2, <2>3, <2>6 DEF Together, Passes
  <2>9. c.toks # <<>> <=> Restricts(a)
    BY <1>2, <2>3, <2>6, <2>7 DEF Restricts
  <2>10. /\ f = [toks |-> c.toks, attrs |-> c.attrs, says |-> Restricts(a),
                 pass |-> {row \in Rows : Passes(op, a, row)}]
    BY <1>2 DEF Parsed, ParseEntryList, cs
  <2>11. c.toks \in Seq(Token) /\ c.attrs \in Seq(Int) /\ Restricts(a) \in BOOLEAN
    BY <1>2, <2>7 DEF Sound, Aligned, Restricts
  <2> HIDE DEF c, f
  <2>12. /\ f.toks = c.toks /\ f.attrs = c.attrs /\ f.says = Restricts(a)
         /\ f.pass = {row \in Rows : Passes(op, a, row)}
    BY <2>10
  <2>13. f \in [toks : Seq(Token), attrs : Seq(Int), says : BOOLEAN, pass : SUBSET Rows]
    <3>1. {row \in Rows : Passes(op, a, row)} \in SUBSET Rows
      OBVIOUS
    <3> QED BY <2>10, <2>11, <3>1
  <2>14. IsFilter(f)
    BY <2>7, <2>8, <2>9, <2>12 DEF IsFilter, Sound
  <2> QED BY <2>12, <2>13, <2>14 DEF Filter, f
<1> QED BY <1>1, <1>2

\* What parseWhere makes of filters is empty when none of them says anything, and lets
\* the rows pass that all of them do.
LEMMA ParseWhereReads ==
  ASSUME NEW fs \in Seq(Filter)
  PROVE  /\ Sound(ParseWhere(fs))
         /\ ParseWhere(fs).toks # <<>> <=> \E i \in DOMAIN fs : fs[i].says
         /\ ParseWhere(fs).toks # <<>> =>
              \A row \in Rows : Holds(ParseWhere(fs).toks, row) <=>
                                  \A i \in DOMAIN fs : fs[i].says => row \in fs[i].pass
<1> DEFINE n == Len(fs)
           c == SetItem("AND", fs)
<1>1. n \in Nat /\ DOMAIN fs = 1 .. n /\ \A i \in 1 .. n : fs[i] \in Filter
  OBVIOUS
<1>2. \A i \in 1 .. n : IsFilter(fs[i]) /\ Sound(fs[i])
  BY <1>1 DEF Filter, IsFilter
<1>3. /\ Sound(c)
      /\ c.toks = <<>> <=> \A i \in 1 .. n : fs[i].toks = <<>>
      /\ c.toks # <<>> => \A row : Holds(c.toks, row) <=> Together("AND", fs, n, row)
  <2> HIDE DEF n
  <2>1. n = Len(fs)
    BY DEF n
  <2> QED BY <1>1, <1>2, <2>1, SetItemReads
<1>4. \A row \in Rows : Together("AND", fs, n, row) <=> \A i \in 1 .. n : fs[i].says => row \in fs[i].pass
  BY <1>2 DEF Together, IsFilter
<1>5. c.toks # <<>> <=> \E i \in 1 .. n : fs[i].says
  BY <1>2, <1>3 DEF IsFilter
<1> HIDE DEF n, c
<1> QED BY <1>1, <1>3, <1>4, <1>5 DEF ParseWhere, c

\* What And and Or make of Filters is a Filter.
LEMMA FilterOfIsFilter ==
  ASSUME NEW fs \in Seq(Filter)
  PROVE  FilterOf(fs) \in Filter
<1> DEFINE c == ParseWhere(fs)
           f == FilterOf(fs)
           says == \E i \in DOMAIN fs : fs[i].says
           pass == {row \in Rows : \A i \in DOMAIN fs : fs[i].says => row \in fs[i].pass}
<1>1. /\ Sound(c) /\ (c.toks # <<>> <=> says)
      /\ c.toks # <<>> => \A row \in Rows : Holds(c.toks, row) <=> row \in pass
  BY ParseWhereReads
<1>2. f = [toks |-> c.toks, attrs |-> c.attrs, says |-> says, pass |-> pass]
  BY DEF FilterOf
<1>3. c.toks \in Seq(Token) /\ c.attrs \in Seq(Int) /\ says \in BOOLEAN /\ pass \in SUBSET Rows
  BY <1>1 DEF Sound, Aligned
<1> HIDE DEF c, f, says, pass
<1>4. f.toks = c.toks /\ f.attrs = c.attrs /\ f.says = says /\ f.pass = pass
  BY <1>2
<1>5. f \in [toks : Seq(Token), attrs : Seq(Int), says : BOOLEAN, pass : SUBSET Rows]
  BY <1>2, <1>3
<1>6. IsFilter(f)
  BY <1>1, <1>3, <1>4 DEF IsFilter, Sound
<1> QED BY <1>5, <1>6 DEF Filter, f

\* The Filters of arguments, one for each
LEMMA ParseConditionsType ==
  ASSUME NEW op \in {"AND", "OR"}, NEW args \in Seq(AnyArgument)
  PROVE  /\ ParseConditions(op, args) \in Seq(Filter)
         /\ DOMAIN ParseConditions(op, args) = DOMAIN args
         /\ \A i \in DOMAIN args :
              /\ ParseConditions(op, args)[i].says <=> Restricts(args[i])
              /\ Restricts(args[i]) =>
                   \A row \in Rows : row \in ParseConditions(op, args)[i].pass <=> Passes(op, args[i], row)
<1> DEFINE fs == ParseConditions(op, args)
<1>1. DOMAIN fs = DOMAIN args /\ \A i \in DOMAIN args : fs[i] = Parsed(op, args[i]) /\ args[i] \in AnyArgument
  BY DEF ParseConditions
<1>2. \A i \in DOMAIN args : fs[i] \in Filter
  <2> HIDE DEF fs
  <2> QED BY <1>1, ParsedIsFilter
<1>3. fs \in Seq(Filter)
  <2>1. PICK n \in Nat : DOMAIN args = 1 .. n
    OBVIOUS
  <2>2. fs = [i \in 1 .. n |-> Parsed(op, args[i])] /\ \A i \in 1 .. n : Parsed(op, args[i]) \in Filter
    BY <1>1, <1>2, <2>1 DEF ParseConditions
  <2>3. [i \in 1 .. n |-> Parsed(op, args[i])] \in [1 .. n -> Filter]
    BY <2>2
  <2> HIDE DEF fs
  <2> QED BY <2>2, <2>3, SeqDef
<1> HIDE DEF fs
<1>4. \A i \in DOMAIN args :
        /\ fs[i].says <=> Restricts(args[i])
        /\ Restricts(args[i]) => \A row \in Rows : row \in fs[i].pass <=> Passes(op, args[i], row)
  BY <1>1, ParsedIsFilter
<1> QED BY <1>1, <1>3, <1>4 DEF fs

\* And and Or make a filter that says what its arguments mean.
LEMMA BuiltMeansArguments ==
  ASSUME NEW op \in {"AND", "OR"}, NEW args \in Seq(AnyArgument), NEW f,
         f = FilterOf(ParseConditions(op, args))
  PROVE  /\ f \in Filter
         /\ f.says <=> \E i \in DOMAIN args : Restricts(args[i])
         /\ \A row \in Rows : row \in f.pass <=>
              \A i \in DOMAIN args : Restricts(args[i]) => Passes(op, args[i], row)
<1> DEFINE fs == ParseConditions(op, args)
<1>1. /\ fs \in Seq(Filter) /\ DOMAIN fs = DOMAIN args
      /\ \A i \in DOMAIN args :
           /\ fs[i].says <=> Restricts(args[i])
           /\ Restricts(args[i]) => \A row \in Rows : row \in fs[i].pass <=> Passes(op, args[i], row)
  BY ParseConditionsType
<1> HIDE DEF fs
<1>2. f \in Filter
  BY <1>1, FilterOfIsFilter DEF fs
<1>3. /\ f.says = \E i \in DOMAIN fs : fs[i].says
      /\ f.pass = {row \in Rows : \A i \in DOMAIN fs : fs[i].says => row \in fs[i].pass}
  BY DEF FilterOf, fs
<1> QED BY <1>1, <1>2, <1>3

----------------------------------------------------------------------------
\* The invariant

ResultType ==
  [filters : Seq(Filter), sort : BOOLEAN, one : BOOLEAN, limit : Int, offset : Int, pop : BOOLEAN]

TypeInv ==
  /\ table \subseteq Rows /\ built \in Filter /\ res \in ResultType
  /\ given \in Seq({"AND", "OR"} \X Seq(AnyArgument))

\* What the conditions of a list <<op, args>>, ... demand is what filters say.
ConditionsOf(list) == UNION {{<<g[1], a>> : a \in Range(g[2])} : g \in Range(list)}

Agree(fs, list) ==
  /\ (\E i \in DOMAIN fs : fs[i].says) <=> \E c \in ConditionsOf(list) : Restricts(c[2])
  /\ \A row \in Rows : (\A i \in DOMAIN fs : fs[i].says => row \in fs[i].pass) <=>
                         (\A c \in ConditionsOf(list) : Restricts(c[2]) => Passes(c[1], c[2], row))

SaysGiven == Agree(res.filters, given)

IInv == TypeInv /\ SaysGiven

\* A field of a Result set
LEMMA Reshaped ==
  ASSUME NEW r \in ResultType
  PROVE  /\ \A fs \in Seq(Filter) :
              [r EXCEPT !.filters = fs] \in ResultType /\ [r EXCEPT !.filters = fs].filters = fs
         /\ \A b \in BOOLEAN :
              /\ [r EXCEPT !.sort = b] \in ResultType /\ [r EXCEPT !.sort = b].filters = r.filters
              /\ [r EXCEPT !.one = b] \in ResultType /\ [r EXCEPT !.one = b].filters = r.filters
              /\ [r EXCEPT !.pop = b] \in ResultType /\ [r EXCEPT !.pop = b].filters = r.filters
         /\ \A n \in Int : [r EXCEPT !.limit = n] \in ResultType /\ [r EXCEPT !.limit = n].filters = r.filters
<1>1. ASSUME NEW fs \in Seq(Filter)
      PROVE  [r EXCEPT !.filters = fs] \in ResultType /\ [r EXCEPT !.filters = fs].filters = fs
  BY DEF ResultType
<1>2. ASSUME NEW b \in BOOLEAN
      PROVE  [r EXCEPT !.sort = b] \in ResultType /\ [r EXCEPT !.sort = b].filters = r.filters
  BY DEF ResultType
<1>3. ASSUME NEW b \in BOOLEAN
      PROVE  [r EXCEPT !.one = b] \in ResultType /\ [r EXCEPT !.one = b].filters = r.filters
  BY DEF ResultType
<1>4. ASSUME NEW b \in BOOLEAN
      PROVE  [r EXCEPT !.pop = b] \in ResultType /\ [r EXCEPT !.pop = b].filters = r.filters
  BY DEF ResultType
<1>5. ASSUME NEW n \in Int
      PROVE  [r EXCEPT !.limit = n] \in ResultType /\ [r EXCEPT !.limit = n].filters = r.filters
  BY DEF ResultType
<1> QED BY <1>1, <1>2, <1>3, <1>4, <1>5

\* A new Result
LEMMA FreshType == Fresh \in ResultType /\ Fresh.filters = <<>>
<1>1. <<>> \in Seq(Filter)
  OBVIOUS
<1> QED BY <1>1 DEF Fresh, ResultType

\* Arguments are arguments, those a caller writes and a filter built before.
LEMMA ArgumentsType ==
  ASSUME TypeInv, NEW a \in Arguments
  PROVE  a \in Seq(AnyArgument)
<1>1. CASE a \in Args
  BY <1>1, QueryAssumption, SeqMonotonic DEF AnyArgument
<1>2. CASE a = <<[k |-> "filter", f |-> built]>>
  <2>1. [k |-> "filter", f |-> built] \in AnyArgument
    BY DEF TypeInv, AnyArgument
  <2> QED BY <1>2, <2>1
<1> QED BY <1>1, <1>2 DEF Arguments

\* The invariant holds at first.
LEMMA InitInv == Init => IInv
<1> SUFFICES ASSUME Init PROVE IInv
  OBVIOUS
<1>1. <<>> \in Seq(AnyArgument)
  OBVIOUS
<1>2. built \in Filter
  BY <1>1, BuiltMeansArguments DEF Init, Nil, And
<1>3. res \in ResultType /\ res.filters = <<>>
  BY FreshType DEF Init
<1>4. given \in Seq({"AND", "OR"} \X Seq(AnyArgument)) /\ ConditionsOf(given) = {}
  BY DEF Init, ConditionsOf, Range
<1>5. SaysGiven
  BY <1>3, <1>4 DEF SaysGiven, Agree
<1> QED BY <1>2, <1>3, <1>4, <1>5 DEF IInv, TypeInv, Init

\* Conditions of a longer list
LEMMA ConditionsAppend ==
  ASSUME NEW list \in Seq({"AND", "OR"} \X Seq(AnyArgument)), NEW op \in {"AND", "OR"},
         NEW args \in Seq(AnyArgument)
  PROVE  ConditionsOf(Append(list, <<op, args>>)) =
           ConditionsOf(list) \cup {<<op, args[i]>> : i \in DOMAIN args}
<1> DEFINE g == <<op, args>>
<1>1. Range(Append(list, g)) = Range(list) \cup {g}
  <2>1. g \in {"AND", "OR"} \X Seq(AnyArgument)
    OBVIOUS
  <2> HIDE DEF g
  <2>2. /\ DOMAIN Append(list, g) = 1 .. Len(list) + 1 /\ DOMAIN list = 1 .. Len(list) /\ Len(list) \in Nat
        /\ \A i \in 1 .. Len(list) : Append(list, g)[i] = list[i]
        /\ Append(list, g)[Len(list) + 1] = g
    BY <2>1
  <2>3. 1 .. Len(list) + 1 = 1 .. Len(list) \cup {Len(list) + 1}
    BY <2>2
  <2> QED BY <2>2, <2>3 DEF Range
<1> DEFINE h(x) == {<<x[1], a>> : a \in Range(x[2])}
<1>2. h(g) = {<<op, args[i]>> : i \in DOMAIN args}
  BY DEF Range
<1> DEFINE all(S) == UNION {h(x) : x \in S}
<1>3. \A l : ConditionsOf(l) = all(Range(l))
  BY DEF ConditionsOf
<1>4. ASSUME NEW S, NEW y PROVE y \in all(S) <=> \E x \in S : y \in h(x)
  OBVIOUS
<1> SUFFICES ConditionsOf(Append(list, g)) = ConditionsOf(list) \cup h(g)
  BY <1>2
<1> HIDE DEF g, h, all
<1>5. ASSUME NEW S PROVE all(S \cup {g}) = all(S) \cup h(g)
  BY <1>4
<1> QED BY <1>1, <1>3, <1>5

\* Where and Or of a Result, and Find: filters and conditions grow alike.
LEMMA GrowthKeeps ==
  ASSUME NEW fs \in Seq(Filter), NEW list \in Seq({"AND", "OR"} \X Seq(AnyArgument)),
         NEW op \in {"AND", "OR"}, NEW args \in Seq(AnyArgument), NEW f,
         f = FilterOf(ParseConditions(op, args)),
         Agree(fs, list),
         NEW fs1, fs1 = Append(fs, f), NEW list1, list1 = Append(list, <<op, args>>)
  PROVE  /\ fs1 \in Seq(Filter) /\ list1 \in Seq({"AND", "OR"} \X Seq(AnyArgument))
         /\ Agree(fs1, list1)
<1>1. /\ f \in Filter
      /\ f.says <=> \E i \in DOMAIN args : Restricts(args[i])
      /\ \A row \in Rows : row \in f.pass <=>
           \A i \in DOMAIN args : Restricts(args[i]) => Passes(op, args[i], row)
  BY BuiltMeansArguments
<1>2. /\ fs1 \in Seq(Filter) /\ DOMAIN fs1 = 1 .. Len(fs) + 1 /\ DOMAIN fs = 1 .. Len(fs) /\ Len(fs) \in Nat
      /\ \A i \in 1 .. Len(fs) : fs1[i] = fs[i]
      /\ fs1[Len(fs) + 1] = f
  BY <1>1
<1>3. DOMAIN fs1 = DOMAIN fs \cup {Len(fs) + 1} /\ \A i \in DOMAIN fs : fs1[i] = fs[i]
  BY <1>2
<1>4. ConditionsOf(list1) = ConditionsOf(list) \cup {<<op, args[i]>> : i \in DOMAIN args}
  BY ZenonT(60), ConditionsAppend
<1>5. list1 \in Seq({"AND", "OR"} \X Seq(AnyArgument))
  OBVIOUS
<1>6. /\ (\E i \in DOMAIN fs1 : fs1[i].says) <=> (\E i \in DOMAIN fs : fs[i].says) \/ f.says
      /\ \A row : (\A i \in DOMAIN fs1 : fs1[i].says => row \in fs1[i].pass) <=>
                    (\A i \in DOMAIN fs : fs[i].says => row \in fs[i].pass) /\ (f.says => row \in f.pass)
  BY <1>2, <1>3
<1>7. /\ (\E c \in ConditionsOf(list1) : Restricts(c[2])) <=>
           (\E c \in ConditionsOf(list) : Restricts(c[2])) \/ \E i \in DOMAIN args : Restricts(args[i])
      /\ \A row : (\A c \in ConditionsOf(list1) : Restricts(c[2]) => Passes(c[1], c[2], row)) <=>
           /\ \A c \in ConditionsOf(list) : Restricts(c[2]) => Passes(c[1], c[2], row)
           /\ \A i \in DOMAIN args : Restricts(args[i]) => Passes(op, args[i], row)
  <2>1. \A i \in DOMAIN args : <<op, args[i]>>[1] = op /\ <<op, args[i]>>[2] = args[i]
    OBVIOUS
  <2> DEFINE C == ConditionsOf(list)
             D == {<<op, args[i]>> : i \in DOMAIN args}
  <2>2. (\E c \in D : Restricts(c[2])) <=> \E i \in DOMAIN args : Restricts(args[i])
    BY ZenonT(60), <2>1
  <2>3. ASSUME NEW row
        PROVE  (\A c \in D : Restricts(c[2]) => Passes(c[1], c[2], row)) <=>
                 \A i \in DOMAIN args : Restricts(args[i]) => Passes(op, args[i], row)
    <3> DEFINE P(x, y) == Restricts(y) => Passes(x, y, row)
    <3>1. SUFFICES (\A c \in D : P(c[1], c[2])) <=> \A i \in DOMAIN args : P(op, args[i])
      OBVIOUS
    <3> HIDE DEF P
    <3> QED BY ZenonT(60), <2>1
  <2>4. ConditionsOf(list1) = C \cup D
    BY <1>4
  <2> HIDE DEF C, D
  <2>5. (\E c \in C \cup D : Restricts(c[2])) <=> (\E c \in C : Restricts(c[2])) \/ \E c \in D : Restricts(c[2])
    OBVIOUS
  <2>6. \A row : (\A c \in C \cup D : Restricts(c[2]) => Passes(c[1], c[2], row)) <=>
           /\ \A c \in C : Restricts(c[2]) => Passes(c[1], c[2], row)
           /\ \A c \in D : Restricts(c[2]) => Passes(c[1], c[2], row)
    OBVIOUS
  <2> USE DEF C
  <2> QED BY <2>2, <2>3, <2>4, <2>5, <2>6
<1> QED BY <1>1, <1>2, <1>5, <1>6, <1>7 DEF Agree

----------------------------------------------------------------------------
\* Every step keeps the invariant

\* Where and Or of a Result
LEMMA ResultGrows ==
  ASSUME IInv, NEW op \in {"AND", "OR"}, NEW a \in Arguments,
         res' = Extend(res, FilterOf(ParseConditions(op, a))), given' = Append(given, <<op, a>>),
         table' = table, built' = built
  PROVE  IInv'
<1> DEFINE f == FilterOf(ParseConditions(op, a))
<1>1. a \in Seq(AnyArgument)
  BY ArgumentsType DEF IInv
<1>2. res \in ResultType /\ given \in Seq({"AND", "OR"} \X Seq(AnyArgument))
  BY DEF IInv, TypeInv
<1>3. res.filters \in Seq(Filter)
  BY <1>2 DEF ResultType
<1> HIDE DEF f
<1>4. res' = [res EXCEPT !.filters = Append(res.filters, f)]
  BY DEF Extend, f
<1>5. res' \in ResultType /\ res'.filters = Append(res.filters, f)
  <2>1. f \in Filter
    BY <1>1, BuiltMeansArguments DEF f
  <2>2. Append(res.filters, f) \in Seq(Filter)
    BY <1>3, <2>1
  <2>3. PICK fs : fs = Append(res.filters, f)
    OBVIOUS
  <2>4. [res EXCEPT !.filters = fs] \in ResultType /\ [res EXCEPT !.filters = fs].filters = fs
    BY <1>2, <2>2, <2>3 DEF ResultType
  <2> QED BY <1>4, <2>3, <2>4
<1>6. Agree(res.filters, given)
  BY DEF IInv, SaysGiven
<1>7. f = FilterOf(ParseConditions(op, a))
  BY DEF f
<1>8. PICK fs1, list1 : fs1 = res'.filters /\ list1 = given'
  OBVIOUS
<1>9. /\ fs1 \in Seq(Filter) /\ list1 \in Seq({"AND", "OR"} \X Seq(AnyArgument))
      /\ Agree(fs1, list1)
  <2>1. fs1 = Append(res.filters, f) /\ list1 = Append(given, <<op, a>>)
    BY <1>5, <1>8
  <2>2. PICK fs, list : fs = res.filters /\ list = given
    OBVIOUS
  <2>3. fs \in Seq(Filter) /\ list \in Seq({"AND", "OR"} \X Seq(AnyArgument)) /\ Agree(fs, list)
    BY <1>2, <1>3, <1>6, <2>2
  <2>4. fs1 = Append(fs, f) /\ list1 = Append(list, <<op, a>>)
    BY <2>1, <2>2
  <2> QED BY ZenonT(60), <1>1, <1>7, <2>3, <2>4, GrowthKeeps
<1>10. SaysGiven'
  BY <1>8, <1>9 DEF SaysGiven
<1> QED BY <1>5, <1>8, <1>9, <1>10 DEF IInv, TypeInv

\* Find: one filter for every argument
LEMMA FindGrows ==
  ASSUME IInv, NEW a \in Arguments,
         res' = [Fresh EXCEPT !.filters = ParseConditions("AND", a)], given' = <<<<"AND", a>>>>,
         table' = table, built' = built
  PROVE  IInv'
<1> DEFINE fs == ParseConditions("AND", a)
<1>1. a \in Seq(AnyArgument)
  BY ArgumentsType DEF IInv
<1>2. /\ fs \in Seq(Filter)
      /\ DOMAIN fs = DOMAIN a
      /\ \A i \in DOMAIN a :
           /\ fs[i].says <=> Restricts(a[i])
           /\ Restricts(a[i]) => \A row \in Rows : row \in fs[i].pass <=> Passes("AND", a[i], row)
  BY <1>1, ParseConditionsType
<1> HIDE DEF fs
<1>3. res' \in ResultType /\ res'.filters = fs
  BY <1>2, FreshType, Reshaped DEF fs
<1>4. given' \in Seq({"AND", "OR"} \X Seq(AnyArgument))
  BY <1>1
<1> DEFINE D == {<<"AND", a[i]>> : i \in DOMAIN a}
<1>5. ConditionsOf(given') = D
  <2>1. Range(given') = {<<"AND", a>>}
    BY DEF Range
  <2>2. ConditionsOf(given') = {<<"AND", x>> : x \in Range(a)}
    BY <2>1 DEF ConditionsOf
  <2>3. {<<"AND", x>> : x \in Range(a)} = D
    BY DEF Range
  <2> QED BY <2>2, <2>3
<1>6. \A i \in DOMAIN a : <<"AND", a[i]>>[1] = "AND" /\ <<"AND", a[i]>>[2] = a[i]
  OBVIOUS
<1>7. (\E c \in D : Restricts(c[2])) <=> \E i \in DOMAIN a : Restricts(a[i])
  BY ZenonT(60), <1>6
<1>8. ASSUME NEW row
      PROVE  (\A c \in D : Restricts(c[2]) => Passes(c[1], c[2], row)) <=>
               \A i \in DOMAIN a : Restricts(a[i]) => Passes("AND", a[i], row)
  <2> DEFINE P(x, y) == Restricts(y) => Passes(x, y, row)
  <2>1. SUFFICES (\A c \in D : P(c[1], c[2])) <=> \A i \in DOMAIN a : P("AND", a[i])
    OBVIOUS
  <2> HIDE DEF P
  <2> QED BY ZenonT(60), <1>6
<1> HIDE DEF D
<1>9. SaysGiven'
  <2>1. (\E i \in DOMAIN fs : fs[i].says) <=> \E c \in D : Restricts(c[2])
    BY <1>2, <1>7
  <2>2. ASSUME NEW row \in Rows
        PROVE  (\A i \in DOMAIN fs : fs[i].says => row \in fs[i].pass) <=>
                 \A c \in D : Restricts(c[2]) => Passes(c[1], c[2], row)
    BY <1>2, <1>8
  <2> QED BY <1>3, <1>5, <2>1, <2>2 DEF SaysGiven, Agree
<1> QED BY <1>3, <1>4, <1>9 DEF IInv, TypeInv

\* A Filter built, of arguments or of one built before
LEMMA BuildGrows ==
  ASSUME IInv, NEW a \in Arguments, built' \in {And(a), Or(a)}, UNCHANGED <<table, res, given>>
  PROVE  IInv'
<1>1. a \in Seq(AnyArgument)
  BY ArgumentsType DEF IInv
<1>2. And(a) \in Filter /\ Or(a) \in Filter
  BY <1>1, BuiltMeansArguments DEF And, Or
<1>3. SaysGiven'
  BY DEF IInv, SaysGiven
<1> QED BY <1>2, <1>3 DEF IInv, TypeInv

\* Sorting, selecting, limiting and populating leave the filters alone.
LEMMA ShapeKeeps ==
  ASSUME IInv, Shape
  PROVE  IInv'
<1>1. res \in ResultType
  BY DEF IInv, TypeInv
<1>2. res' \in ResultType /\ res'.filters = res.filters
  <2>1. \/ res' = [res EXCEPT !.sort = TRUE]
        \/ res' = [res EXCEPT !.one = TRUE]
        \/ res' = [res EXCEPT !.limit = 1]
        \/ res' = [res EXCEPT !.pop = TRUE]
    BY DEF Shape
  <2>2. CASE res' = [res EXCEPT !.sort = TRUE]
    BY <1>1, <2>2, Reshaped
  <2>3. CASE res' = [res EXCEPT !.one = TRUE]
    BY <1>1, <2>3, Reshaped
  <2>4. CASE res' = [res EXCEPT !.limit = 1]
    BY <1>1, <2>4 DEF ResultType
  <2>5. CASE res' = [res EXCEPT !.pop = TRUE]
    BY <1>1, <2>5, Reshaped
  <2> QED BY <2>1, <2>2, <2>3, <2>4, <2>5
<1>3. UNCHANGED <<table, built, given>>
  BY DEF Shape
<1>4. SaysGiven'
  BY <1>2, <1>3 DEF IInv, SaysGiven
<1> QED BY <1>2, <1>3, <1>4 DEF IInv, TypeInv

\* A statement: nothing was asked for since, and nothing is said.
LEMMA UsedKeeps ==
  ASSUME IInv, res' = Reset(res), given' = <<>>, built' = built, table' \subseteq table
  PROVE  IInv'
<1>1. res' \in ResultType /\ res'.filters = <<>>
  <2>1. res \in ResultType
    BY DEF IInv, TypeInv
  <2>2. res.one \in BOOLEAN
    BY <2>1 DEF ResultType
  <2> QED BY <2>2, FreshType, Reshaped DEF Reset
<1>2. given' \in Seq({"AND", "OR"} \X Seq(AnyArgument)) /\ ConditionsOf(given') = {}
  BY DEF ConditionsOf, Range
<1>3. SaysGiven'
  BY <1>1, <1>2 DEF SaysGiven, Agree
<1> QED BY <1>1, <1>2, <1>3 DEF IInv, TypeInv

\* Every statement is one.
Used == res' = Reset(res) /\ given' = <<>> /\ built' = built /\ table' \subseteq table

\* All of them end with the reset.
LEMMA StatementsUse ==
  /\ One => Used
  /\ All => Used
  /\ Count => Used
  /\ Paginate => Used
  /\ Update => Used
  /\ Delete => Used
  /\ \A op : Fails(op) => Used
<1> USE DEF Done, Used
<1>1. \A op : Fails(op) => Used
  BY DEF Fails
<1>2. \A op : Fetch(op) => Used
  BY DEF Fetch
<1>3. Count => Used
  BY DEF Count
<1>4. Paginate => Used
  <2>1. ASSUME Paginate PROVE Used
    <3>1. PICK p \in Pages, dst \in Dst \ {"one"} :
            LET page == [res EXCEPT !.limit = p[2], !.offset = (p[1] - 1) * p[2]]
                ns == IF AfterQueryOK(res) THEN Counts(Reset(page)) ELSE {}
            IN  \E T \in Scan(page, dst) :
                  IF ns = {} THEN Done("page", dst, FALSE, T, 0)
                  ELSE \E n \in ns : Done("page", dst, TRUE, T, n)
      BY <2>1 DEF Paginate
    <3> QED BY <2>1, <3>1 DEF Paginate
  <2> QED BY <2>1
<1>5. (Update => Used) /\ (Delete => Used)
  BY DEF Update, Delete
<1> QED BY <1>1, <1>2, <1>3, <1>4, <1>5 DEF One, All

\* Every step keeps the invariant.
LEMMA Step ==
  ASSUME IInv, [Next]_vars
  PROVE  IInv'
<1>1. CASE Build
  BY <1>1, BuildGrows DEF Build
<1>2. CASE Find
  BY <1>2, FindGrows DEF Find
<1>3. CASE Shape
  BY <1>3, ShapeKeeps
<1>4. ASSUME NEW a \in Arguments, ResultAnd(a) PROVE IInv'
  BY <1>4, ResultGrows DEF ResultAnd, And
<1>5. ASSUME NEW a \in Arguments, ResultOr(a) PROVE IInv'
  BY <1>5, ResultGrows DEF ResultOr, Or
<1>6. CASE Used
  BY <1>6, UsedKeeps DEF Used
<1>7. CASE UNCHANGED vars
  BY <1>7 DEF vars, IInv, TypeInv, SaysGiven
<1> QED BY <1>1, <1>2, <1>3, <1>4, <1>5, <1>6, <1>7, StatementsUse DEF Next

\* The filters of the Result always say what was asked for since it was made or last used.
THEOREM Invariance == Spec => []IInv
<1>1. IInv /\ [Next]_vars => IInv'
  BY Step
<1> QED BY InitInv, <1>1, PTL DEF Spec

----------------------------------------------------------------------------
\* What queries read

\* The SQL of a Result selects what the conditions given to it mean.
LEMMA SelectedIsWanted ==
  ASSUME IInv
  PROVE  /\ Selected(res) = Wanted
         /\ Where.toks # <<>> => \E c \in Conditions : Restricts(c[2])
<1> DEFINE w == ParseWhere(res.filters)
           pass(row) == \A i \in DOMAIN res.filters : res.filters[i].says => row \in res.filters[i].pass
           want(row) == \A c \in Conditions : Restricts(c[2]) => Passes(c[1], c[2], row)
           says == \E i \in DOMAIN res.filters : res.filters[i].says
           asks == \E c \in Conditions : Restricts(c[2])
<1>1. res.filters \in Seq(Filter) /\ table \subseteq Rows
  BY DEF IInv, TypeInv, ResultType
<1>2. /\ Sound(w)
      /\ w.toks # <<>> <=> says
      /\ w.toks # <<>> => \A row \in Rows : Holds(w.toks, row) <=> pass(row)
  BY <1>1, ParseWhereReads
<1>3. (says <=> asks) /\ \A row \in Rows : pass(row) <=> want(row)
  BY DEF IInv, SaysGiven, Agree, Conditions, ConditionsOf
<1>4. Bound(w) = w.toks
  <2>1. Aligned(w.toks, w.attrs)
    BY <1>2 DEF Sound
  <2> HIDE DEF w
  <2> QED BY <2>1, BoundIsWritten
<1>5. Where.toks # <<>> => asks
  BY <1>2, <1>3 DEF Where
<1>6. Wanted = {row \in table : want(row)} /\ (~asks => \A row : want(row))
  BY DEF Wanted
<1>7. Selected(res) = IF w.toks = <<>> THEN table ELSE {row \in table : Holds(w.toks, row)}
  BY <1>4 DEF Selected, Matching
<1> HIDE DEF w, pass, want, says
<1>8. Selected(res) = Wanted
  <2>1. CASE w.toks = <<>>
    BY <2>1, <1>2, <1>3, <1>6, <1>7
  <2>2. CASE w.toks # <<>>
    BY <2>2, <1>1, <1>2, <1>3, <1>6, <1>7
  <2> QED BY <2>1, <2>2
<1> QED BY <1>5, <1>8

\* Whatever the order, the limit and the destination, a query reads rows that its WHERE
\* selects, and without order and limit a slice takes all of them.
LEMMA AnswersAreSelected ==
  ASSUME NEW r, NEW T \in Answers(r)
  PROVE  /\ T \subseteq Selected(r)
         /\ (r.limit = 0 /\ ~r.sort) => T = Selected(r)
<1> DEFINE S0 == Selected(r)
<1> HIDE DEF S0
<1>1. PICK S \in (IF r.sort THEN Grouped(S0) ELSE {S0}) : T \in Limited(S, r.limit, r.offset)
  BY DEF Answers, S0
<1>2. S \subseteq S0 /\ (~r.sort => S = S0)
  BY <1>1 DEF Grouped
<1>3. T \subseteq S /\ (r.limit = 0 => T = S)
  <2>1. CASE r.limit = 0
    BY <1>1, <2>1 DEF Limited
  <2>2. CASE r.limit # 0
    BY <1>1, <2>2 DEF Limited
  <2> QED BY <2>1, <2>2
<1>4. T \subseteq S0 /\ ((r.limit = 0 /\ ~r.sort) => T = S0)
  BY <1>2, <1>3
<1> QED BY <1>4 DEF S0

\* Whatever the destination, a query reads selected rows, into a slice as many as it yields.
LEMMA ScansAreSelected ==
  ASSUME NEW r, NEW dst \in Dst, NEW T \in Scan(r, dst)
  PROVE  /\ T \subseteq Selected(r)
         /\ (dst = "slice" /\ r.limit = 0 /\ ~r.sort) => T = Selected(r)
<1>1. CASE dst = "nilslice"
  BY <1>1 DEF Scan
<1>2. CASE dst = "slice"
  <2>1. T \in Answers(r)
    BY <1>2 DEF Scan
  <2> QED BY <1>2, <2>1, AnswersAreSelected
<1>3. CASE dst = "one"
  <2>1. Scan(r, dst) = UNION {IF A = {} THEN {} ELSE {{x} : x \in A} : A \in Answers(r)}
    BY <1>3 DEF Scan
  <2>2. PICK A \in Answers(r) : T \in IF A = {} THEN {} ELSE {{x} : x \in A}
    BY <2>1
  <2>3. T \subseteq A
    BY <2>2
  <2> QED BY <1>3, <2>3, AnswersAreSelected
<1> QED BY <1>1, <1>2, <1>3 DEF Dst

\* What a statement leaves in out
OutIs(op, dst, ok, rows) == out'.op = op /\ out'.dst = dst /\ out'.ok = ok /\ out'.rows = rows

\* A statement ends in one Done.
LEMMA DoneSays ==
  ASSUME NEW op, NEW dst, NEW ok, NEW rows, NEW n, Done(op, dst, ok, rows, n)
  PROVE  OutIs(op, dst, ok, rows)
BY DEF Done, OutIs

\* One and All
LEMMA FetchReads ==
  ASSUME NEW op, Fetch(op)
  PROVE  \E dst \in Dst : \E ok, T : T \in Scan(res, dst) /\ OutIs(op, dst, ok, T)
<1>1. PICK dst \in Dst : \E T \in Scan(res, dst) : Done(op, dst, AfterQueryOK(res), T, Cardinality(T))
  BY DEF Fetch
<1>2. PICK T \in Scan(res, dst) : Done(op, dst, AfterQueryOK(res), T, Cardinality(T))
  BY <1>1
<1>3. OutIs(op, dst, AfterQueryOK(res), T)
  BY <1>2, DoneSays
<1> QED BY <1>3

\* Paginate sets limit and offset only: its WHERE is that of the Result.
LEMMA PaginateReads ==
  ASSUME IInv, Paginate
  PROVE  \E dst, ok, T : T \subseteq Selected(res) /\ OutIs("page", dst, ok, T)
<1>1. PICK p \in Pages, dst \in Dst \ {"one"} :
        LET page == [res EXCEPT !.limit = p[2], !.offset = (p[1] - 1) * p[2]]
            ns == IF AfterQueryOK(res) THEN Counts(Reset(page)) ELSE {}
        IN  \E T \in Scan(page, dst) :
              IF ns = {} THEN Done("page", dst, FALSE, T, 0)
              ELSE \E n \in ns : Done("page", dst, TRUE, T, n)
  BY DEF Paginate
<1> DEFINE page == [res EXCEPT !.limit = p[2], !.offset = (p[1] - 1) * p[2]]
<1>2. page.filters = res.filters
  <2>1. res \in ResultType
    BY DEF IInv, TypeInv
  <2> QED BY <2>1 DEF ResultType
<1> HIDE DEF page
<1>3. PICK T \in Scan(page, dst) :
        \/ Done("page", dst, FALSE, T, 0)
        \/ \E n : Done("page", dst, TRUE, T, n)
  BY <1>1 DEF page
<1>4. \E ok : OutIs("page", dst, ok, T)
  BY <1>3, DoneSays
<1>5. T \subseteq Selected(page)
  BY <1>3, ScansAreSelected
<1>6. Selected(page) = Selected(res)
  BY <1>2 DEF Selected
<1> QED BY <1>4, <1>5, <1>6

\* The other statements
LEMMA OthersRead ==
  /\ Count => \E dst, ok, T : OutIs("count", dst, ok, T)
  /\ \A op : Fails(op) => OutIs(op, "any", FALSE, {})
  /\ Update => Where.toks # <<>> /\ OutIs("update", "any", TRUE, Selected(res))
  /\ Delete => Where.toks # <<>> /\ OutIs("delete", "any", TRUE, Selected(res))
<1>1. Count => \E dst, ok, T : OutIs("count", dst, ok, T)
  <2>1. ASSUME Count PROVE \E ok, n : Done("count", "any", ok, {}, n)
    BY <2>1 DEF Count
  <2> QED BY <2>1, DoneSays
<1>2. \A op : Fails(op) => OutIs(op, "any", FALSE, {})
  BY DoneSays DEF Fails
<1>3. Update => Where.toks # <<>> /\ OutIs("update", "any", TRUE, Selected(res))
  BY DoneSays DEF Update, Writable
<1>4. Delete => Where.toks # <<>> /\ OutIs("delete", "any", TRUE, Selected(res))
  BY DoneSays DEF Delete, Writable
<1> QED BY <1>1, <1>2, <1>3, <1>4

\* Only statements count as calls.
LEMMA CallsAreStatements ==
  ASSUME [Next]_vars, calls' # calls
  PROVE  \/ Fetch("one") \/ Fetch("all") \/ Count \/ Paginate \/ Update \/ Delete
         \/ \E op : Fails(op)
<1>1. ~Build /\ ~Find /\ ~Shape /\ \A a : ~ResultAnd(a) /\ ~ResultOr(a)
  BY DEF Build, Find, Shape, ResultAnd, ResultOr, Building
<1>2. Next
  BY DEF vars
<1> QED BY <1>1, <1>2 DEF Next, One, All

----------------------------------------------------------------------------
\* The theorems

\* For every table and all arguments of And, Or, Find and Where: the SQL that parseWhere
\* writes, parameters bound by position, selects the rows that the conditions mean.
THEOREM ClauseMeaning == Spec => []ClauseMeansConditions
<1>1. IInv => ClauseMeansConditions
  BY SelectedIsWanted DEF ClauseMeansConditions
<1> QED BY <1>1, Invariance, PTL

\* A query reads only rows that its own conditions select, and One or All into a slice,
\* without limit and order, all of them.
THEOREM QueryReturns == Spec => QueryReturnsMatches
<1>1. ASSUME IInv, [Next]_vars, calls' # calls, out'.op \in {"one", "all", "page"}
      PROVE  /\ out'.rows \subseteq Wanted
             /\ (out'.dst = "slice" /\ out'.op # "page" /\ res.limit = 0 /\ ~res.sort) =>
                  out'.rows = Wanted
  <2>1. Selected(res) = Wanted
    BY <1>1, SelectedIsWanted
  <2>2. ASSUME NEW op \in {"one", "all"}, Fetch(op)
        PROVE  /\ out'.rows \subseteq Wanted
               /\ (out'.dst = "slice" /\ res.limit = 0 /\ ~res.sort) => out'.rows = Wanted
    <3>1. PICK dst \in Dst : \E ok, T : T \in Scan(res, dst) /\ OutIs(op, dst, ok, T)
      BY <2>2, FetchReads
    <3>2. PICK ok, T : T \in Scan(res, dst) /\ OutIs(op, dst, ok, T)
      BY <3>1
    <3> QED BY <2>1, <3>2, ScansAreSelected DEF OutIs
  <2>3. CASE Paginate
    BY <1>1, <2>1, <2>3, PaginateReads DEF OutIs
  <2>4. ASSUME NEW op, Fails(op)
        PROVE  out'.rows = {} /\ out'.dst = "any"
    BY <2>4, OthersRead DEF OutIs
  <2>5. ~Count /\ ~Update /\ ~Delete
    BY <1>1, OthersRead DEF OutIs
  <2> QED BY <1>1, <2>2, <2>3, <2>4, <2>5, CallsAreStatements
<1> QED BY <1>1, Invariance, PTL DEF Spec, QueryReturnsMatches

\* Update and Delete touch only rows that the conditions select, and some condition
\* given since the Result was made or last used restricts.
THEOREM WritesNeed == Spec => WritesNeedConditions
<1>1. ASSUME IInv, [Next]_vars, calls' # calls, out'.op \in {"update", "delete"}, out'.ok
      PROVE  out'.rows \subseteq Wanted /\ \E c \in Conditions : Restricts(c[2])
  <2>1. Selected(res) = Wanted /\ (Where.toks # <<>> => \E c \in Conditions : Restricts(c[2]))
    BY <1>1, SelectedIsWanted
  <2>2. ASSUME NEW op \in {"one", "all"}, Fetch(op) PROVE FALSE
    <3>1. out'.op = op
      BY <2>2, FetchReads DEF OutIs
    <3> QED BY <1>1, <3>1
  <2>3. ~Paginate /\ ~Count
    BY <1>1, PaginateReads, OthersRead DEF OutIs
  <2>4. \A op : ~Fails(op)
    BY <1>1, OthersRead DEF OutIs
  <2>5. CASE Update
    BY <2>1, <2>5, OthersRead DEF OutIs
  <2>6. CASE Delete
    BY <2>1, <2>6, OthersRead DEF OutIs
  <2> QED BY <1>1, <2>2, <2>3, <2>4, <2>5, <2>6, CallsAreStatements
<1> QED BY <1>1, Invariance, PTL DEF Spec, WritesNeedConditions
=============================================================================
