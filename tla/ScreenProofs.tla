---------------------------- MODULE ScreenProofs ----------------------------
(***************************************************************************)
(* The inline terminal writer, for any window sizes of two or more, any    *)
(* rows, frames and number of resizes: whatever was drawn, printed,        *)
(* resized or run by a child, what the writer believes to be on screen is  *)
(* there, and history is above it, once and in order (ScreenTrue).         *)
(*                                                                         *)
(* The argument: Framed says what a region drawn on a page is, and that    *)
(* its lines are narrower than the window, so that each takes one row. So  *)
(* a move up by rows is one by lines and ends on the top of the region     *)
(* (MoveIs). Drawing and printing then leave a framed region (DrawIs,      *)
(* PrintIs). A resize reflows the lines; the widths recorded are no wider  *)
(* than what was written, so the rows counted above the caret are no more  *)
(* than there are (CountedFewer), and lead back to the region's top or to  *)
(* a row below it: never above (TopFound). So it loses no finished row     *)
(* (ResizeIs).                                                             *)
(***************************************************************************)
EXTENDS Screen, TLAPS, NaturalsInduction, WellFoundedInduction, SequenceTheorems

(* What a line of the page may be, and a page.                              *)
Lines == Cells(Finished \cup Passing)
Pages == [lines : Seq(Lines), at : Nat, sub : Nat, col : Nat]

(* Rows as they are given, before they are encoded.                         *)
Given == Spans(Finished \cup Passing)

(* A set of naturals that has an element has a least one.                   *)
LEMMA MinOf ==
  ASSUME NEW S \in SUBSET Nat, S # {}
  PROVE  \E m \in S : \A x \in S : m <= x
<1> DEFINE R == OpToRel(<, Nat)
<1>1. IsWellFoundedOn(R, Nat) BY NatLessThanWellFounded
<1>2. PICK m \in S : \A y \in S : ~(<<y, m>> \in R) BY <1>1, WFMin, Zenon
<1>3. \A y \in S : m <= y
  <2> SUFFICES ASSUME NEW y \in S PROVE m <= y OBVIOUS
  <2>1. ~(<<y, m>> \in R) BY <1>2
  <2>2. ~(y < m) BY <2>1, Zenon DEF OpToRel
  <2> QED BY <2>2
<1> QED BY <1>3

(* What is taken step after step, from a, each by the function step.        *)
StepsIn(step, S, n) == \A i \in 1 .. n, x \in S : step[<<i, x>>] \in S
Steps(f, a, step, n) == \A i \in 0 .. n : f[i] = IF i = 0 THEN a ELSE step[<<i, f[i - 1]>>]

(* A run of n steps that stay in S exists.                                  *)
LEMMA StepsExist ==
  ASSUME NEW S, NEW a \in S, NEW n \in Nat, NEW step, StepsIn(step, S, n)
  PROVE  \E f \in [0 .. n -> S] : Steps(f, a, step, n)
<1> USE DEF StepsIn, Steps
<1> DEFINE Runs(f, m) == f \in [0 .. m -> S] /\ \A i \in 0 .. m :
                 f[i] = IF i = 0 THEN a ELSE step[<<i, f[i - 1]>>]
           Bad == {m \in 0 .. n : ~\E f : Runs(f, m)}
<1>1. Bad = {}
  <2> SUFFICES ASSUME Bad # {} PROVE FALSE OBVIOUS
  <2>0. Bad \in SUBSET Nat OBVIOUS
  <2>1. PICK m \in Bad : \A x \in Bad : m <= x BY <2>0, MinOf
  <2>2. m # 0
    <3>1. Runs([i \in 0 .. 0 |-> a], 0) OBVIOUS
    <3> QED BY <3>1, <2>1
  <2>3. m - 1 \in 0 .. n /\ ~(m <= m - 1) /\ m \in 1 .. n BY <2>1, <2>2
  <2>4. PICK f : Runs(f, m - 1) BY <2>1, <2>3
  <2> DEFINE g == [i \in 0 .. m |-> IF i = m THEN step[<<m, f[m - 1]>>] ELSE f[i]]
  <2>5. f[m - 1] \in S BY <2>3, <2>4
  <2>6. g \in [0 .. m -> S] BY <2>3, <2>4, <2>5
  <2>7. ASSUME NEW i \in 0 .. m PROVE g[i] = IF i = 0 THEN a ELSE step[<<i, g[i - 1]>>]
    <3>1. CASE i = m
      <4>1. g[i] = step[<<m, f[m - 1]>>] /\ i - 1 \in 0 .. m /\ i - 1 # m /\ i # 0 BY <2>2, <2>3, <3>1
      <4>2. g[i - 1] = f[i - 1] BY <4>1
      <4> QED BY <3>1, <4>1, <4>2
    <3>2. CASE i # m
      <4>1. i \in 0 .. (m - 1) /\ g[i] = f[i] BY <2>3, <3>2
      <4>2. i # 0 => i - 1 \in 0 .. m /\ i - 1 # m BY <2>3, <4>1
      <4>3. i # 0 => g[i - 1] = f[i - 1] BY <4>2
      <4> QED BY <2>4, <4>1, <4>3
    <3> QED BY <3>1, <3>2
  <2>8. Runs(g, m) BY <2>6, <2>7
  <2> QED BY <2>1, <2>8
<1>2. n \in 0 .. n OBVIOUS
<1>3. \E f : Runs(f, n) BY <1>1, <1>2
<1> QED BY <1>3

(* A line takes a row at least, and one if it is narrower than the window.  *)
LEMMA HeightIs ==
  ASSUME NEW l, l.width \in Nat, NEW w \in Nat \ {0}
  PROVE  /\ Height(l, w) \in Nat \ {0}
         /\ l.width < w => Height(l, w) = 1
<1>1. CASE l.width = 0 BY <1>1 DEF Height
<1>2. CASE l.width # 0
  <2>1. l.width + w - 1 \in Nat /\ l.width + w - 1 >= w BY <1>2
  <2>2. (l.width + w - 1) \div w \in Nat \ {0} BY <2>1
  <2>3. l.width < w => l.width + w - 1 < 2 * w BY <1>2
  <2>4. l.width < w => (l.width + w - 1) \div w = 1 BY <2>1, <2>3
  <2> QED BY <1>2, <2>2, <2>4 DEF Height
<1> QED BY <1>1, <1>2

(* Division keeps the order.                                               *)
LEMMA DivRises ==
  ASSUME NEW a \in Nat, NEW b \in Nat, NEW w \in Nat \ {0}, a <= b
  PROVE  a \div w <= b \div w
<1>1. a \div w \in Nat /\ b \div w \in Nat /\ a % w \in 0 .. (w - 1) /\ b % w \in 0 .. (w - 1)
  OBVIOUS
<1>2. a = w * (a \div w) + (a % w) /\ b = w * (b \div w) + (b % w) OBVIOUS
<1> DEFINE x == a \div w
           y == b \div w
<1>3. ASSUME x > y PROVE FALSE
  <2>0. x \in Nat /\ y \in Nat BY <1>1
  <2> HIDE DEF x, y
  <2>1. x >= y + 1 BY <1>3, <2>0
  <2>2. w * x >= w * (y + 1) BY <2>0, <2>1
  <2>3. w * (y + 1) = w * y + w BY <2>0
  <2>4. a >= w * x /\ b < w * y + w BY <1>1, <1>2 DEF x, y
  <2>5. w * x \in Nat /\ w * y \in Nat BY <2>0
  <2> QED BY <2>2, <2>3, <2>4, <2>5
<1> QED BY <1>1, <1>3

(* A wider line takes as many rows, or more.                                *)
LEMMA HeightRises ==
  ASSUME NEW l, NEW m, l.width \in Nat, m.width \in Nat, l.width <= m.width, NEW w \in Nat \ {0}
  PROVE  Height(l, w) <= Height(m, w)
<1> DEFINE a == l.width + w - 1
           b == m.width + w - 1
<1>1. a \in Nat /\ b \in Nat /\ a <= b OBVIOUS
<1>2. a \div w <= b \div w
  <2> HIDE DEF a, b
  <2> QED BY <1>1, DivRises
<1>3. m.width # 0 => 1 <= b \div w
  <2> SUFFICES ASSUME m.width # 0 PROVE 1 <= b \div w OBVIOUS
  <2>1. w <= b /\ w \in Nat OBVIOUS
  <2>2. w \div w = 1 OBVIOUS
  <2>3. w \div w <= b \div w
    <3> HIDE DEF b
    <3> QED BY <1>1, <2>1, DivRises
  <2> QED BY <2>2, <2>3
<1>4. Height(l, w) = (IF l.width = 0 THEN 1 ELSE a \div w) /\ Height(m, w) = (IF m.width = 0 THEN 1 ELSE b \div w)
  BY DEF Height
<1> QED BY <1>2, <1>3, <1>4

(* A column is on one row, at one cell of it.                               *)
LEMMA ColumnParts ==
  ASSUME NEW c \in Nat, NEW w \in Nat \ {0}
  PROVE  c \div w \in Nat /\ (c < w => c \div w = 0) /\ c % w \in Nat
OBVIOUS

(* The lines of a page.                                                     *)
LEMMA LineIs ==
  ASSUME NEW lines \in Seq(Lines)
  PROVE  /\ Len(lines) \in Nat /\ DOMAIN lines = 1 .. Len(lines)
         /\ \A k \in 1 .. Len(lines) :
              lines[k] \in Lines /\ lines[k].width \in Nat /\ lines[k].text \in Finished \cup Passing
<1>1. Len(lines) \in Nat /\ DOMAIN lines = 1 .. Len(lines)
      /\ \A k \in 1 .. Len(lines) : lines[k] \in Lines OBVIOUS
<1>2. \A l \in Lines : l.width \in Nat /\ l.text \in Finished \cup Passing BY DEF Lines, Cells
<1> QED BY <1>1, <1>2

-----------------------------------------------------------------------------
(* RowsTo, unfolded.                                                        *)
LEMMA RowsToIs ==
  ASSUME NEW lines \in Seq(Lines), NEW w \in Nat \ {0}
  PROVE  /\ RowsTo(lines, 0, w) = 0
         /\ \A k \in 0 .. Len(lines) : RowsTo(lines, k, w) \in Nat
         /\ \A k \in 1 .. Len(lines) :
              /\ RowsTo(lines, k, w) = RowsTo(lines, k - 1, w) + Height(lines[k], w)
              /\ Height(lines[k], w) \in Nat \ {0}
<1> DEFINE n == Len(lines)
           step == [x \in (1 .. n) \X Nat |-> x[2] + Height(lines[x[1]], w)]
           Is(f) == f = [i \in 0 .. n |-> IF i = 0 THEN 0 ELSE f[i - 1] + Height(lines[i], w)]
           R == CHOOSE f : Is(f)
<1>1. n \in Nat /\ \A k \in 1 .. n : lines[k].width \in Nat BY LineIs
<1>2. \A k \in 1 .. n : Height(lines[k], w) \in Nat \ {0} BY <1>1, HeightIs
<1>3. \A i \in 1 .. n, x \in Nat : /\ step[<<i, x>>] = x + Height(lines[i], w)
                                  /\ step[<<i, x>>] \in Nat
  BY <1>1, <1>2
<1> HIDE DEF step
<1>4. PICK f \in [0 .. n -> Nat] : Steps(f, 0, step, n)
  <2>1. StepsIn(step, Nat, n) BY <1>3 DEF StepsIn
  <2> HIDE DEF n
  <2> QED BY <1>1, <2>1, StepsExist
<1>5. \A i \in 0 .. n : f[i] = IF i = 0 THEN 0 ELSE f[i - 1] + Height(lines[i], w)
  <2> HIDE DEF n
  <2> TAKE i \in 0 .. n
  <2>1. i # 0 => i \in 1 .. n /\ i - 1 \in 0 .. n BY <1>1
  <2>2. i # 0 => f[i - 1] \in Nat BY <2>1
  <2>3. i # 0 => step[<<i, f[i - 1]>>] = f[i - 1] + Height(lines[i], w) BY <1>3, <2>1, <2>2
  <2> QED BY <1>4, <2>3 DEF Steps
<1>6. Is(f)
  <2>1. f = [i \in 0 .. n |-> f[i]] OBVIOUS
  <2> QED BY <1>5, <2>1
<1>7. Is(R) BY <1>6
<1>8. \A i \in 0 .. n : R[i] = IF i = 0 THEN 0 ELSE R[i - 1] + Height(lines[i], w) BY <1>7
<1>9. \A k : RowsTo(lines, k, w) = R[k] BY DEF RowsTo
<1> HIDE DEF R
<1>10. \A i \in 0 .. n : R[i] \in Nat
  <2> DEFINE Bad == {i \in 0 .. n : R[i] \notin Nat}
  <2> SUFFICES ASSUME Bad # {} PROVE FALSE OBVIOUS
  <2>0. Bad \in SUBSET Nat BY <1>1
  <2>1. PICK m \in Bad : \A x \in Bad : m <= x BY <2>0, MinOf
  <2>2. m # 0 BY <1>8, <2>1
  <2>3. m - 1 \in 0 .. n /\ ~(m <= m - 1) /\ m \in 1 .. n BY <2>1, <2>2
  <2>4. R[m - 1] \in Nat BY <2>1, <2>3
  <2> QED BY <1>2, <1>8, <2>1, <2>2, <2>3, <2>4
<1>11. RowsTo(lines, 0, w) = 0
  <2>1. 0 \in 0 .. n BY <1>1
  <2> QED BY <1>8, <1>9, <2>1
<1>12. ASSUME NEW k \in 1 .. n
       PROVE  RowsTo(lines, k, w) = RowsTo(lines, k - 1, w) + Height(lines[k], w)
  <2>1. k \in 0 .. n /\ k # 0 BY <1>1
  <2> QED BY <1>8, <1>9, <2>1
<1> QED BY <1>2, <1>9, <1>10, <1>11, <1>12

(* Rows are counted line after line: those of d, where d stands in l.       *)
LEMMA RowsShift ==
  ASSUME NEW l \in Seq(Lines), NEW d \in Seq(Lines), NEW w \in Nat \ {0}, NEW k \in Nat,
         NEW c \in 0 .. Len(d), k + c <= Len(l), \A i \in 1 .. c : l[k + i] = d[i]
  PROVE  RowsTo(l, k + c, w) = RowsTo(l, k, w) + RowsTo(d, c, w)
<1> DEFINE Bad == {m \in 0 .. c : RowsTo(l, k + m, w) # RowsTo(l, k, w) + RowsTo(d, m, w)}
<1>1. Bad = {}
  <2> SUFFICES ASSUME Bad # {} PROVE FALSE OBVIOUS
  <2>0. Len(l) \in Nat /\ Len(d) \in Nat /\ Bad \in SUBSET Nat OBVIOUS
  <2>1. PICK m \in Bad : \A x \in Bad : m <= x BY <2>0, MinOf
  <2>2. m # 0
    <3>0. k \in 0 .. Len(l) BY <2>0
    <3>1. RowsTo(d, 0, w) = 0 /\ RowsTo(l, k, w) \in Nat BY <3>0, RowsToIs
    <3> QED BY <2>1, <3>1
  <2>3. m - 1 \in 0 .. c /\ ~(m <= m - 1) /\ m \in 1 .. Len(d) /\ k + m \in 1 .. Len(l) /\ m \in 1 .. c
    BY <2>0, <2>1, <2>2
  <2>4. RowsTo(l, k + (m - 1), w) = RowsTo(l, k, w) + RowsTo(d, m - 1, w) BY <2>1, <2>3
  <2>5. /\ RowsTo(l, k + m, w) = RowsTo(l, k + m - 1, w) + Height(d[m], w)
        /\ RowsTo(d, m, w) = RowsTo(d, m - 1, w) + Height(d[m], w)
        /\ Height(d[m], w) \in Nat
    BY <2>3, RowsToIs
  <2>6. k + m - 1 = k + (m - 1) /\ m - 1 \in 0 .. Len(d) /\ k \in 0 .. Len(l) BY <2>0, <2>3
  <2>7. RowsTo(d, m - 1, w) \in Nat /\ RowsTo(l, k, w) \in Nat BY <2>6, RowsToIs
  <2> QED BY <2>1, <2>4, <2>5, <2>6, <2>7
<1> QED BY <1>1

(* Every line takes a row, those that are narrow one.                       *)
LEMMA RowsRise ==
  ASSUME NEW l \in Seq(Lines), NEW w \in Nat \ {0}, NEW b \in 0 .. Len(l), NEW a \in 0 .. b
  PROVE  /\ RowsTo(l, a, w) + (b - a) <= RowsTo(l, b, w)
         /\ (\A i \in a + 1 .. b : l[i].width < w) => RowsTo(l, b, w) = RowsTo(l, a, w) + (b - a)
<1> DEFINE Fits(m) ==
             /\ RowsTo(l, a, w) + (m - a) <= RowsTo(l, m, w)
             /\ (\A i \in a + 1 .. b : l[i].width < w) => RowsTo(l, m, w) = RowsTo(l, a, w) + (m - a)
           Bad == {m \in a .. b : ~Fits(m)}
<1>0. Len(l) \in Nat /\ a \in Nat /\ b \in Nat /\ \A k \in 1 .. Len(l) : l[k].width \in Nat BY LineIs
<1>1. Bad = {}
  <2> SUFFICES ASSUME Bad # {} PROVE FALSE OBVIOUS
  <2>0. Bad \in SUBSET Nat BY <1>0
  <2>1. PICK m \in Bad : \A x \in Bad : m <= x BY <2>0, MinOf
  <2>2. m # a
    <3>1. RowsTo(l, a, w) \in Nat BY <1>0, RowsToIs
    <3> QED BY <2>1, <3>1
  <2>3. m - 1 \in a .. b /\ ~(m <= m - 1) /\ m \in 1 .. Len(l) /\ m \in a + 1 .. b BY <1>0, <2>1, <2>2
  <2>4. Fits(m - 1) BY <2>1, <2>3
  <2>5. RowsTo(l, m, w) = RowsTo(l, m - 1, w) + Height(l[m], w) /\ Height(l[m], w) \in Nat \ {0}
    BY <2>3, RowsToIs
  <2>6. l[m].width < w => Height(l[m], w) = 1 BY <1>0, <2>3, HeightIs
  <2>7. RowsTo(l, m - 1, w) \in Nat /\ RowsTo(l, a, w) \in Nat
    <3>1. m - 1 \in 0 .. Len(l) /\ a \in 0 .. Len(l) BY <1>0, <2>3
    <3> QED BY <3>1, RowsToIs
  <2>8. m - 1 - a + 1 = m - a BY <1>0, <2>3
  <2>9. RowsTo(l, a, w) + (m - a) <= RowsTo(l, m, w)
    <3> DEFINE x == RowsTo(l, a, w)
               y == RowsTo(l, m - 1, w)
               z == RowsTo(l, m, w)
               one == Height(l[m], w)
    <3>1. /\ x \in Nat /\ y \in Nat /\ one \in Nat /\ one # 0 /\ z = y + one /\ x + (m - 1 - a) <= y
          /\ m \in Int /\ a \in Int
      BY <1>0, <2>3, <2>4, <2>5, <2>7
    <3> HIDE DEF x, y, z, one
    <3>2. x + (m - a) <= z BY <3>1
    <3> QED BY <3>2 DEF x, z
  <2>10. ASSUME \A i \in a + 1 .. b : l[i].width < w
         PROVE  RowsTo(l, m, w) = RowsTo(l, a, w) + (m - a)
    <3>1. RowsTo(l, m - 1, w) = RowsTo(l, a, w) + (m - 1 - a) BY <2>4, <2>10
    <3>2. Height(l[m], w) = 1 BY <2>3, <2>6, <2>10
    <3>3. RowsTo(l, m, w) = RowsTo(l, m - 1, w) + 1 BY <2>5, <3>2
    <3>4. a \in Int /\ m \in Int BY <1>0, <2>3
    <3> QED BY <2>7, <3>1, <3>3, <3>4
  <2>11. Fits(m) BY <2>9, <2>10
  <2> QED BY <2>1, <2>11
<1>2. b \in a .. b BY <1>0
<1> QED BY <1>1, <1>2

(* FinishedTo, unfolded.                                                    *)
LEMMA FinishedToIs ==
  ASSUME NEW lines \in Seq(Lines)
  PROVE  /\ FinishedTo(lines, 0) = <<>>
         /\ \A k \in 0 .. Len(lines) : FinishedTo(lines, k) \in Seq(Lines)
         /\ \A k \in 1 .. Len(lines) :
              FinishedTo(lines, k) = IF lines[k].text \in Finished
                                     THEN Append(FinishedTo(lines, k - 1), lines[k])
                                     ELSE FinishedTo(lines, k - 1)
<1> DEFINE n == Len(lines)
           Next(q, i) == IF lines[i].text \in Finished THEN Append(q, lines[i]) ELSE q
           step == [x \in (1 .. n) \X Seq(Lines) |-> Next(x[2], x[1])]
           Is(f) == f = [i \in 0 .. n |->
                          IF i = 0 THEN <<>>
                          ELSE IF lines[i].text \in Finished THEN Append(f[i - 1], lines[i]) ELSE f[i - 1]]
           F == CHOOSE f : Is(f)
<1>1. n \in Nat /\ \A k \in 1 .. n : lines[k] \in Lines BY LineIs
<1>2. \A i \in 1 .. n, q \in Seq(Lines) : Next(q, i) \in Seq(Lines)
  <2> TAKE i \in 1 .. n, q \in Seq(Lines)
  <2>1. lines[i] \in Lines BY <1>1
  <2>2. Append(q, lines[i]) \in Seq(Lines) BY <2>1, AppendProperties
  <2> QED BY <2>2
<1>3. \A i \in 1 .. n, x \in Seq(Lines) : step[<<i, x>>] = Next(x, i) OBVIOUS
<1> HIDE DEF step, Next
<1>4. PICK f \in [0 .. n -> Seq(Lines)] : Steps(f, <<>>, step, n)
  <2>1. StepsIn(step, Seq(Lines), n) BY <1>2, <1>3 DEF StepsIn
  <2>2. <<>> \in Seq(Lines) OBVIOUS
  <2> HIDE DEF n
  <2> QED BY <1>1, <2>1, <2>2, StepsExist
<1>5. \A i \in 0 .. n : f[i] = IF i = 0 THEN <<>> ELSE Next(f[i - 1], i)
  <2> HIDE DEF n
  <2> TAKE i \in 0 .. n
  <2>1. i # 0 => i \in 1 .. n /\ i - 1 \in 0 .. n BY <1>1
  <2>2. i # 0 => f[i - 1] \in Seq(Lines) BY <2>1
  <2>3. i # 0 => step[<<i, f[i - 1]>>] = Next(f[i - 1], i) BY <1>3, <2>1, <2>2
  <2> QED BY <1>4, <2>3 DEF Steps
<1>6. Is(f)
  <2>1. f = [i \in 0 .. n |-> f[i]] OBVIOUS
  <2> QED BY <1>5, <2>1 DEF Next
<1>7. Is(F) BY <1>6
<1>8. \A i \in 0 .. n : F[i] = IF i = 0 THEN <<>> ELSE Next(F[i - 1], i) BY <1>7 DEF Next
<1>9. \A k : FinishedTo(lines, k) = F[k] BY DEF FinishedTo
<1> HIDE DEF F
<1>10. \A i \in 0 .. n : F[i] \in Seq(Lines)
  <2> DEFINE Bad == {i \in 0 .. n : F[i] \notin Seq(Lines)}
  <2> SUFFICES ASSUME Bad # {} PROVE FALSE OBVIOUS
  <2>0. Bad \in SUBSET Nat BY <1>1
  <2>1. PICK m \in Bad : \A x \in Bad : m <= x BY <2>0, MinOf
  <2>2. m # 0
    <3>1. <<>> \in Seq(Lines) OBVIOUS
    <3> QED BY <1>8, <2>1, <3>1
  <2>3. m - 1 \in 0 .. n /\ ~(m <= m - 1) /\ m \in 1 .. n BY <1>1, <2>1, <2>2
  <2>4. F[m - 1] \in Seq(Lines) BY <2>1, <2>3
  <2>5. F[m] = Next(F[m - 1], m) BY <1>8, <2>1, <2>2
  <2> QED BY <1>2, <2>1, <2>3, <2>4, <2>5
<1>11. FinishedTo(lines, 0) = <<>>
  <2>1. 0 \in 0 .. n BY <1>1
  <2> QED BY <1>8, <1>9, <2>1
<1>12. ASSUME NEW k \in 1 .. n
       PROVE  FinishedTo(lines, k) = Next(FinishedTo(lines, k - 1), k)
  <2>1. k \in 0 .. n /\ k # 0 BY <1>1
  <2> QED BY <1>8, <1>9, <2>1
<1> QED BY <1>9, <1>10, <1>11, <1>12 DEF Next

(* Lines that are the same give the same history.                           *)
LEMMA FinishedSame ==
  ASSUME NEW l \in Seq(Lines), NEW m \in Seq(Lines), NEW k \in Nat,
         k <= Len(l), k <= Len(m), \A i \in 1 .. k : l[i] = m[i]
  PROVE  FinishedTo(l, k) = FinishedTo(m, k)
<1> DEFINE Bad == {i \in 0 .. k : FinishedTo(l, i) # FinishedTo(m, i)}
<1>1. Bad = {}
  <2> SUFFICES ASSUME Bad # {} PROVE FALSE OBVIOUS
  <2>0. Len(l) \in Nat /\ Len(m) \in Nat /\ Bad \in SUBSET Nat OBVIOUS
  <2>1. PICK i \in Bad : \A x \in Bad : i <= x BY <2>0, MinOf
  <2>2. i # 0 BY <2>1, FinishedToIs
  <2>3. i - 1 \in 0 .. k /\ ~(i <= i - 1) /\ i \in 1 .. Len(l) /\ i \in 1 .. Len(m) /\ i \in 1 .. k
    BY <2>0, <2>1, <2>2
  <2>4. FinishedTo(l, i - 1) = FinishedTo(m, i - 1) BY <2>1, <2>3
  <2>5. /\ FinishedTo(l, i) = IF l[i].text \in Finished
                              THEN Append(FinishedTo(l, i - 1), l[i]) ELSE FinishedTo(l, i - 1)
        /\ FinishedTo(m, i) = IF m[i].text \in Finished
                              THEN Append(FinishedTo(m, i - 1), m[i]) ELSE FinishedTo(m, i - 1)
    BY <2>3, FinishedToIs
  <2>6. l[i] = m[i] BY <2>3
  <2>7. FinishedTo(l, i) # FinishedTo(m, i) BY <2>1
  <2> QED BY <2>4, <2>5, <2>6, <2>7
<1> QED BY <1>1

(* Lines that are not history's add nothing to it.                          *)
LEMMA FinishedSkips ==
  ASSUME NEW l \in Seq(Lines), NEW b \in 0 .. Len(l), NEW a \in 0 .. b,
         \A i \in a + 1 .. b : l[i].text \notin Finished
  PROVE  FinishedTo(l, b) = FinishedTo(l, a)
<1> DEFINE Bad == {i \in a .. b : FinishedTo(l, i) # FinishedTo(l, a)}
<1>1. Bad = {}
  <2> SUFFICES ASSUME Bad # {} PROVE FALSE OBVIOUS
  <2>0. Len(l) \in Nat /\ a \in Nat /\ b \in Nat /\ Bad \in SUBSET Nat OBVIOUS
  <2>1. PICK i \in Bad : \A x \in Bad : i <= x BY <2>0, MinOf
  <2>2. i # a BY <2>1
  <2>3. i - 1 \in a .. b /\ ~(i <= i - 1) /\ i \in 1 .. Len(l) /\ i \in a + 1 .. b
    BY <2>0, <2>1, <2>2
  <2>4. FinishedTo(l, i - 1) = FinishedTo(l, a) BY <2>1, <2>3
  <2>5. FinishedTo(l, i) = FinishedTo(l, i - 1) BY <2>3, FinishedToIs
  <2> QED BY <2>1, <2>4, <2>5
<1>2. b \in a .. b OBVIOUS
<1> QED BY <1>1, <1>2

(* Up: it stops on the row asked for, on the top row of the window, or where*)
(* it is, whichever comes last; and that row is in one line.                *)
Target(p, n, w, h) ==
  Most(RowAt(p, w) - n, Least(Minus(RowsOf(p.lines, w), h), RowAt(p, w)))

(* The cursor on row s of line j.                                           *)
Placed(p, j, s) == [p EXCEPT !.at = j, !.sub = s]

(* Up ends on the row s of line j that is the target.                       *)
LEMMA UpIs ==
  ASSUME NEW p \in Pages, NEW n \in Nat, NEW w \in Nat \ {0}, NEW h \in Nat,
         NEW j \in 1 .. Len(p.lines), NEW s \in Nat, s < Height(p.lines[j], w),
         Target(p, n, w, h) = RowsTo(p.lines, j - 1, w) + s
  PROVE  Up(p, n, w, h) = Placed(p, j, s)
<1> DEFINE l == p.lines
           t == Target(p, n, w, h)
           Lies(k) == RowsTo(l, k - 1, w) <= t /\ t < RowsTo(l, k, w)
           at == CHOOSE k \in DOMAIN l : Lies(k)
<1>1. l \in Seq(Lines) /\ Len(l) \in Nat /\ DOMAIN l = 1 .. Len(l) BY LineIs DEF Pages
<1>2. RowsTo(l, j, w) = RowsTo(l, j - 1, w) + Height(l[j], w) /\ Height(l[j], w) \in Nat
  BY <1>1, RowsToIs
<1>3. RowsTo(l, j - 1, w) \in Nat
  <2>1. j - 1 \in 0 .. Len(l) BY <1>1
  <2> QED BY <1>1, <2>1, RowsToIs
<1>4. j \in DOMAIN l /\ Lies(j) BY <1>1, <1>2, <1>3
<1>5. at \in DOMAIN l /\ Lies(at)
  <2> HIDE DEF Lies
  <2> QED BY <1>4
<1> HIDE DEF at
<1>6. at = j
  <2>0. at \in 1 .. Len(l) /\ j \in 1 .. Len(l) BY <1>1, <1>5
  <2>00. /\ RowsTo(l, at - 1, w) \in Nat /\ RowsTo(l, at, w) \in Nat
         /\ RowsTo(l, j - 1, w) \in Nat /\ RowsTo(l, j, w) \in Nat
    <3>1. at - 1 \in 0 .. Len(l) /\ at \in 0 .. Len(l) /\ j - 1 \in 0 .. Len(l) /\ j \in 0 .. Len(l)
      BY <1>1, <2>0
    <3> QED BY <1>1, <3>1, RowsToIs
  <2>000. t \in Nat BY <1>3
  <2>3. /\ RowsTo(l, at - 1, w) <= t /\ t < RowsTo(l, at, w)
        /\ RowsTo(l, j - 1, w) <= t /\ t < RowsTo(l, j, w)
    BY <1>4, <1>5
  <2> HIDE DEF t, Lies
  <2>1. ASSUME at < j PROVE FALSE
    <3>1. j - 1 \in 0 .. Len(l) /\ at \in 0 .. (j - 1) /\ j - 1 - at \in Nat BY <1>1, <2>0, <2>1
    <3>2. RowsTo(l, at, w) + (j - 1 - at) <= RowsTo(l, j - 1, w) BY <1>1, <3>1, RowsRise
    <3> DEFINE a == RowsTo(l, at, w)
               b == RowsTo(l, j - 1, w)
               d == j - 1 - at
    <3>3. d \in Nat /\ a \in Nat /\ b \in Nat /\ t \in Nat /\ a + d <= b /\ t < a /\ b <= t
      BY <2>00, <2>000, <2>3, <3>1, <3>2
    <3> HIDE DEF a, b, d
    <3> QED BY <3>3
  <2>2. ASSUME j < at PROVE FALSE
    <3>1. at - 1 \in 0 .. Len(l) /\ j \in 0 .. (at - 1) /\ at - 1 - j \in Nat BY <1>1, <2>0, <2>2
    <3>2. RowsTo(l, j, w) + (at - 1 - j) <= RowsTo(l, at - 1, w) BY <1>1, <3>1, RowsRise
    <3> DEFINE a == RowsTo(l, j, w)
               b == RowsTo(l, at - 1, w)
               d == at - 1 - j
    <3>3. d \in Nat /\ a \in Nat /\ b \in Nat /\ t \in Nat /\ a + d <= b /\ t < a /\ b <= t
      BY <2>00, <2>000, <2>3, <3>1, <3>2
    <3> HIDE DEF a, b, d
    <3> QED BY <3>3
  <2> QED BY <1>1, <2>0, <2>1, <2>2
<1>7. t - RowsTo(l, at - 1, w) = s BY <1>3, <1>6
<1>8. Up(p, n, w, h) = [p EXCEPT !.at = at, !.sub = t - RowsTo(l, at - 1, w)]
  BY DEF Up, Target, at
<1> QED BY <1>6, <1>7, <1>8 DEF Placed

(* The page's part of a state.                                              *)
LEMMA PageIs ==
  ASSUME NEW p \in Pages
  PROVE  /\ p.lines \in Seq(Lines) /\ Len(p.lines) \in Nat /\ DOMAIN p.lines = 1 .. Len(p.lines)
         /\ p.at \in Nat /\ p.sub \in Nat /\ p.col \in Nat
         /\ \A k \in 1 .. Len(p.lines) : p.lines[k] \in Lines /\ p.lines[k].width \in Nat
<1>1. p.lines \in Seq(Lines) /\ p.at \in Nat /\ p.sub \in Nat /\ p.col \in Nat BY DEF Pages
<1> QED BY <1>1, LineIs

(* The first row of the window.                                             *)
TopRow(p, w, h) == Minus(RowsOf(p.lines, w), h)

(* The cursor's row is counted with the rows above its line.                *)
LEMMA RowAtIs ==
  ASSUME NEW p \in Pages, NEW w \in Nat \ {0}, p.at \in 1 .. Len(p.lines)
  PROVE  /\ RowAt(p, w) = RowsTo(p.lines, p.at - 1, w) + p.sub
         /\ RowsTo(p.lines, p.at - 1, w) \in Nat /\ RowAt(p, w) \in Nat
         /\ RowsOf(p.lines, w) \in Nat
<1>0. p.lines \in Seq(Lines) /\ Len(p.lines) \in Nat /\ p.sub \in Nat BY PageIs
<1>1. RowsTo(p.lines, p.at - 1, w) \in Nat
  <2>1. p.at - 1 \in 0 .. Len(p.lines) BY <1>0
  <2> QED BY <1>0, <2>1, RowsToIs
<1>2. RowsOf(p.lines, w) \in Nat
  <2>1. Len(p.lines) \in 0 .. Len(p.lines) BY <1>0
  <2> QED BY <1>0, <2>1, RowsToIs DEF RowsOf
<1> QED BY <1>0, <1>1, <1>2 DEF RowAt

(* The target is at most n rows up, and exactly n when they are in the      *)
(* window.                                                                  *)
LEMMA TargetIs ==
  ASSUME NEW p \in Pages, NEW n \in Nat, NEW w \in Nat \ {0}, NEW h \in Nat,
         p.at \in 1 .. Len(p.lines)
  PROVE  /\ TopRow(p, w, h) \in Nat /\ Target(p, n, w, h) \in Nat
         /\ Target(p, n, w, h) <= RowAt(p, w) /\ RowAt(p, w) - n <= Target(p, n, w, h)
         /\ Target(p, n, w, h) < TopRow(p, w, h) => Target(p, n, w, h) = RowAt(p, w)
         /\ TopRow(p, w, h) <= RowAt(p, w) - n => Target(p, n, w, h) = RowAt(p, w) - n
<1> DEFINE t == Target(p, n, w, h)
           row == RowAt(p, w)
           top == TopRow(p, w, h)
<1>1. row \in Nat BY RowAtIs
<1>2. top \in Nat
  <2>1. RowsOf(p.lines, w) \in Nat BY RowAtIs
  <2> QED BY <2>1 DEF Minus, Most, TopRow
<1>3. t = Most(row - n, Least(top, row)) BY DEF Target, TopRow
<1> HIDE DEF t, row, top
<1>4. t = IF row - n > (IF top < row THEN top ELSE row) THEN row - n
          ELSE IF top < row THEN top ELSE row
  BY <1>3 DEF Most, Least
<1>5. t \in Nat /\ t <= row /\ row - n <= t /\ (t < top => t = row) /\ (top <= row - n => t = row - n)
  BY <1>1, <1>2, <1>4
<1> QED BY <1>2, <1>5 DEF t, row, top

(* The row it stops on is one of a line no further down than the cursor's.  *)
LEMMA UpFinds ==
  ASSUME NEW p \in Pages, NEW n \in Nat, NEW w \in Nat \ {0}, NEW h \in Nat,
         p.at \in 1 .. Len(p.lines), p.sub < Height(p.lines[p.at], w)
  PROVE  \E j \in 1 .. p.at, s \in Nat :
           /\ s < Height(p.lines[j], w)
           /\ Target(p, n, w, h) = RowsTo(p.lines, j - 1, w) + s
           /\ Up(p, n, w, h) = Placed(p, j, s)
<1> DEFINE l == p.lines
           t == Target(p, n, w, h)
           Past == {k \in 1 .. p.at : t < RowsTo(l, k, w)}
<1>0. l \in Seq(Lines) /\ Len(l) \in Nat /\ p.sub \in Nat /\ p.at \in Nat BY PageIs
<1>1. /\ RowsTo(l, p.at, w) = RowsTo(l, p.at - 1, w) + Height(l[p.at], w)
      /\ Height(l[p.at], w) \in Nat
  BY <1>0, RowsToIs
<1>2. RowsTo(l, p.at - 1, w) \in Nat
  <2>1. p.at - 1 \in 0 .. Len(l) BY <1>0
  <2> QED BY <1>0, <2>1, RowsToIs
<1>3. t \in Nat /\ t <= RowsTo(l, p.at - 1, w) + p.sub
  <2>1. t \in Nat /\ t <= RowAt(p, w) BY TargetIs
  <2>2. RowAt(p, w) = RowsTo(l, p.at - 1, w) + p.sub BY RowAtIs
  <2> QED BY <2>1, <2>2
<1> HIDE DEF t
<1>4. t < RowsTo(l, p.at, w) BY <1>0, <1>1, <1>2, <1>3
<1>5. Past \in SUBSET Nat /\ p.at \in Past BY <1>0, <1>4
<1>6. PICK j \in Past : \A x \in Past : j <= x BY <1>5, MinOf
<1>7. j \in 1 .. p.at /\ j \in 1 .. Len(l) /\ t < RowsTo(l, j, w) BY <1>0, <1>6
<1>8. RowsTo(l, j, w) = RowsTo(l, j - 1, w) + Height(l[j], w) /\ Height(l[j], w) \in Nat
  BY <1>0, <1>7, RowsToIs
<1>9. RowsTo(l, j - 1, w) \in Nat
  <2>1. j - 1 \in 0 .. Len(l) BY <1>0, <1>7
  <2> QED BY <1>0, <2>1, RowsToIs
<1>10. RowsTo(l, j - 1, w) <= t
  <2>1. CASE j = 1
    <3>1. RowsTo(l, j - 1, w) = 0
      <4>1. j - 1 = 0 BY <2>1
      <4> QED BY <1>0, <4>1, RowsToIs
    <3> QED BY <1>3, <3>1
  <2>2. CASE j # 1
    <3>1. j - 1 \in 1 .. p.at /\ ~(j <= j - 1) BY <1>0, <1>7, <2>2
    <3>2. ~(t < RowsTo(l, j - 1, w)) BY <1>6, <3>1
    <3> QED BY <1>3, <1>9, <3>2
  <2> QED BY <2>1, <2>2
<1> DEFINE s == t - RowsTo(l, j - 1, w)
<1>11. s \in Nat /\ s < Height(l[j], w) /\ t = RowsTo(l, j - 1, w) + s
  BY <1>3, <1>7, <1>8, <1>9, <1>10
<1> HIDE DEF s
<1>12. Up(p, n, w, h) = Placed(p, j, s) BY <1>7, <1>11, UpIs DEF t
<1> QED BY <1>7, <1>11, <1>12 DEF t

(* Narrow lines take a row each.                                            *)
LEMMA RowsFlat ==
  ASSUME NEW l \in Seq(Lines), NEW w \in Nat \ {0}, NEW top \in Nat \ {0},
         NEW b \in Nat, top - 1 <= b, b <= Len(l), \A k \in top .. b : l[k].width < w
  PROVE  /\ RowsTo(l, top - 1, w) \in Nat
         /\ RowsTo(l, b, w) = RowsTo(l, top - 1, w) + (b - top + 1)
<1> DEFINE a == top - 1
<1>1. Len(l) \in Nat /\ a \in Nat /\ b \in 0 .. Len(l) /\ a \in 0 .. b /\ a \in 0 .. Len(l)
      /\ a + 1 = top /\ b - a = b - top + 1
  BY LineIs
<1> HIDE DEF a
<1>2. \A k \in a + 1 .. b : l[k].width < w BY <1>1
<1>3. RowsTo(l, b, w) = RowsTo(l, a, w) + (b - a) BY <1>1, <1>2, RowsRise
<1>4. RowsTo(l, a, w) \in Nat BY <1>1, RowsToIs
<1> QED BY <1>1, <1>3, <1>4 DEF a

(* From top on no line takes more than a row.                               *)
Narrow(lines, top, w) == \A k \in top .. Len(lines) : lines[k].width < w

(* Among narrow lines that fit in the window, up n is n lines up.           *)
LEMMA UpFlat ==
  ASSUME NEW p \in Pages, NEW w \in Nat \ {0}, NEW h \in Nat, NEW top \in Nat \ {0},
         p.at \in top .. Len(p.lines), p.sub = 0, Len(p.lines) <= top + h - 1,
         Narrow(p.lines, top, w),
         NEW n \in Nat, n <= p.at - top
  PROVE  Up(p, n, w, h) = Placed(p, p.at - n, 0)
<1> DEFINE l == p.lines
           c == p.at
           j == p.at - n
           A == RowsTo(l, top - 1, w)
<1>0. l \in Seq(Lines) /\ Len(l) \in Nat /\ p.at \in Nat
      /\ \A k \in 1 .. Len(l) : l[k].width \in Nat BY PageIs
<1>1. c \in 1 .. Len(l) /\ c >= top /\ j \in 1 .. Len(l) /\ j >= top /\ n \in Nat /\ c - n = j
  BY <1>0
<1>2. \A k \in top .. Len(l) : l[k].width < w BY DEF Narrow
<1>3. Len(l) <= top + h - 1 OBVIOUS
<1>4. TopRow(p, w, h) <= RowAt(p, w) - n => Target(p, n, w, h) = RowAt(p, w) - n
  BY <1>1, TargetIs
<1>44. RowAt(p, w) = RowsTo(l, c - 1, w)
  <2>1. RowAt(p, w) = RowsTo(l, c - 1, w) + 0 /\ RowsTo(l, c - 1, w) \in Nat BY <1>1, RowAtIs
  <2> QED BY <2>1
<1>45. TopRow(p, w, h) = Minus(RowsOf(l, w), h) BY DEF TopRow
<1> HIDE DEF l, c, j
<1>5. A \in Nat /\ RowsTo(l, c - 1, w) = A + (c - top)
  <2> DEFINE b == c - 1
  <2>0. b \in Nat /\ top - 1 <= b /\ b <= Len(l) BY <1>0, <1>1
  <2>1. b \in Nat /\ top - 1 <= b /\ b <= Len(l) /\ \A k \in top .. b : l[k].width < w
    <3> HIDE DEF b
    <3>1. \A k \in top .. b : k \in top .. Len(l) BY <1>0, <2>0
    <3> QED BY <1>2, <2>0, <3>1
  <2>2. b - top + 1 = c - top BY <1>0, <1>1
  <2> HIDE DEF b
  <2>3. /\ RowsTo(l, top - 1, w) \in Nat
        /\ RowsTo(l, b, w) = RowsTo(l, top - 1, w) + (b - top + 1)
    BY <1>0, <2>1, RowsFlat
  <2> QED BY <2>2, <2>3 DEF b
<1>6. RowsTo(l, j - 1, w) = A + (j - top)
  <2> DEFINE b == j - 1
  <2>0. b \in Nat /\ top - 1 <= b /\ b <= Len(l) BY <1>0, <1>1
  <2>1. b \in Nat /\ top - 1 <= b /\ b <= Len(l) /\ \A k \in top .. b : l[k].width < w
    <3> HIDE DEF b
    <3>1. \A k \in top .. b : k \in top .. Len(l) BY <1>0, <2>0
    <3> QED BY <1>2, <2>0, <3>1
  <2>2. b - top + 1 = j - top BY <1>0, <1>1
  <2> HIDE DEF b
  <2>3. /\ RowsTo(l, top - 1, w) \in Nat
        /\ RowsTo(l, b, w) = RowsTo(l, top - 1, w) + (b - top + 1)
    BY <1>0, <2>1, RowsFlat
  <2> QED BY <2>2, <2>3 DEF b
<1>7. RowsOf(l, w) = A + (Len(l) - top + 1)
  <2> DEFINE b == Len(l)
  <2>1. b \in Nat /\ top - 1 <= b /\ b <= Len(l) /\ \A k \in top .. b : l[k].width < w
    BY <1>0, <1>1, <1>2
  <2> HIDE DEF b
  <2>2. RowsTo(l, b, w) = RowsTo(l, top - 1, w) + (b - top + 1) BY <1>0, <2>1, RowsFlat
  <2> QED BY <2>2 DEF RowsOf, b
<1> HIDE DEF A
<1> DEFINE d == j - top
<1>46. d \in Nat /\ c - top - n = d /\ c - top \in Nat
  <2>1. c \in Nat /\ top \in Nat /\ n \in Nat /\ c - n = j /\ top <= c /\ top <= j BY <1>0, <1>1 DEF c
  <2> QED BY <2>1
<1> HIDE DEF d
<1>8. TopRow(p, w, h) <= A
  <2>1. RowsOf(l, w) - h <= A BY <1>0, <1>3, <1>5, <1>7
  <2> QED BY <1>5, <1>45, <2>1 DEF Minus, Most
<1>81. TopRow(p, w, h) \in Nat BY <1>1, TargetIs DEF c, l
<1>9. RowAt(p, w) - n = A + d
  <2> DEFINE x == c - top
  <2>1. x \in Nat /\ x - n = d /\ RowAt(p, w) = A + x BY <1>5, <1>44, <1>46
  <2> HIDE DEF x
  <2> QED BY <1>5, <2>1
<1>10. Target(p, n, w, h) = RowsTo(l, j - 1, w) + 0
  <2>1. TopRow(p, w, h) <= RowAt(p, w) - n BY <1>5, <1>8, <1>81, <1>9, <1>46
  <2>2. Target(p, n, w, h) = A + d BY <1>4, <1>9, <2>1
  <2> QED BY <1>5, <1>6, <1>46, <2>2 DEF d
<1>11. 0 < Height(l[j], w)
  <2>1. Height(l[j], w) \in Nat \ {0} BY <1>0, <1>1, HeightIs
  <2> QED BY <2>1
<1>12. Up(p, n, w, h) = Placed(p, j, 0) BY <1>1, <1>10, <1>11, UpIs DEF l
<1> QED BY <1>12 DEF j

-----------------------------------------------------------------------------
(* The terminal's operations, by what they do to a page.                    *)
LEMMA EmptyIs == Empty \in Lines /\ Empty.width = 0 /\ Empty.text \notin Finished
<1>1. "" \in Passing BY DEF Passing
<1> QED BY <1>1, ScreenAssumption DEF Empty, Lines, Cells

(* Placed moves the cursor and nothing else.                                *)
LEMMA PlacedIs ==
  ASSUME NEW p \in Pages, NEW j \in Nat, NEW s \in Nat
  PROVE  /\ Placed(p, j, s) \in Pages /\ Placed(p, j, s).lines = p.lines
         /\ Placed(p, j, s).at = j /\ Placed(p, j, s).sub = s /\ Placed(p, j, s).col = p.col
BY DEF Pages, Placed

(* Column moves the cursor along its row and nothing else.                  *)
LEMMA ColumnIs ==
  ASSUME NEW p \in Pages, NEW c \in Nat
  PROVE  /\ Column(p, c) \in Pages /\ Column(p, c).lines = p.lines
         /\ Column(p, c).at = p.at /\ Column(p, c).sub = p.sub /\ Column(p, c).col = c
BY DEF Pages, Column

(* Put replaces the cursor's line and nothing else.                         *)
LEMMA PutIs ==
  ASSUME NEW p \in Pages, NEW row \in Lines
  PROVE  LET q == Put(p, row)
         IN  /\ q \in Pages /\ q.at = p.at /\ q.sub = p.sub /\ q.col = p.col
             /\ Len(q.lines) = Len(p.lines)
             /\ \A k \in 1 .. Len(p.lines) : q.lines[k] = IF k = p.at THEN row ELSE p.lines[k]
<1> DEFINE l == [p.lines EXCEPT ![p.at] = row]
<1>1. p.lines \in Seq(Lines) /\ DOMAIN p.lines = 1 .. Len(p.lines) /\ Len(p.lines) \in Nat BY PageIs
<1>2. l \in Seq(Lines) /\ Len(l) = Len(p.lines)
      /\ \A k \in 1 .. Len(p.lines) : l[k] = IF k = p.at THEN row ELSE p.lines[k]
  <2>1. p.lines \in [1 .. Len(p.lines) -> Lines] BY <1>1
  <2>2. l \in [1 .. Len(p.lines) -> Lines] BY <1>1, <2>1
  <2>3. l \in Seq(Lines) /\ DOMAIN l = 1 .. Len(p.lines) BY <1>1, <2>2
  <2>4. Len(l) = Len(p.lines) BY <1>1, <2>3
  <2>5. \A k \in 1 .. Len(p.lines) : l[k] = IF k = p.at THEN row ELSE p.lines[k] BY <1>1
  <2> QED BY <2>3, <2>4, <2>5
<1> HIDE DEF l
<1>3. Put(p, row) = [p EXCEPT !.lines = l]
  BY DEF Put, l, Pages
<1>4. Put(p, row) \in Pages BY <1>2, <1>3 DEF Pages
<1>5. /\ Put(p, row).at = p.at /\ Put(p, row).sub = p.sub /\ Put(p, row).col = p.col
      /\ Put(p, row).lines = l
  BY <1>3 DEF Pages
<1> QED BY <1>2, <1>4, <1>5

(* A newline goes to the next line, which it makes blank if there is none.  *)
LEMMA CrLfIs ==
  ASSUME NEW p \in Pages
  PROVE  LET q == CrLf(p)
         IN  /\ q \in Pages /\ q.at = p.at + 1 /\ q.sub = 0 /\ q.col = 0
             /\ Len(q.lines) = IF p.at = Len(p.lines) THEN p.at + 1 ELSE Len(p.lines)
             /\ \A k \in 1 .. Len(q.lines) :
                  q.lines[k] = IF k \in 1 .. Len(p.lines) THEN p.lines[k] ELSE Empty
<1> DEFINE l == IF p.at = Len(p.lines) THEN Append(p.lines, Empty) ELSE p.lines
<1>1. p.lines \in Seq(Lines) /\ Len(p.lines) \in Nat /\ p.at \in Nat BY PageIs
<1>2. /\ Append(p.lines, Empty) \in Seq(Lines)
      /\ Len(Append(p.lines, Empty)) = Len(p.lines) + 1
      /\ \A k \in 1 .. Len(p.lines) : Append(p.lines, Empty)[k] = p.lines[k]
      /\ Append(p.lines, Empty)[Len(p.lines) + 1] = Empty
  BY <1>1, EmptyIs, AppendProperties
<1>3. /\ l \in Seq(Lines) /\ Len(l) = IF p.at = Len(p.lines) THEN p.at + 1 ELSE Len(p.lines)
      /\ \A k \in 1 .. Len(l) : l[k] = IF k \in 1 .. Len(p.lines) THEN p.lines[k] ELSE Empty
  <2>1. CASE p.at = Len(p.lines)
    <3>1. l = Append(p.lines, Empty) BY <2>1
    <3> HIDE DEF l
    <3>2. Len(l) = Len(p.lines) + 1 BY <1>2, <3>1
    <3>3. \A k \in 1 .. Len(l) : k \in 1 .. Len(p.lines) \/ k = Len(p.lines) + 1 BY <1>1, <3>2
    <3>4. ~(Len(p.lines) + 1 \in 1 .. Len(p.lines)) BY <1>1
    <3> QED BY <1>2, <2>1, <3>1, <3>2, <3>3, <3>4
  <2>2. CASE p.at # Len(p.lines)
    <3>1. l = p.lines BY <2>2
    <3> QED BY <1>1, <2>2, <3>1
  <2> QED BY <2>1, <2>2
<1> HIDE DEF l
<1>4. CrLf(p) = [p EXCEPT !.lines = l, !.at = p.at + 1, !.sub = 0, !.col = 0]
  BY DEF CrLf, l, Pages
<1>5. p.at + 1 \in Nat /\ 0 \in Nat BY <1>1
<1>6. CrLf(p) \in Pages BY <1>3, <1>4, <1>5 DEF Pages
<1>7. CrLf(p).lines = l /\ CrLf(p).at = p.at + 1 /\ CrLf(p).sub = 0 /\ CrLf(p).col = 0
  BY <1>4 DEF Pages
<1> QED BY <1>3, <1>6, <1>7

(* Down goes n lines further where they exist.                              *)
LEMMA DownIs ==
  ASSUME NEW p \in Pages, NEW n \in Nat
  PROVE  LET q == Down(p, n)
         IN  /\ q \in Pages /\ q.lines = p.lines /\ q.sub = 0 /\ q.col = p.col
             /\ p.at + n <= Len(p.lines) => q.at = p.at + n
<1> DEFINE a == Least(p.at + n, Len(p.lines))
<1>1. p.lines \in Seq(Lines) /\ Len(p.lines) \in Nat /\ p.at \in Nat BY PageIs
<1>2. a \in Nat /\ (p.at + n <= Len(p.lines) => a = p.at + n) BY <1>1 DEF Least
<1> HIDE DEF a
<1>3. Down(p, n) = [lines |-> p.lines, at |-> a, sub |-> 0, col |-> p.col]
  <2>1. Down(p, n) = [p EXCEPT !.at = a, !.sub = 0] BY DEF Down, a
  <2> QED BY <2>1 DEF Pages
<1>4. Down(p, n) \in Pages
  <2>1. p.col \in Nat /\ 0 \in Nat BY DEF Pages
  <2> QED BY <1>1, <1>2, <1>3, <2>1 DEF Pages
<1>5. Down(p, n).lines = p.lines /\ Down(p, n).at = a /\ Down(p, n).sub = 0 /\ Down(p, n).col = p.col
  BY <1>3
<1> QED BY <1>2, <1>4, <1>5

(* Two lists, one behind the other.                                         *)
LEMMA Joined ==
  ASSUME NEW S, NEW a \in Seq(S), NEW b \in Seq(S)
  PROVE  /\ a \o b \in Seq(S) /\ Len(a \o b) = Len(a) + Len(b)
         /\ Len(a) \in Nat /\ Len(b) \in Nat
         /\ \A i \in 1..Len(a) : (a \o b)[i] = a[i]
         /\ \A i \in 1..Len(b) : (a \o b)[Len(a) + i] = b[i]
<1>1. Len(a) \in Nat /\ Len(b) \in Nat OBVIOUS
<1>2. a \o b \in Seq(S) /\ Len(a \o b) = Len(a) + Len(b) OBVIOUS
<1>3. \A i \in 1..(Len(a) + Len(b)) : (a \o b)[i] = IF i <= Len(a) THEN a[i] ELSE b[i - Len(a)]
  BY ConcatProperties
<1>4. \A i \in 1..Len(a) : (a \o b)[i] = a[i] BY <1>1, <1>3
<1>5. ASSUME NEW i \in 1..Len(b) PROVE (a \o b)[Len(a) + i] = b[i]
  <2>1. Len(a) + i \in 1..(Len(a) + Len(b)) /\ ~(Len(a) + i <= Len(a)) /\ Len(a) + i - Len(a) = i
    BY <1>1
  <2> QED BY <2>1, <1>3
<1> QED BY <1>1, <1>2, <1>4, <1>5

(* EraseBelow: the lines above stay, those from the cursor on are blank; a  *)
(* line that began above the cursor keeps that part of it.                  *)
CutBy(p) == IF p.sub = 0 THEN 0 ELSE 1

(* What is above the cursor stays, what is below it is blank, and a line    *)
(* that is cut is no line of history.                                       *)
LEMMA EraseIs ==
  ASSUME NEW p \in Pages, NEW w \in Nat, p.at \in 1 .. Len(p.lines)
  PROVE  LET q == EraseBelow(p, w)
         IN  /\ q \in Pages /\ q.at = p.at + CutBy(p) /\ q.sub = 0 /\ q.col = 0
             /\ Len(q.lines) = Len(p.lines) + CutBy(p)
             /\ \A k \in 1 .. (p.at - 1) : q.lines[k] = p.lines[k]
             /\ \A k \in (p.at + CutBy(p)) .. Len(q.lines) : q.lines[k] = Empty
             /\ CutBy(p) = 1 => q.lines[p.at].text \notin Finished
<1> DEFINE d == CutBy(p)
           n == Len(p.lines)
           a == p.at
           kept == SubSeq(p.lines, 1, a - 1)
           cut == IF p.sub = 0 THEN <<>> ELSE <<[text |-> "ghost", width |-> p.sub * w]>>
           blank == [i \in 1 .. n - a + 1 |-> Empty]
           l == kept \o cut \o blank
<1>0. p.lines \in Seq(Lines) /\ n \in Nat /\ a \in Nat /\ a \in 1 .. n /\ p.sub \in Nat BY PageIs
<1>1. kept \in Seq(Lines) /\ Len(kept) = a - 1 /\ \A k \in 1 .. (a - 1) : kept[k] = p.lines[k]
  BY <1>0, SubSeqProperties
<1>2. /\ cut \in Seq(Lines) /\ Len(cut) = d /\ d \in {0, 1} /\ (d = 1 <=> p.sub # 0)
      /\ d = 1 => cut[1].text \notin Finished
  <2> USE DEF CutBy
  <2>1. CASE p.sub = 0 BY <2>1
  <2>2. CASE p.sub # 0
    <3>1. p.sub * w \in Nat BY <1>0
    <3> DEFINE ghost == [text |-> "ghost", width |-> p.sub * w]
    <3>2. "ghost" \in Passing /\ "ghost" \notin Finished BY ScreenAssumption DEF Passing
    <3>3. ghost \in Lines /\ ghost.text \notin Finished BY <3>1, <3>2 DEF Lines, Cells
    <3> HIDE DEF ghost
    <3>4. cut = <<ghost>> BY <2>2 DEF ghost
    <3>5. d = 1 BY <2>2
    <3> QED BY <2>2, <3>3, <3>4, <3>5
  <2> QED BY <2>1, <2>2
<1>3. blank \in Seq(Lines) /\ Len(blank) = n - a + 1 /\ \A k \in 1 .. n - a + 1 : blank[k] = Empty
  <2>1. n - a + 1 \in Nat BY <1>0
  <2>2. Empty \in Lines BY EmptyIs
  <2>3. blank \in [1 .. n - a + 1 -> Lines] BY <2>2
  <2>4. blank \in Seq(Lines) BY <2>1, <2>3
  <2>5. Len(blank) = n - a + 1 BY <2>1, <2>3, <2>4
  <2> QED BY <2>4, <2>5
<1> HIDE DEF kept, cut, blank, d
<1>4. /\ kept \o cut \in Seq(Lines) /\ Len(kept \o cut) = a - 1 + d
      /\ \A k \in 1 .. (a - 1) : (kept \o cut)[k] = p.lines[k]
      /\ d = 1 => (kept \o cut)[a] = cut[1]
  <2>1. /\ kept \o cut \in Seq(Lines) /\ Len(kept \o cut) = (a - 1) + d
        /\ \A k \in 1 .. (a - 1) : (kept \o cut)[k] = kept[k]
        /\ \A k \in 1 .. d : (kept \o cut)[(a - 1) + k] = cut[k]
    <3>0. kept \in Seq(Lines) /\ cut \in Seq(Lines) BY <1>1, <1>2
    <3>1. /\ kept \o cut \in Seq(Lines) /\ Len(kept \o cut) = Len(kept) + Len(cut)
          /\ \A k \in 1 .. Len(kept) : (kept \o cut)[k] = kept[k]
          /\ \A k \in 1 .. Len(cut) : (kept \o cut)[Len(kept) + k] = cut[k]
      BY <3>0, Joined
    <3> HIDE DEF l, a, n
    <3>2. Len(kept) = a - 1 /\ Len(cut) = d BY <1>1, <1>2
    <3> QED BY <3>1, <3>2
  <2>2. d = 1 => 1 \in 1 .. d /\ (a - 1) + 1 = a BY <1>0
  <2> QED BY <1>1, <2>1, <2>2
<1> DEFINE top == kept \o cut
<1>5. /\ l \in Seq(Lines) /\ Len(l) = n + d
      /\ \A k \in 1 .. (a - 1 + d) : l[k] = top[k]
      /\ \A k \in (a + d) .. (n + d) : l[k] = Empty
  <2>0. l = top \o blank OBVIOUS
  <2>1. top \in Seq(Lines) /\ Len(top) = a - 1 + d BY <1>4
  <2> HIDE DEF top, l
  <2>2. /\ l \in Seq(Lines) /\ Len(l) = (a - 1 + d) + (n - a + 1)
        /\ \A k \in 1 .. (a - 1 + d) : l[k] = top[k]
        /\ \A k \in 1 .. n - a + 1 : l[(a - 1 + d) + k] = blank[k]
    <3>0. top \in Seq(Lines) /\ blank \in Seq(Lines) BY <1>3, <2>1
    <3>1. /\ top \o blank \in Seq(Lines) /\ Len(top \o blank) = Len(top) + Len(blank)
          /\ \A k \in 1 .. Len(top) : (top \o blank)[k] = top[k]
          /\ \A k \in 1 .. Len(blank) : (top \o blank)[Len(top) + k] = blank[k]
      BY <3>0, Joined
    <3> HIDE DEF n, a
    <3>2. Len(blank) = n - a + 1 BY <1>3
    <3> QED BY <2>0, <2>1, <3>1, <3>2
  <2> HIDE DEF n, a
  <2>3. Len(l) = n + d BY <1>0, <1>2, <2>2
  <2>4. ASSUME NEW k \in (a + d) .. (n + d) PROVE l[k] = Empty
    <3> DEFINE i == k - (a - 1 + d)
    <3>1. i \in 1 .. n - a + 1 /\ (a - 1 + d) + i = k BY <1>0, <1>2
    <3> HIDE DEF i
    <3>2. l[(a - 1 + d) + i] = blank[i] /\ blank[i] = Empty BY <1>3, <2>2, <3>1
    <3> QED BY <3>1, <3>2
  <2> QED BY <2>2, <2>3, <2>4
<1> HIDE DEF top
<1>6. /\ \A k \in 1 .. (a - 1) : l[k] = p.lines[k]
      /\ d = 1 => l[a].text \notin Finished
  <2>1. ASSUME NEW k \in 1 .. (a - 1) PROVE l[k] = p.lines[k]
    <3>1. k \in 1 .. (a - 1 + d) BY <1>0, <1>2
    <3> QED BY <1>4, <1>5, <3>1 DEF top
  <2>2. ASSUME d = 1 PROVE l[a].text \notin Finished
    <3>1. a \in 1 .. (a - 1 + d) BY <1>0, <2>2
    <3> QED BY <1>2, <1>4, <1>5, <2>2, <3>1 DEF top
  <2> QED BY <2>1, <2>2
<1>7. Len(cut) = d BY <1>2
<1> HIDE DEF l
<1>8. EraseBelow(p, w) = [p EXCEPT !.lines = l, !.at = a + d, !.sub = 0, !.col = 0]
  <2>1. EraseBelow(p, w) = [p EXCEPT !.lines = l, !.at = @ + Len(cut), !.sub = 0, !.col = 0]
    BY DEF EraseBelow, l, cut, kept, blank
  <2> QED BY <1>7, <2>1 DEF Pages
<1>9. a + d \in Nat BY <1>0, <1>2
<1>10. EraseBelow(p, w) = [lines |-> l, at |-> a + d, sub |-> 0, col |-> 0] BY <1>8 DEF Pages
<1>11. 0 \in Nat OBVIOUS
<1>12. EraseBelow(p, w) \in Pages BY <1>5, <1>9, <1>10, <1>11 DEF Pages
<1> QED BY <1>5, <1>6, <1>10, <1>12 DEF d

(* The rows of old are on the page's lines from top on.                     *)
StandsAt(p, old, top) ==
  top + Len(old) - 1 <= Len(p.lines) /\ \A k \in 1 .. Len(old) : p.lines[top + k - 1] = old[k]

(* q is p with the first i rows on its lines from top on, the cursor on the *)
(* last of them.                                                            *)
DrawnTo(q, p, rows, top, i) ==
  /\ q \in Pages /\ q.at = top + Most(i, 1) - 1 /\ q.sub = 0
  /\ Len(q.lines) = Most(Len(p.lines), top + i - 1)
  /\ \A k \in 1 .. Len(q.lines) :
       /\ k \in top .. (top + i - 1) => q.lines[k] = rows[k - top + 1]
       /\ k \notin top .. (top + i - 1) => q.lines[k] = p.lines[k]

(* One row drawn leaves a page.                                             *)
LEMMA DrawRowPage ==
  ASSUME NEW q \in Pages, NEW old, NEW rows \in Seq(Lines), NEW i \in 1 .. Len(rows)
  PROVE  DrawRow(q, old, rows, i) \in Pages
<1> DEFINE there == IF i = 1 THEN q ELSE IF i <= Len(old) THEN Down(q, 1) ELSE CrLf(q)
<1>1. there \in Pages BY DownIs, CrLfIs
<1>2. rows[i] \in Lines BY LineIs
<1> HIDE DEF there
<1>3. Put(there, rows[i]) \in Pages BY <1>1, <1>2, PutIs
<1>4. DrawRow(q, old, rows, i)
        = IF i <= Len(old) /\ old[i] = rows[i] THEN there ELSE Put(there, rows[i])
  BY DEF DrawRow, there
<1> QED BY <1>1, <1>3, <1>4

(* One row more is drawn, below those drawn already.                        *)
LEMMA DrawOne ==
  ASSUME NEW p \in Pages, NEW top \in 1 .. Len(p.lines), NEW old \in Seq(Lines),
         NEW rows \in Seq(Lines), StandsAt(p, old, top), NEW i \in 1 .. Len(rows),
         NEW q, DrawnTo(q, p, rows, top, i - 1)
  PROVE  DrawnTo(DrawRow(q, old, rows, i), p, rows, top, i)
<1> DEFINE there == IF i = 1 THEN q ELSE IF i <= Len(old) THEN Down(q, 1) ELSE CrLf(q)
           n == Len(p.lines)
           here == top + i - 1
           new == DrawRow(q, old, rows, i)
<1>0. /\ n \in Nat /\ Len(old) \in Nat /\ Len(rows) \in Nat /\ top \in Nat /\ top <= n
      /\ i \in Nat /\ i >= 1 /\ here \in Nat /\ here >= 1
  BY PageIs, LineIs
<1>1. q \in Pages /\ q.sub = 0 /\ q.lines \in Seq(Lines) /\ Len(q.lines) \in Nat BY PageIs DEF DrawnTo
<1>2. q.at = IF i = 1 THEN top ELSE here - 1
  <2>1. q.at = top + Most(i - 1, 1) - 1 BY DEF DrawnTo
  <2>2. Most(i - 1, 1) = IF i = 1 THEN 1 ELSE i - 1 BY <1>0 DEF Most
  <2> QED BY <1>0, <2>1, <2>2
<1>3. Len(q.lines) = IF n > here - 1 THEN n ELSE here - 1
  <2>1. Len(q.lines) = Most(n, top + (i - 1) - 1) BY DEF DrawnTo
  <2>2. top + (i - 1) - 1 = here - 1 BY <1>0
  <2> QED BY <2>1, <2>2 DEF Most
<1>4. \A k \in 1 .. Len(q.lines) :
        /\ k \in top .. (here - 1) => q.lines[k] = rows[k - top + 1]
        /\ k \notin top .. (here - 1) => q.lines[k] = p.lines[k]
  <2>1. top + (i - 1) - 1 = here - 1 BY <1>0
  <2> QED BY <2>1 DEF DrawnTo
<1> DEFINE size == IF n > here THEN n ELSE here
<1>5. /\ there \in Pages /\ there.at = here /\ there.sub = 0 /\ Len(there.lines) = size
      /\ \A k \in 1 .. size :
           /\ k \in top .. (here - 1) => there.lines[k] = rows[k - top + 1]
           /\ k \notin top .. (here - 1) /\ k # here => there.lines[k] = p.lines[k]
           /\ k = here /\ i <= Len(old) => there.lines[k] = p.lines[k]
  <2>1. CASE i = 1
    <3>1. there = q /\ here = top BY <1>0, <2>1
    <3>2. Len(q.lines) = size /\ q.at = here BY <1>0, <1>2, <1>3, <2>1, <3>1
    <3> HIDE DEF there, size, here
    <3> QED BY <1>0, <1>1, <1>4, <3>1, <3>2
  <2>2. CASE i # 1 /\ i <= Len(old)
    <3>1. there = Down(q, 1) BY <2>2
    <3>2. here <= n BY <1>0, <2>2 DEF StandsAt
    <3>3. Len(q.lines) = size /\ q.at + 1 = here /\ here <= Len(q.lines) /\ 1 \in Nat
      BY <1>0, <1>2, <1>3, <2>2, <3>2
    <3>40. LET d == Down(q, 1)
           IN  /\ d \in Pages /\ d.lines = q.lines /\ d.sub = 0 /\ d.col = q.col
               /\ q.at + 1 <= Len(q.lines) => d.at = q.at + 1
      BY <1>1, DownIs
    <3>4. there \in Pages /\ there.lines = q.lines /\ there.sub = 0 /\ there.at = here
      BY <3>1, <3>3, <3>40
    <3>5. here - 1 \in Nat /\ ~(here \in top .. (here - 1)) BY <1>0
    <3> HIDE DEF there, size, here
    <3> QED BY <1>4, <3>3, <3>4, <3>5
  <2>3. CASE i # 1 /\ ~(i <= Len(old))
    <3>1. there = CrLf(q) BY <2>3
    <3>20. LET c == CrLf(q)
           IN  /\ c \in Pages /\ c.at = q.at + 1 /\ c.sub = 0 /\ c.col = 0
               /\ Len(c.lines) = IF q.at = Len(q.lines) THEN q.at + 1 ELSE Len(q.lines)
               /\ \A k \in 1 .. Len(c.lines) :
                    c.lines[k] = IF k \in 1 .. Len(q.lines) THEN q.lines[k] ELSE Empty
      BY <1>1, CrLfIs
    <3>2. /\ there \in Pages /\ there.at = q.at + 1 /\ there.sub = 0
          /\ Len(there.lines) = IF q.at = Len(q.lines) THEN q.at + 1 ELSE Len(q.lines)
          /\ \A k \in 1 .. Len(there.lines) :
               there.lines[k] = IF k \in 1 .. Len(q.lines) THEN q.lines[k] ELSE Empty
      BY <3>1, <3>20
    <3>3. q.at + 1 = here /\ Len(there.lines) = size BY <1>0, <1>2, <1>3, <2>3, <3>2
    <3>4. \A k \in 1 .. size : k # here => k \in 1 .. Len(q.lines) BY <1>0, <1>3
    <3>5. \A k \in top .. (here - 1) : k # here BY <1>0
    <3> HIDE DEF there, size, here
    <3> QED BY <1>4, <2>3, <3>2, <3>3, <3>4, <3>5
  <2> QED BY <2>1, <2>2, <2>3
<1>6. rows[i] \in Lines /\ here - top + 1 = i BY <1>0, LineIs
<1>7. new = IF i <= Len(old) /\ old[i] = rows[i] THEN there ELSE Put(there, rows[i])
  BY DEF DrawRow
<1>8. size \in Nat /\ here \in 1 .. size BY <1>0
<1>80. i <= Len(old) => p.lines[here] = old[i] BY <1>0 DEF StandsAt
<1> HIDE DEF there, new, size, here
<1>9. /\ new \in Pages /\ new.at = here /\ new.sub = 0 /\ Len(new.lines) = size
      /\ \A k \in 1 .. size :
           /\ k \in top .. (here - 1) => new.lines[k] = rows[k - top + 1]
           /\ k \notin top .. (here - 1) /\ k # here => new.lines[k] = p.lines[k]
           /\ k = here => new.lines[k] = rows[i]
  <2>1. CASE i <= Len(old) /\ old[i] = rows[i]
    <3>1. new = there /\ p.lines[here] = rows[i] BY <1>7, <1>80, <2>1
    <3> QED BY <1>5, <2>1, <3>1
  <2>2. CASE ~(i <= Len(old) /\ old[i] = rows[i])
    <3>1. new = Put(there, rows[i]) BY <1>7, <2>2
    <3>2. /\ new \in Pages /\ new.at = there.at /\ new.sub = there.sub
          /\ Len(new.lines) = Len(there.lines)
          /\ \A k \in 1 .. Len(there.lines) :
               new.lines[k] = IF k = there.at THEN rows[i] ELSE there.lines[k]
      <4>1. there \in Pages BY <1>5
      <4>2. LET u == Put(there, rows[i])
            IN  /\ u \in Pages /\ u.at = there.at /\ u.sub = there.sub /\ u.col = there.col
                /\ Len(u.lines) = Len(there.lines)
                /\ \A k \in 1 .. Len(there.lines) :
                     u.lines[k] = IF k = there.at THEN rows[i] ELSE there.lines[k]
        BY <1>6, <4>1, PutIs
      <4> QED BY <3>1, <4>2
    <3>3. \A k \in top .. (here - 1) : k # here BY <1>0
    <3> QED BY <1>5, <3>2, <3>3
  <2> QED BY <2>1, <2>2
<1>10. new.at = top + Most(i, 1) - 1
  <2>1. Most(i, 1) = i BY <1>0 DEF Most
  <2> QED BY <1>9, <2>1 DEF here
<1>11. Len(new.lines) = Most(Len(p.lines), top + i - 1) BY <1>9 DEF size, here, Most
<1>12. ASSUME NEW k \in 1 .. Len(new.lines)
       PROVE  /\ k \in top .. here => new.lines[k] = rows[k - top + 1]
              /\ k \notin top .. here => new.lines[k] = p.lines[k]
  <2>1. k \in 1 .. size BY <1>9
  <2>2. k \in top .. here <=> (k \in top .. (here - 1) \/ k = here)
    BY <1>0, <1>6 DEF here
  <2> QED BY <1>6, <1>9, <2>1, <2>2
<1> QED BY <1>9, <1>10, <1>11, <1>12 DEF DrawnTo, here, new

(* All rows are drawn, whichever of them were there before.                 *)
LEMMA DrawRowsIs ==
  ASSUME NEW p \in Pages, NEW top \in 1 .. Len(p.lines), NEW old \in Seq(Lines),
         NEW rows \in Seq(Lines), StandsAt(p, old, top), p.at = top, p.sub = 0
  PROVE  DrawnTo(DrawRows(p, old, rows), p, rows, top, Len(rows))
<1> DEFINE n == Len(rows)
           step == [x \in (1 .. n) \X Pages |-> DrawRow(x[2], old, rows, x[1])]
           Is(f) == f = [i \in 0 .. n |-> IF i = 0 THEN p ELSE DrawRow(f[i - 1], old, rows, i)]
           P == CHOOSE f : Is(f)
<1>1. n \in Nat BY LineIs
<1>2. \A i \in 1 .. n, x \in Pages : step[<<i, x>>] = DrawRow(x, old, rows, i) OBVIOUS
<1>3. StepsIn(step, Pages, n)
  <2>1. ASSUME NEW i \in 1 .. n, NEW x \in Pages PROVE step[<<i, x>>] \in Pages
    <3>1. DrawRow(x, old, rows, i) \in Pages BY DrawRowPage
    <3> QED BY <1>2, <3>1
  <2> QED BY <2>1 DEF StepsIn
<1> HIDE DEF step
<1>4. PICK f \in [0 .. n -> Pages] : Steps(f, p, step, n)
  <2> HIDE DEF n
  <2> QED BY <1>1, <1>3, StepsExist
<1>5. \A i \in 0 .. n : f[i] = IF i = 0 THEN p ELSE DrawRow(f[i - 1], old, rows, i)
  <2> HIDE DEF n
  <2> TAKE i \in 0 .. n
  <2>1. i # 0 => i \in 1 .. n /\ i - 1 \in 0 .. n BY <1>1
  <2>2. i # 0 => f[i - 1] \in Pages BY <2>1
  <2>3. i # 0 => step[<<i, f[i - 1]>>] = DrawRow(f[i - 1], old, rows, i) BY <1>2, <2>1, <2>2
  <2> QED BY <1>4, <2>3 DEF Steps
<1>6. Is(f)
  <2>1. f = [i \in 0 .. n |-> f[i]] OBVIOUS
  <2> QED BY <1>5, <2>1
<1>7. Is(P)
  <2> HIDE DEF Is
  <2> QED BY <1>6
<1>8. \A i \in 0 .. n : P[i] = IF i = 0 THEN p ELSE DrawRow(P[i - 1], old, rows, i) BY <1>7
<1>9. DrawRows(p, old, rows) = P[n] BY DEF DrawRows
<1> HIDE DEF P
<1> DEFINE Bad == {i \in 0 .. n : ~DrawnTo(P[i], p, rows, top, i)}
<1>10. Bad = {}
  <2> SUFFICES ASSUME Bad # {} PROVE FALSE OBVIOUS
  <2>0. Bad \in SUBSET Nat BY <1>1
  <2>1. PICK m \in Bad : \A x \in Bad : m <= x BY <2>0, MinOf
  <2>2. m # 0
    <3>1. Len(p.lines) \in Nat /\ top \in Nat /\ top <= Len(p.lines) BY PageIs
    <3>2. Most(0, 1) = 1 /\ Most(Len(p.lines), top + 0 - 1) = Len(p.lines) BY <3>1 DEF Most
    <3>3. ~\E k : k \in top .. (top + 0 - 1) BY <3>1
    <3>4. top + 1 - 1 = top BY <3>1
    <3>5. DrawnTo(p, p, rows, top, 0) BY <3>2, <3>3, <3>4 DEF DrawnTo
    <3>6. 0 \in 0 .. n BY <1>1
    <3>7. P[0] = p BY <1>8, <3>6
    <3> QED BY <2>1, <3>5, <3>7
  <2>3. m - 1 \in 0 .. n /\ ~(m <= m - 1) /\ m \in 1 .. n BY <1>1, <2>1, <2>2
  <2>4. DrawnTo(P[m - 1], p, rows, top, m - 1) BY <2>1, <2>3
  <2>5. P[m] = DrawRow(P[m - 1], old, rows, m) BY <1>8, <2>1, <2>2
  <2>6. DrawnTo(DrawRow(P[m - 1], old, rows, m), p, rows, top, m) BY <2>3, <2>4, DrawOne
  <2> QED BY <2>1, <2>5, <2>6
<1>11. n \in 0 .. n BY <1>1
<1> QED BY <1>9, <1>10, <1>11

(* q is p with the first i rows written from top on, the cursor below them. *)
WrittenTo(q, p, rows, w, top, i) ==
  /\ q \in Pages /\ q.at = top + i /\ q.sub = 0 /\ (i > 0 => q.col = 0)
  /\ Len(q.lines) = Most(Len(p.lines), top + i)
  /\ \A k \in 1 .. (top - 1) : q.lines[k] = p.lines[k]
  /\ \A k \in top .. (top + i - 1) : q.lines[k] = encode_row(rows[k - top + 1], w)

(* An encoded row keeps its text and fits in the window; it takes the cells  *)
(* of its text, or more.                                                    *)
LEMMA EncodeIs ==
  ASSUME NEW r \in Given, NEW w \in Nat \ {0}
  PROVE  /\ encode_row(r, w) \in Lines /\ encode_row(r, w).text = r.text
         /\ encode_row(r, w).width < w /\ encode_row(r, w).width \in Nat
         /\ TextWidth(r, w) \in Nat /\ TextWidth(r, w) <= encode_row(r, w).width
<1> DEFINE c == TextWidth(r, w)
           d == IF r.fill THEN w - 1 ELSE c
<1>1. r.width \in Nat /\ r.text \in Finished \cup Passing BY DEF Given, Spans
<1>2. c \in Nat /\ c <= w - 1 BY <1>1 DEF Least, TextWidth
<1> HIDE DEF c
<1>3. d \in Nat /\ d < w /\ c <= d BY <1>2
<1>4. encode_row(r, w) = [text |-> r.text, width |-> d] BY DEF encode_row, c
<1> HIDE DEF d
<1> QED BY <1>1, <1>2, <1>3, <1>4 DEF Lines, Cells, c

(* The rows that are given.                                                 *)
LEMMA GivenIs ==
  ASSUME NEW rows \in Seq(Given)
  PROVE  /\ Len(rows) \in Nat /\ DOMAIN rows = 1 .. Len(rows)
         /\ \A i \in 1 .. Len(rows) : rows[i] \in Given
OBVIOUS

(* One row printed leaves a page.                                           *)
LEMMA WriteOnePage ==
  ASSUME NEW q \in Pages, NEW rows \in Seq(Given), NEW w \in Nat \ {0}, NEW i \in 1 .. Len(rows)
  PROVE  CrLf(Put(q, encode_row(rows[i], w))) \in Pages
<1>1. rows[i] \in Given BY GivenIs
<1>2. encode_row(rows[i], w) \in Lines BY <1>1, EncodeIs
<1>3. Put(q, encode_row(rows[i], w)) \in Pages BY <1>2, PutIs
<1> QED BY <1>3, CrLfIs

(* One row more is printed, below those printed already.                    *)
LEMMA WriteOne ==
  ASSUME NEW p \in Pages, NEW top \in 1 .. Len(p.lines), NEW rows \in Seq(Given),
         NEW w \in Nat \ {0}, NEW i \in 1 .. Len(rows),
         NEW q, WrittenTo(q, p, rows, w, top, i - 1)
  PROVE  WrittenTo(CrLf(Put(q, encode_row(rows[i], w))), p, rows, w, top, i)
<1> DEFINE n == Len(p.lines)
           row == encode_row(rows[i], w)
           u == Put(q, row)
           v == CrLf(u)
           size == IF n > top + i THEN n ELSE top + i
<1>0. n \in Nat /\ Len(rows) \in Nat /\ top \in Nat /\ top >= 1 /\ top <= n /\ i \in Nat /\ i >= 1
  BY PageIs, GivenIs
<1>1. row \in Lines
  <2>1. rows[i] \in Given BY GivenIs
  <2> QED BY <2>1, EncodeIs
<1>2. /\ q \in Pages /\ q.at = top + i - 1 /\ q.sub = 0
      /\ Len(q.lines) = IF n > top + i - 1 THEN n ELSE top + i - 1
      /\ \A k \in 1 .. (top - 1) : q.lines[k] = p.lines[k]
      /\ \A k \in top .. (top + i - 2) : q.lines[k] = encode_row(rows[k - top + 1], w)
  <2>1. top + (i - 1) = top + i - 1 /\ top + (i - 1) - 1 = top + i - 2 BY <1>0
  <2> QED BY <2>1 DEF WrittenTo, Most
<1>3. /\ u \in Pages /\ u.at = q.at /\ u.sub = q.sub /\ Len(u.lines) = Len(q.lines)
      /\ \A k \in 1 .. Len(q.lines) : u.lines[k] = IF k = q.at THEN row ELSE q.lines[k]
  <2> HIDE DEF row
  <2>1. q \in Pages /\ row \in Lines BY <1>1, <1>2
  <2>2. LET x == Put(q, row)
        IN  /\ x \in Pages /\ x.at = q.at /\ x.sub = q.sub /\ x.col = q.col
            /\ Len(x.lines) = Len(q.lines)
            /\ \A k \in 1 .. Len(q.lines) : x.lines[k] = IF k = q.at THEN row ELSE q.lines[k]
    BY <2>1, PutIs
  <2> QED BY <2>2
<1> HIDE DEF u, row
<1>4. /\ v \in Pages /\ v.at = u.at + 1 /\ v.sub = 0 /\ v.col = 0
      /\ Len(v.lines) = IF u.at = Len(u.lines) THEN u.at + 1 ELSE Len(u.lines)
      /\ \A k \in 1 .. Len(v.lines) :
           v.lines[k] = IF k \in 1 .. Len(u.lines) THEN u.lines[k] ELSE Empty
  BY <1>3, CrLfIs
<1> HIDE DEF v
<1>5. v.at = top + i /\ Len(v.lines) = size
  <2> DEFINE c == top + i - 1
  <2>1. c \in Nat /\ c + 1 = top + i BY <1>0
  <2>2. u.at = c /\ Len(u.lines) = IF n > c THEN n ELSE c BY <1>2, <1>3
  <2>3. size = IF n > c + 1 THEN n ELSE c + 1 BY <2>1
  <2> HIDE DEF c, n, size
  <2>4. v.at = c + 1 /\ Len(v.lines) = IF n > c + 1 THEN n ELSE c + 1 BY <1>0, <1>4, <2>1, <2>2
  <2> QED BY <2>1, <2>3, <2>4
<1>6. ASSUME NEW k \in 1 .. (top - 1) PROVE v.lines[k] = p.lines[k]
  <2>1. k \in 1 .. Len(v.lines) /\ k \in 1 .. Len(u.lines) /\ k \in 1 .. Len(q.lines) /\ k # q.at
    BY <1>0, <1>2, <1>3, <1>5
  <2> QED BY <1>2, <1>3, <1>4, <2>1
<1>7. ASSUME NEW k \in top .. (top + i - 1) PROVE v.lines[k] = encode_row(rows[k - top + 1], w)
  <2>1. k \in 1 .. Len(v.lines) /\ k \in 1 .. Len(u.lines) /\ k \in 1 .. Len(q.lines)
    BY <1>0, <1>2, <1>3, <1>5
  <2>2. v.lines[k] = IF k = q.at THEN row ELSE q.lines[k] BY <1>3, <1>4, <2>1
  <2>3. CASE k = q.at
    <3>1. k - top + 1 = i BY <1>0, <1>2, <2>3
    <3> QED BY <2>2, <2>3, <3>1 DEF row
  <2>4. CASE k # q.at
    <3>1. k \in top .. (top + i - 2) BY <1>0, <1>2, <2>4
    <3> QED BY <1>2, <2>2, <2>4, <3>1
  <2> QED BY <2>3, <2>4
<1>8. Len(v.lines) = Most(n, top + i) BY <1>5 DEF Most
<1>9. WrittenTo(v, p, rows, w, top, i) BY <1>4, <1>5, <1>6, <1>7, <1>8 DEF WrittenTo
<1> QED BY <1>9 DEF v, u, row

(* All rows are printed, in order, from the top of the region on.           *)
LEMMA WriteRowsIs ==
  ASSUME NEW p \in Pages, NEW top \in 1 .. Len(p.lines), NEW rows \in Seq(Given),
         NEW w \in Nat \ {0}, p.at = top, p.sub = 0
  PROVE  WrittenTo(WriteRows(p, rows, w), p, rows, w, top, Len(rows))
<1> DEFINE n == Len(rows)
           One(q, i) == CrLf(Put(q, encode_row(rows[i], w)))
           step == [x \in (1 .. n) \X Pages |-> One(x[2], x[1])]
           Is(f) == f = [i \in 0 .. n |-> IF i = 0 THEN p ELSE CrLf(Put(f[i - 1], encode_row(rows[i], w)))]
           P == CHOOSE f : Is(f)
<1>1. n \in Nat BY GivenIs
<1>2. \A i \in 1 .. n, x \in Pages : step[<<i, x>>] = One(x, i) OBVIOUS
<1>3. StepsIn(step, Pages, n)
  <2>1. ASSUME NEW i \in 1 .. n, NEW x \in Pages PROVE step[<<i, x>>] \in Pages
    <3>1. One(x, i) \in Pages BY WriteOnePage
    <3> QED BY <1>2, <3>1
  <2> QED BY <2>1 DEF StepsIn
<1> HIDE DEF step
<1>4. PICK f \in [0 .. n -> Pages] : Steps(f, p, step, n)
  <2> HIDE DEF n
  <2> QED BY <1>1, <1>3, StepsExist
<1>5. \A i \in 0 .. n : f[i] = IF i = 0 THEN p ELSE One(f[i - 1], i)
  <2> HIDE DEF n, One
  <2> TAKE i \in 0 .. n
  <2>1. i # 0 => i \in 1 .. n /\ i - 1 \in 0 .. n BY <1>1
  <2>2. i # 0 => f[i - 1] \in Pages BY <2>1
  <2>3. i # 0 => step[<<i, f[i - 1]>>] = One(f[i - 1], i) BY <1>2, <2>1, <2>2
  <2> QED BY <1>4, <2>3 DEF Steps
<1>6. Is(f)
  <2>1. f = [i \in 0 .. n |-> f[i]] OBVIOUS
  <2> QED BY <1>5, <2>1
<1>7. Is(P)
  <2> HIDE DEF Is
  <2> QED BY <1>6
<1>8. \A i \in 0 .. n : P[i] = IF i = 0 THEN p ELSE One(P[i - 1], i) BY <1>7
<1>9. WriteRows(p, rows, w) = P[n] BY DEF WriteRows
<1> HIDE DEF P
<1> DEFINE Bad == {i \in 0 .. n : ~WrittenTo(P[i], p, rows, w, top, i)}
<1>10. Bad = {}
  <2> SUFFICES ASSUME Bad # {} PROVE FALSE OBVIOUS
  <2>0. Bad \in SUBSET Nat BY <1>1
  <2>1. PICK m \in Bad : \A x \in Bad : m <= x BY <2>0, MinOf
  <2>2. m # 0
    <3>1. Len(p.lines) \in Nat /\ top \in Nat /\ top <= Len(p.lines) BY PageIs
    <3>2. top + 0 = top /\ Most(Len(p.lines), top + 0) = Len(p.lines) BY <3>1 DEF Most
    <3>3. ~\E k : k \in top .. (top + 0 - 1) BY <3>1
    <3>5. WrittenTo(p, p, rows, w, top, 0) BY <3>2, <3>3 DEF WrittenTo
    <3>6. 0 \in 0 .. n BY <1>1
    <3>7. P[0] = p BY <1>8, <3>6
    <3> QED BY <2>1, <3>5, <3>7
  <2>3. m - 1 \in 0 .. n /\ ~(m <= m - 1) /\ m \in 1 .. n BY <1>1, <2>1, <2>2
  <2>4. WrittenTo(P[m - 1], p, rows, w, top, m - 1) BY <2>1, <2>3
  <2>5. P[m] = One(P[m - 1], m) BY <1>8, <2>1, <2>2
  <2>6. WrittenTo(One(P[m - 1], m), p, rows, w, top, m) BY <2>3, <2>4, WriteOne
  <2> QED BY <2>1, <2>5, <2>6
<1>11. n \in 0 .. n BY <1>1
<1> QED BY <1>9, <1>10, <1>11

Terms == [width : Widths, height : Heights, drawn : Seq(Cells(Passing)),
          drawn_widths : Seq(Nat), cursor_row : Nat, cursor_visible : BOOLEAN]

-----------------------------------------------------------------------------
(* A width is recorded for each row drawn, and none is too large.           *)
Counted(t) ==
  /\ Len(t.drawn_widths) = Len(t.drawn)
  /\ \A k \in 1 .. Len(t.drawn) : t.drawn_widths[k] <= t.drawn[k].width

(* What the writer believes of the page is so: its region starts on line top, *)
(* the rows it drew are there, one line each, and only blank lines below.   *)
Framed(t, p, top) ==
  /\ t \in Terms /\ p \in Pages /\ top \in Nat \ {0}
  /\ Len(t.drawn) < t.height
  /\ \A k \in 1 .. Len(t.drawn) : t.drawn[k].width < t.width
  /\ Counted(t)
  /\ t.cursor_row < Most(Len(t.drawn), 1)
  /\ p.at = top + t.cursor_row /\ p.sub = 0
  /\ t.drawn = <<>> => p.col = 0
  /\ top + Most(Len(t.drawn), 1) - 1 <= Len(p.lines)
  /\ Len(p.lines) <= top + t.height - 1
  /\ \A k \in top .. Len(p.lines) :
       p.lines[k] = IF k - top < Len(t.drawn) THEN t.drawn[k - top + 1] ELSE Empty

(* The terminal's part of a state.                                          *)
LEMMA TermIs ==
  ASSUME NEW t \in Terms
  PROVE  /\ t.width \in Nat \ {0} /\ t.width > 1 /\ t.height \in Nat \ {0} /\ t.height > 1
         /\ t.width \in Widths /\ t.height \in Heights
         /\ t.drawn \in Seq(Cells(Passing)) /\ t.drawn \in Seq(Lines) /\ Len(t.drawn) \in Nat
         /\ DOMAIN t.drawn = 1 .. Len(t.drawn)
         /\ t.cursor_row \in Nat /\ t.cursor_visible \in BOOLEAN
         /\ t.drawn_widths \in Seq(Nat)
         /\ t.drawn = <<>> <=> Len(t.drawn) = 0
         /\ \A k \in 1 .. Len(t.drawn) : t.drawn[k].text \in Passing /\ t.drawn[k].width \in Nat
<1>1. /\ t.width \in Widths /\ t.height \in Heights /\ t.drawn \in Seq(Cells(Passing))
      /\ t.drawn_widths \in Seq(Nat) /\ t.cursor_row \in Nat /\ t.cursor_visible \in BOOLEAN
  BY DEF Terms
<1>2. t.width \in Nat \ {0, 1} /\ t.height \in Nat \ {0, 1} BY <1>1, ScreenAssumption
<1>3. Cells(Passing) \subseteq Lines BY DEF Cells, Lines
<1>4. t.drawn \in Seq(Lines) BY <1>1, <1>3
<1>5. \A k \in 1 .. Len(t.drawn) : t.drawn[k] \in Cells(Passing) BY <1>1
<1>6. \A l \in Cells(Passing) : l.text \in Passing /\ l.width \in Nat BY DEF Cells
<1>7. t.drawn = <<>> <=> Len(t.drawn) = 0 BY <1>1, EmptySeq
<1>8. Len(t.drawn) \in Nat /\ DOMAIN t.drawn = 1 .. Len(t.drawn) BY <1>1
<1> QED BY <1>1, <1>2, <1>4, <1>5, <1>6, <1>7, <1>8

(* Every line from the region's first on is narrower than the window.       *)
LEMMA FramedFlat ==
  ASSUME NEW t, NEW p, NEW top, Framed(t, p, top)
  PROVE  /\ top \in Nat \ {0} /\ p.at \in top .. Len(p.lines) /\ p.at \in 1 .. Len(p.lines)
         /\ top \in 1 .. Len(p.lines)
         /\ \A k \in top .. Len(p.lines) : p.lines[k].width < t.width /\ p.lines[k].text \notin Finished
<1> DEFINE n == Len(t.drawn)
           size == Len(p.lines)
<1>1. t \in Terms /\ p \in Pages /\ top \in Nat \ {0} BY DEF Framed
<1>2. n \in Nat /\ t.cursor_row \in Nat /\ t.width \in Nat \ {0} /\ size \in Nat BY <1>1, TermIs, PageIs
<1>3. t.cursor_row < Most(n, 1) /\ p.at = top + t.cursor_row /\ top + Most(n, 1) - 1 <= size
  BY DEF Framed
<1>4. Most(n, 1) \in Nat \ {0} BY <1>2 DEF Most
<1>5. \A k \in top .. size : p.lines[k] = IF k - top < n THEN t.drawn[k - top + 1] ELSE Empty
  BY DEF Framed
<1>6. \A k \in 1 .. n : t.drawn[k].width < t.width /\ t.drawn[k].text \notin Finished
  <2>1. \A k \in 1 .. n : t.drawn[k].text \in Passing BY <1>1, TermIs
  <2>2. \A k \in 1 .. n : t.drawn[k].width < t.width BY DEF Framed
  <2> QED BY <2>1, <2>2, ScreenAssumption
<1>7. ASSUME NEW k \in top .. size
      PROVE  p.lines[k].width < t.width /\ p.lines[k].text \notin Finished
  <2>1. k - top < n => k - top + 1 \in 1 .. n BY <1>1, <1>2
  <2>2. Empty.width < t.width /\ Empty.text \notin Finished BY <1>2, EmptyIs
  <2> HIDE DEF n, size
  <2> QED BY <1>5, <1>6, <2>1, <2>2
<1> HIDE DEF n
<1>8. top <= size /\ p.at \in top .. size BY <1>1, <1>2, <1>3, <1>4
<1> QED BY <1>1, <1>2, <1>7, <1>8

(* move_to_top: the cursor on the region's first line, at its start.        *)
LEMMA MoveIs ==
  ASSUME NEW t, NEW p, NEW top, Framed(t, p, top)
  PROVE  /\ move_to_top([t |-> t, p |-> p])
              = [t |-> [t EXCEPT !.cursor_row = 0], p |-> Column(Placed(p, top, 0), 0)]
         /\ Framed([t EXCEPT !.cursor_row = 0], Column(Placed(p, top, 0), 0), top)
         /\ Column(Placed(p, top, 0), 0).lines = p.lines
<1> DEFINE q == Column(Placed(p, top, 0), 0)
           u == [t EXCEPT !.cursor_row = 0]
<1>1. t \in Terms /\ p \in Pages /\ top \in Nat \ {0} BY DEF Framed
<1>2. /\ p.at \in top .. Len(p.lines)
      /\ \A k \in top .. Len(p.lines) : p.lines[k].width < t.width
  BY FramedFlat
<1>3. t.width \in Nat \ {0} /\ t.height \in Nat \ {0} /\ t.cursor_row \in Nat BY <1>1, TermIs
<1>4. p.at - t.cursor_row = top /\ p.sub = 0 /\ t.cursor_row <= p.at - top
      /\ Len(p.lines) <= top + t.height - 1
  <2>1. p.at = top + t.cursor_row /\ p.sub = 0 /\ Len(p.lines) <= top + t.height - 1 BY DEF Framed
  <2> QED BY <1>1, <1>3, <2>1
<1>5. Up(p, t.cursor_row, t.width, t.height) = Placed(p, top, 0)
  <2> DEFINE w == t.width
             h == t.height
             n == t.cursor_row
  <2>0. w \in Nat \ {0} /\ h \in Nat /\ n \in Nat /\ n <= p.at - top /\ Len(p.lines) <= top + h - 1
        /\ Narrow(p.lines, top, w)
    BY <1>2, <1>3, <1>4 DEF Narrow
  <2> HIDE DEF w, h, n, u, q
  <2>1. Up(p, n, w, h) = Placed(p, p.at - n, 0) BY <1>1, <1>2, <1>4, <2>0, UpFlat
  <2> USE DEF w, h, n
  <2> QED BY <1>4, <2>1
<1>6. move_to_top([t |-> t, p |-> p]) = [t |-> u, p |-> q] BY <1>5 DEF move_to_top
<1>7. q \in Pages /\ q.lines = p.lines /\ q.at = top /\ q.sub = 0 /\ q.col = 0
  <2>1. top \in Nat /\ 0 \in Nat BY <1>1
  <2>2. /\ Placed(p, top, 0) \in Pages /\ Placed(p, top, 0).lines = p.lines
        /\ Placed(p, top, 0).at = top /\ Placed(p, top, 0).sub = 0
    BY <1>1, <2>1, PlacedIs
  <2> HIDE DEF Placed
  <2> QED BY <2>1, <2>2, ColumnIs
<1>8. /\ u \in Terms /\ u.cursor_row = 0 /\ u.drawn = t.drawn /\ u.drawn_widths = t.drawn_widths
      /\ u.width = t.width /\ u.height = t.height
  BY <1>1 DEF Terms
<1>9. Framed(u, q, top)
  <2>1. Len(t.drawn) \in Nat /\ 0 < Most(Len(t.drawn), 1)
    <3>1. Len(t.drawn) \in Nat BY <1>1, TermIs
    <3> QED BY <3>1 DEF Most
  <2>2. top + 0 = top BY <1>1
  <2> HIDE DEF u, q
  <2> QED BY <1>1, <1>7, <1>8, <2>1, <2>2 DEF Framed, Counted
<1> QED BY <1>6, <1>7, <1>9

(* The frames drawn, the empty one included.                                *)
LEMMA FrameIs ==
  ASSUME NEW f \in Frames \cup {NoFrame}
  PROVE  /\ f.lines \in Seq(Spans(Passing)) /\ Len(f.lines) \in Nat
         /\ f.caret \subseteq [row : Nat, col : Nat]
<1>1. NoFrame.lines \in Seq(Spans(Passing)) /\ NoFrame.caret \subseteq [row : Nat, col : Nat]
  BY DEF NoFrame
<1>2. f.lines \in Seq(Spans(Passing)) /\ f.caret \subseteq [row : Nat, col : Nat]
  BY <1>1, ScreenAssumption
<1> QED BY <1>2

(* A list of rows, encoded for the window.                                  *)
LEMMA EncodeRowsIs ==
  ASSUME NEW texts \in SUBSET (Finished \cup Passing), NEW rows \in Seq(Spans(texts)), NEW w \in Nat \ {0}
  PROVE  /\ EncodeRows(rows, w) \in Seq(Cells(texts)) /\ Len(EncodeRows(rows, w)) = Len(rows)
         /\ \A i \in 1 .. Len(rows) :
              /\ EncodeRows(rows, w)[i] = encode_row(rows[i], w) /\ EncodeRows(rows, w)[i].width < w
              /\ TextWidth(rows[i], w) \in Nat /\ TextWidth(rows[i], w) <= EncodeRows(rows, w)[i].width
<1> DEFINE c == EncodeRows(rows, w)
<1>1. Len(rows) \in Nat /\ DOMAIN rows = 1 .. Len(rows) /\ \A i \in 1 .. Len(rows) : rows[i] \in Spans(texts)
  OBVIOUS
<1>2. c = [i \in 1 .. Len(rows) |-> encode_row(rows[i], w)] BY <1>1 DEF EncodeRows
<1>3. ASSUME NEW i \in 1 .. Len(rows)
      PROVE  /\ encode_row(rows[i], w) \in Cells(texts) /\ encode_row(rows[i], w).width < w
             /\ TextWidth(rows[i], w) \in Nat /\ TextWidth(rows[i], w) <= encode_row(rows[i], w).width
  <2>1. rows[i] \in Given /\ rows[i].text \in texts BY <1>1 DEF Spans, Given
  <2>2. /\ encode_row(rows[i], w) \in Lines /\ encode_row(rows[i], w).text \in texts
        /\ encode_row(rows[i], w).width < w
        /\ TextWidth(rows[i], w) \in Nat /\ TextWidth(rows[i], w) <= encode_row(rows[i], w).width
    BY <2>1, EncodeIs
  <2> QED BY <2>2 DEF Cells, Lines
<1> HIDE DEF c
<1>4. c \in [1 .. Len(rows) -> Cells(texts)] BY <1>2, <1>3
<1>5. c \in Seq(Cells(texts)) BY <1>1, <1>4
<1>6. Len(c) = Len(rows) BY <1>1, <1>4, <1>5
<1>7. \A i \in 1 .. Len(rows) :
        /\ c[i] = encode_row(rows[i], w) /\ c[i].width < w
        /\ TextWidth(rows[i], w) \in Nat /\ TextWidth(rows[i], w) <= c[i].width
  BY <1>2, <1>3
<1> QED BY <1>5, <1>6, <1>7 DEF c

(* The rows of a frame that are drawn: they fit in the window, with a row to*)
(* spare. And the widths recorded of them.                                  *)
RowsDrawn(f, w, h) == EncodeRows(Visible(f.lines, h), w)
WidthsDrawn(f, w, h) ==
  [i \in DOMAIN Visible(f.lines, h) |-> TextWidth(Visible(f.lines, h)[i], w)]

(* They are rows of live texts, fewer than the window has and narrower.     *)
LEMMA RowsDrawnIs ==
  ASSUME NEW f \in Frames \cup {NoFrame}, NEW w \in Nat \ {0}, NEW h \in Nat \ {0}
  PROVE  LET rows == RowsDrawn(f, w, h)
             widths == WidthsDrawn(f, w, h)
         IN  /\ rows \in Seq(Cells(Passing)) /\ rows \in Seq(Lines) /\ Len(rows) \in Nat
             /\ Len(rows) < h /\ Len(rows) <= Len(f.lines)
             /\ \A i \in 1 .. Len(rows) : rows[i].width < w
             /\ widths \in Seq(Nat) /\ Len(widths) = Len(rows)
             /\ \A i \in 1 .. Len(rows) : widths[i] <= rows[i].width
             /\ f = NoFrame => rows = <<>>
<1> DEFINE l == f.lines
           m == Minus(Len(l), h - 1)
           v == SubSeq(l, m + 1, Len(l))
<1>1. l \in Seq(Spans(Passing)) /\ Len(l) \in Nat BY FrameIs
<1>2. m \in Nat /\ m <= Len(l) /\ Len(l) - m <= h - 1 BY <1>1 DEF Minus, Most
<1>3. v = Visible(f.lines, h) BY DEF Visible
<1> HIDE DEF m
<1>4. v \in Seq(Spans(Passing)) /\ Len(v) = Len(l) - m
  <2>1. \A k \in (m + 1) .. Len(l) : l[k] \in Spans(Passing) BY <1>1, <1>2
  <2>2. Len(v) = IF m + 1 <= Len(l) THEN Len(l) - (m + 1) + 1 ELSE 0 BY <1>1, <1>2, SubSeqProperties
  <2>3. v \in Seq(Spans(Passing)) BY <1>1, <1>2, <2>1, SubSeqProperties
  <2> QED BY <1>1, <1>2, <2>2, <2>3
<1> HIDE DEF v, l
<1> DEFINE rows == RowsDrawn(f, w, h)
           widths == WidthsDrawn(f, w, h)
<1>5. /\ rows \in Seq(Cells(Passing)) /\ Len(rows) = Len(v)
      /\ \A i \in 1 .. Len(v) :
           /\ rows[i].width < w
           /\ TextWidth(v[i], w) \in Nat /\ TextWidth(v[i], w) <= rows[i].width
  <2>1. rows = EncodeRows(v, w) BY <1>3 DEF RowsDrawn
  <2>2. Passing \in SUBSET (Finished \cup Passing) OBVIOUS
  <2> HIDE DEF rows
  <2> QED BY <1>4, <2>1, <2>2, EncodeRowsIs
<1>6. rows \in Seq(Lines)
  <2>1. Cells(Passing) \subseteq Lines BY DEF Cells, Lines
  <2> HIDE DEF rows
  <2> QED BY <1>5, <2>1
<1>7. Len(rows) \in Nat /\ Len(rows) < h /\ Len(rows) <= Len(l) BY <1>1, <1>2, <1>4, <1>5
<1>8. f = NoFrame => rows = <<>>
  <2>1. f = NoFrame => l = <<>> BY DEF NoFrame, l
  <2>2. f = NoFrame => Len(rows) = 0 BY <1>1, <1>7, <2>1
  <2> HIDE DEF rows
  <2> QED BY <1>5, <2>2, EmptySeq
<1> HIDE DEF rows
<1>9. widths \in Seq(Nat) /\ Len(widths) = Len(v) /\ \A i \in 1 .. Len(v) : widths[i] <= rows[i].width
  <2>1. Len(v) \in Nat /\ DOMAIN v = 1 .. Len(v) BY <1>4
  <2>2. widths = [i \in 1 .. Len(v) |-> TextWidth(v[i], w)] BY <1>3, <2>1 DEF WidthsDrawn
  <2> HIDE DEF widths
  <2>3. widths \in [1 .. Len(v) -> Nat] /\ \A i \in 1 .. Len(v) : widths[i] <= rows[i].width
    BY <1>5, <2>2
  <2>4. widths \in Seq(Nat) BY <2>1, <2>3
  <2>5. Len(widths) = Len(v) BY <2>1, <2>3, <2>4
  <2> QED BY <2>3, <2>4, <2>5
<1> HIDE DEF widths
<1> QED BY <1>5, <1>6, <1>7, <1>8, <1>9 DEF rows, widths, l

(* q has the rows on its lines from top on and nothing below, the cursor on *)
(* the last of them; above top it is p.                                     *)
Ready(q, p, rows, top, h) ==
  /\ q \in Pages /\ q.at = top + Most(Len(rows), 1) - 1 /\ q.sub = 0
  /\ q.at <= Len(q.lines) /\ Len(q.lines) <= top + h - 1
  /\ \A k \in 1 .. (top - 1) : q.lines[k] = p.lines[k]
  /\ \A k \in top .. Len(q.lines) :
       q.lines[k] = IF k - top < Len(rows) THEN rows[k - top + 1] ELSE Empty

(* The page once the rows are drawn, those of the older frame that are too  *)
(* many are erased and an empty region's line is blank.                     *)
Cleared(p, t, rows) ==
  LET p1 == DrawRows(p, t.drawn, rows)
  IN  IF Len(rows) < Len(t.drawn)
      THEN Up(EraseBelow(CrLf(p1), t.width), 1, t.width, t.height) ELSE p1

(* As many rows as before, or more: what is below them was blank already.   *)
LEMMA ClearedNone ==
  ASSUME NEW t, NEW p, NEW top, Framed(t, p, top), t.cursor_row = 0, NEW rows \in Seq(Lines),
         Len(rows) >= Len(t.drawn), Len(rows) < t.height
  PROVE  Ready(Cleared(p, t, rows), p, rows, top, t.height)
<1> DEFINE old == t.drawn
           q == DrawRows(p, old, rows)
           n == Len(rows)
           h == t.height
           size == Len(p.lines)
<1>1. t \in Terms /\ p \in Pages /\ top \in Nat \ {0} BY DEF Framed
<1>2. /\ old \in Seq(Lines) /\ Len(old) \in Nat /\ h \in Nat /\ n \in Nat /\ size \in Nat
      /\ Len(old) <= n /\ n < h /\ h > 1
  BY <1>1, TermIs, PageIs
<1>3. /\ p.at = top /\ p.sub = 0 /\ top + Most(Len(old), 1) - 1 <= size
      /\ size <= top + h - 1
      /\ \A k \in top .. size : p.lines[k] = IF k - top < Len(old) THEN old[k - top + 1] ELSE Empty
  <2>1. top + 0 = top BY <1>1
  <2> QED BY <2>1 DEF Framed
<1>4. top \in 1 .. size BY FramedFlat
<1>5. StandsAt(p, old, top)
  <2>1. top + Len(old) - 1 <= size BY <1>1, <1>2, <1>3 DEF Most
  <2>2. ASSUME NEW k \in 1 .. Len(old) PROVE p.lines[top + k - 1] = old[k]
    <3> DEFINE i == top + k - 1
    <3>1. i \in top .. size /\ i - top < Len(old) /\ i - top + 1 = k BY <1>1, <1>2, <2>1
    <3> HIDE DEF i, old, size
    <3>2. p.lines[i] = old[k] BY <1>3, <3>1
    <3> QED BY <3>2 DEF i
  <2> QED BY <2>1, <2>2 DEF StandsAt
<1>6. DrawnTo(q, p, rows, top, n)
  <2> HIDE DEF old, q
  <2> QED BY <1>1, <1>2, <1>3, <1>4, <1>5, DrawRowsIs DEF q, size
<1>7. Cleared(p, t, rows) = q BY <1>2 DEF Cleared
<1> HIDE DEF q, old
<1>8. /\ q \in Pages /\ q.at = top + Most(n, 1) - 1 /\ q.sub = 0
      /\ Len(q.lines) = Most(size, top + n - 1)
      /\ \A k \in 1 .. Len(q.lines) :
           /\ k \in top .. (top + n - 1) => q.lines[k] = rows[k - top + 1]
           /\ k \notin top .. (top + n - 1) => q.lines[k] = p.lines[k]
  BY <1>6 DEF DrawnTo
<1> HIDE DEF n, h, size
<1>9. q.at <= Len(q.lines) /\ Len(q.lines) <= top + h - 1 /\ Len(q.lines) \in Nat
      /\ size <= Len(q.lines)
  BY <1>1, <1>2, <1>3, <1>4, <1>8 DEF Most
<1>10. ASSUME NEW k \in 1 .. (top - 1) PROVE q.lines[k] = p.lines[k]
  <2>1. k \in 1 .. Len(q.lines) /\ k \notin top .. (top + n - 1) BY <1>1, <1>2, <1>4, <1>9
  <2> QED BY <1>8, <2>1
<1>11. ASSUME NEW k \in top .. Len(q.lines)
       PROVE  q.lines[k] = IF k - top < n THEN rows[k - top + 1] ELSE Empty
  <2>1. k \in 1 .. Len(q.lines) /\ k \in Nat BY <1>1, <1>9
  <2>2. CASE k - top < n
    <3>1. k \in top .. (top + n - 1) BY <1>1, <1>2, <2>2
    <3> QED BY <1>8, <2>1, <2>2, <3>1
  <2>3. CASE ~(k - top < n)
    <3>1. k \notin top .. (top + n - 1) /\ ~(k - top < Len(old)) BY <1>1, <1>2, <2>1, <2>3
    <3>2. k \in top .. size BY <1>1, <1>2, <1>8, <2>1, <2>3 DEF Most
    <3> QED BY <1>3, <1>8, <2>1, <2>3, <3>1, <3>2
  <2> QED BY <2>2, <2>3
<1> QED BY <1>7, <1>8, <1>9, <1>10, <1>11 DEF Ready, n, h

(* Ready, but for the first line of a region that has no row.               *)
Almost(q, p, rows, top, h) ==
  /\ q \in Pages /\ q.at = top + Most(Len(rows), 1) - 1 /\ q.sub = 0
  /\ q.at <= Len(q.lines) /\ Len(q.lines) <= top + h - 1
  /\ \A k \in 1 .. (top - 1) : q.lines[k] = p.lines[k]
  /\ \A k \in top .. Len(q.lines) :
       /\ k - top < Len(rows) => q.lines[k] = rows[k - top + 1]
       /\ k - top >= Most(Len(rows), 1) => q.lines[k] = Empty

(* Fewer rows than before: those below the new ones are erased.             *)
LEMMA ClearedSome ==
  ASSUME NEW t, NEW p, NEW top, Framed(t, p, top), t.cursor_row = 0, NEW rows \in Seq(Lines),
         \A i \in 1 .. Len(rows) : rows[i].width < t.width, Len(rows) < Len(t.drawn)
  PROVE  Almost(Cleared(p, t, rows), p, rows, top, t.height)
<1> DEFINE old == t.drawn
           q == DrawRows(p, old, rows)
           u == CrLf(q)
           v == EraseBelow(u, t.width)
           z == Up(v, 1, t.width, t.height)
           n == Len(rows)
           h == t.height
           w == t.width
           size == Len(p.lines)
           most == Most(n, 1)
           b == top + most
<1>1. t \in Terms /\ p \in Pages /\ top \in Nat \ {0} BY DEF Framed
<1>2. /\ old \in Seq(Lines) /\ Len(old) \in Nat /\ h \in Nat /\ n \in Nat /\ size \in Nat
      /\ n < Len(old) /\ Len(old) < h /\ h > 1 /\ w \in Nat \ {0}
  <2>1. Len(old) < h BY DEF Framed
  <2> QED BY <1>1, <2>1, TermIs, PageIs
<1>3. /\ p.at = top /\ p.sub = 0 /\ top + Most(Len(old), 1) - 1 <= size
      /\ size <= top + h - 1
      /\ \A k \in top .. size : p.lines[k] = IF k - top < Len(old) THEN old[k - top + 1] ELSE Empty
  <2>1. top + 0 = top BY <1>1
  <2> QED BY <2>1 DEF Framed
<1>4. top \in 1 .. size /\ \A k \in top .. size : p.lines[k].width < w BY FramedFlat
<1>5. StandsAt(p, old, top)
  <2>1. top + Len(old) - 1 <= size BY <1>1, <1>2, <1>3 DEF Most
  <2>2. ASSUME NEW k \in 1 .. Len(old) PROVE p.lines[top + k - 1] = old[k]
    <3> DEFINE i == top + k - 1
    <3>1. i \in top .. size /\ i - top < Len(old) /\ i - top + 1 = k BY <1>1, <1>2, <2>1
    <3> HIDE DEF i, old, size
    <3>2. p.lines[i] = old[k] BY <1>3, <3>1
    <3> QED BY <3>2 DEF i
  <2> QED BY <2>1, <2>2 DEF StandsAt
<1>6. DrawnTo(q, p, rows, top, n)
  <2> HIDE DEF old, q
  <2> QED BY <1>1, <1>2, <1>3, <1>4, <1>5, DrawRowsIs DEF q, size
<1>7. Cleared(p, t, rows) = z BY <1>2 DEF Cleared
<1> HIDE DEF q, old
<1>8. /\ q \in Pages /\ q.at = top + most - 1 /\ q.sub = 0
      /\ Len(q.lines) = Most(size, top + n - 1)
      /\ \A k \in 1 .. Len(q.lines) :
           /\ k \in top .. (top + n - 1) => q.lines[k] = rows[k - top + 1]
           /\ k \notin top .. (top + n - 1) => q.lines[k] = p.lines[k]
  BY <1>6 DEF DrawnTo
<1> HIDE DEF n, h, size, w
<1>9. /\ most \in Nat \ {0} /\ (n = 0 => most = 1) /\ (n > 0 => most = n)
      /\ Len(q.lines) = size /\ b \in Nat /\ b > top /\ b - 1 <= size /\ q.at = b - 1
      /\ b <= top + h - 1
  BY <1>1, <1>2, <1>3, <1>8 DEF Most
<1> HIDE DEF most
<1>10. /\ u \in Pages /\ u.at = b /\ u.sub = 0
       /\ Len(u.lines) = IF b - 1 = size THEN b ELSE size
       /\ \A k \in 1 .. (b - 1) : u.lines[k] = q.lines[k]
  <2>1. LET c == CrLf(q)
        IN  /\ c \in Pages /\ c.at = q.at + 1 /\ c.sub = 0 /\ c.col = 0
            /\ Len(c.lines) = IF q.at = Len(q.lines) THEN q.at + 1 ELSE Len(q.lines)
            /\ \A k \in 1 .. Len(c.lines) :
                 c.lines[k] = IF k \in 1 .. Len(q.lines) THEN q.lines[k] ELSE Empty
    BY <1>8, CrLfIs
  <2> HIDE DEF u, b
  <2>2. /\ u \in Pages /\ u.at = q.at + 1 /\ u.sub = 0
        /\ Len(u.lines) = IF q.at = size THEN q.at + 1 ELSE size
        /\ \A k \in 1 .. Len(u.lines) : u.lines[k] = IF k \in 1 .. size THEN q.lines[k] ELSE Empty
    BY <1>9, <2>1 DEF u
  <2>3. b - 1 + 1 = b BY <1>9
  <2>4. Len(u.lines) = IF b - 1 = size THEN b ELSE size BY <1>9, <2>2, <2>3
  <2>5. \A k \in 1 .. (b - 1) : k \in 1 .. Len(u.lines) /\ k \in 1 .. size BY <1>2, <1>9, <2>4
  <2> QED BY <1>9, <2>2, <2>3, <2>4, <2>5
<1> HIDE DEF u
<1>11. Len(u.lines) \in Nat /\ b \in 1 .. Len(u.lines) /\ Len(u.lines) <= top + h - 1
  <2> HIDE DEF b
  <2>1. b \in Nat /\ b >= 1 /\ b - 1 <= size /\ size \in Nat BY <1>1, <1>2, <1>9
  <2>2. Len(u.lines) = IF b - 1 = size THEN b ELSE size BY <1>10
  <2> QED BY <1>3, <1>9, <2>1, <2>2
<1>12. /\ v \in Pages /\ v.at = b /\ v.sub = 0 /\ Len(v.lines) = Len(u.lines)
       /\ \A k \in 1 .. (b - 1) : v.lines[k] = q.lines[k]
       /\ \A k \in b .. Len(v.lines) : v.lines[k] = Empty
  <2>1. CutBy(u) = 0 BY <1>10 DEF CutBy
  <2>2. LET e == EraseBelow(u, w)
        IN  /\ e \in Pages /\ e.at = u.at + CutBy(u) /\ e.sub = 0 /\ e.col = 0
            /\ Len(e.lines) = Len(u.lines) + CutBy(u)
            /\ \A k \in 1 .. (u.at - 1) : e.lines[k] = u.lines[k]
            /\ \A k \in (u.at + CutBy(u)) .. Len(e.lines) : e.lines[k] = Empty
            /\ CutBy(u) = 1 => e.lines[u.at].text \notin Finished
    <3>1. w \in Nat /\ u.at \in 1 .. Len(u.lines) BY <1>2, <1>10, <1>11
    <3> QED BY <1>10, <3>1, EraseIs
  <2>3. b + 0 = b /\ Len(u.lines) + 0 = Len(u.lines) BY <1>9, <1>11
  <2> HIDE DEF v, b
  <2>4. /\ v \in Pages /\ v.at = b /\ v.sub = 0 /\ Len(v.lines) = Len(u.lines)
        /\ \A k \in 1 .. (b - 1) : v.lines[k] = u.lines[k]
        /\ \A k \in b .. Len(v.lines) : v.lines[k] = Empty
    BY <1>10, <2>1, <2>2, <2>3 DEF v, w
  <2> QED BY <1>10, <2>4
<1> HIDE DEF v
<1>13. ASSUME NEW k \in 1 .. (top - 1) PROVE v.lines[k] = p.lines[k]
  <2>1. k \in 1 .. (b - 1) /\ k \in 1 .. Len(q.lines) /\ k \notin top .. (top + n - 1)
    BY <1>1, <1>2, <1>4, <1>9 DEF size
  <2> HIDE DEF b
  <2> QED BY <1>8, <1>12, <2>1
<1>14. ASSUME NEW k \in top .. (b - 1)
       PROVE  /\ n > 0 => k - top < n /\ v.lines[k] = rows[k - top + 1]
              /\ v.lines[k].width < w
  <2>0. k \in 1 .. (b - 1) /\ k \in 1 .. Len(q.lines) /\ k \in 1 .. size /\ k \in Nat /\ k >= top
        /\ k \in top .. size
    BY <1>1, <1>2, <1>9
  <2>1. v.lines[k] = q.lines[k] BY <1>12, <2>0
  <2>2. CASE n > 0
    <3>1. k \in top .. (top + n - 1) /\ k - top < n /\ k - top + 1 \in 1 .. n BY <1>1, <1>2, <1>9, <2>2
    <3> HIDE DEF b
    <3>2. v.lines[k] = rows[k - top + 1] BY <1>8, <2>0, <2>1, <3>1
    <3>3. rows[k - top + 1].width < w BY <3>1 DEF n, w
    <3> QED BY <3>1, <3>2, <3>3
  <2>3. CASE ~(n > 0)
    <3>1. k \notin top .. (top + n - 1) BY <1>1, <1>2, <2>3
    <3>2. v.lines[k] = p.lines[k] BY <1>8, <2>0, <2>1, <3>1
    <3> QED BY <1>4, <2>0, <2>3, <3>2 DEF size, w
  <2> QED BY <2>2, <2>3
<1>15. Narrow(v.lines, top, w)
  <2>1. ASSUME NEW k \in top .. Len(v.lines) PROVE v.lines[k].width < w
    <3>0. Empty.width < w BY <1>2, EmptyIs
    <3>1. k \in top .. (b - 1) \/ k \in b .. Len(v.lines) BY <1>1, <1>9
    <3> QED BY <1>12, <1>14, <3>0, <3>1
  <2> QED BY <2>1 DEF Narrow
<1>16. z = Placed(v, b - 1, 0)
  <2> DEFINE one == 1
  <2>1. /\ v.at \in top .. Len(v.lines) /\ v.sub = 0 /\ Len(v.lines) <= top + h - 1
        /\ one \in Nat /\ one <= v.at - top
        /\ top \in Nat \ {0} /\ w \in Nat \ {0} /\ h \in Nat /\ v \in Pages /\ Narrow(v.lines, top, w)
    BY <1>1, <1>2, <1>9, <1>11, <1>12, <1>15
  <2> HIDE DEF b, one, z
  <2>2. Up(v, one, w, h) = Placed(v, v.at - one, 0) BY <2>1, UpFlat, ZenonT(60)
  <2> USE DEF one, z
  <2> QED BY <1>12, <2>2 DEF w, h
<1>17. z \in Pages /\ z.lines = v.lines /\ z.at = b - 1 /\ z.sub = 0
  <2>1. b - 1 \in Nat /\ 0 \in Nat BY <1>1, <1>9
  <2> HIDE DEF z, b
  <2> QED BY <1>12, <1>16, <2>1, PlacedIs
<1> HIDE DEF z
<1>18. ASSUME NEW k \in top .. Len(z.lines)
       PROVE  /\ k - top < n => z.lines[k] = rows[k - top + 1]
              /\ k - top >= most => z.lines[k] = Empty
  <2>1. k - top < n => k \in top .. (b - 1) /\ n > 0 BY <1>1, <1>2, <1>9
  <2>2. k - top >= most => k \in b .. Len(v.lines) BY <1>1, <1>9, <1>17
  <2> HIDE DEF b
  <2> QED BY <1>12, <1>14, <1>17, <2>1, <2>2
<1>19. z.at = top + most - 1 /\ z.at <= Len(z.lines) /\ Len(z.lines) <= top + h - 1
  BY <1>1, <1>9, <1>11, <1>12, <1>17
<1>20. \A k \in 1 .. (top - 1) : z.lines[k] = p.lines[k] BY <1>13, <1>17
<1> QED BY <1>7, <1>17, <1>18, <1>19, <1>20 DEF Almost, most, n, h

(* Whether the new frame is shorter than the old one or not, only the new   *)
(* one is left.                                                             *)
LEMMA ClearedIs ==
  ASSUME NEW t, NEW p, NEW top, Framed(t, p, top), t.cursor_row = 0, NEW rows \in Seq(Lines),
         \A i \in 1 .. Len(rows) : rows[i].width < t.width, Len(rows) < t.height
  PROVE  Almost(Cleared(p, t, rows), p, rows, top, t.height)
<1>1. Len(rows) \in Nat /\ Len(t.drawn) \in Nat
  <2>1. t \in Terms BY DEF Framed
  <2> QED BY <2>1, TermIs, LineIs
<1>2. CASE Len(rows) < Len(t.drawn) BY <1>2, ClearedSome
<1>3. CASE Len(rows) >= Len(t.drawn)
  <2> DEFINE q == Cleared(p, t, rows)
             n == Len(rows)
  <2>1. Ready(q, p, rows, top, t.height) BY <1>3, ClearedNone
  <2>0. n \in Nat BY <1>1
  <2> HIDE DEF q, n
  <2>2. n < Most(n, 1) \/ n = Most(n, 1) BY <2>0 DEF Most
  <2>3. top \in Nat /\ Most(n, 1) \in Nat BY <2>0 DEF Most, Framed
  <2>4. ASSUME NEW k \in top .. Len(q.lines)
        PROVE  /\ k - top < n => q.lines[k] = rows[k - top + 1]
               /\ k - top >= Most(n, 1) => q.lines[k] = Empty
    <3>1. q.lines[k] = IF k - top < n THEN rows[k - top + 1] ELSE Empty BY <2>1 DEF Ready, n
    <3>2. k - top >= Most(n, 1) => ~(k - top < n) BY <1>1, <2>2, <2>3 DEF n
    <3> QED BY <3>1, <3>2
  <2>5. Almost(q, p, rows, top, t.height) BY <2>1, <2>4 DEF Ready, Almost, n
  <2> QED BY <2>5 DEF q
<1> QED BY <1>1, <1>2, <1>3

(* The line of a region that has no row is blank.                           *)
LEMMA ReadyIs ==
  ASSUME NEW q, NEW p, NEW rows \in Seq(Lines), NEW top \in Nat \ {0}, NEW h, Almost(q, p, rows, top, h)
  PROVE  Ready(IF rows = <<>> THEN Put(q, Empty) ELSE q, p, rows, top, h)
<1> DEFINE n == Len(rows)
<1>1. n \in Nat /\ (rows = <<>> <=> n = 0) BY LineIs, EmptySeq
<1>2. /\ q \in Pages /\ q.at = top + Most(n, 1) - 1 /\ q.sub = 0
      /\ q.at <= Len(q.lines) /\ Len(q.lines) <= top + h - 1
      /\ \A k \in 1 .. (top - 1) : q.lines[k] = p.lines[k]
      /\ \A k \in top .. Len(q.lines) :
           /\ k - top < n => q.lines[k] = rows[k - top + 1]
           /\ k - top >= Most(n, 1) => q.lines[k] = Empty
  BY DEF Almost
<1>22. Len(q.lines) \in Nat BY <1>2, PageIs
<1> HIDE DEF n
<1>3. CASE n # 0
  <2>1. Most(n, 1) = n BY <1>1, <1>3 DEF Most
  <2>2. ASSUME NEW k \in top .. Len(q.lines)
        PROVE  q.lines[k] = IF k - top < n THEN rows[k - top + 1] ELSE Empty
    <3>1. k - top < n \/ k - top >= n BY <1>1
    <3> QED BY <1>2, <2>1, <3>1
  <2>3. Ready(q, p, rows, top, h) BY <1>2, <2>2 DEF Ready, n
  <2> QED BY <1>1, <1>3, <2>3
<1>4. CASE n = 0
  <2> DEFINE v == Put(q, Empty)
  <2>1. Most(n, 1) = 1 /\ q.at = top BY <1>2, <1>4 DEF Most
  <2>2. LET u == Put(q, Empty)
        IN  /\ u \in Pages /\ u.at = q.at /\ u.sub = q.sub /\ u.col = q.col
            /\ Len(u.lines) = Len(q.lines)
            /\ \A k \in 1 .. Len(q.lines) : u.lines[k] = IF k = q.at THEN Empty ELSE q.lines[k]
    BY <1>2, EmptyIs, PutIs
  <2> HIDE DEF v
  <2>3. /\ v \in Pages /\ v.at = q.at /\ v.sub = q.sub /\ Len(v.lines) = Len(q.lines)
        /\ \A k \in 1 .. Len(q.lines) : v.lines[k] = IF k = top THEN Empty ELSE q.lines[k]
    BY <2>1, <2>2 DEF v
  <2>4. ASSUME NEW k \in top .. Len(v.lines)
        PROVE  v.lines[k] = IF k - top < n THEN rows[k - top + 1] ELSE Empty
    <3>1. k \in 1 .. Len(q.lines) /\ k \in top .. Len(q.lines) /\ ~(k - top < n)
          /\ (k # top => k - top >= 1)
      BY <1>22, <1>4, <2>3
    <3> QED BY <1>2, <2>1, <2>3, <3>1
  <2>5. ASSUME NEW k \in 1 .. (top - 1) PROVE v.lines[k] = p.lines[k]
    <3>1. k \in 1 .. Len(q.lines) /\ k # top BY <1>2, <1>22, <2>1
    <3> QED BY <1>2, <2>3, <3>1
  <2>6. Ready(v, p, rows, top, h) BY <1>2, <2>3, <2>4, <2>5 DEF Ready, n
  <2> QED BY <1>1, <1>4, <2>6 DEF v
<1> QED BY <1>3, <1>4

(* draw_rows: a region that is framed, the cursor on its first line, is     *)
(* framed again and nothing above it changes.                               *)
LEMMA DrawIs ==
  ASSUME NEW t, NEW p, NEW top, Framed(t, p, top), t.cursor_row = 0, NEW f \in Frames \cup {NoFrame}
  PROVE  LET s == draw_rows([t |-> t, p |-> p], f)
         IN  /\ Framed(s.t, s.p, top) /\ s.t.width = t.width /\ s.t.height = t.height
             /\ \A k \in 1 .. (top - 1) : s.p.lines[k] = p.lines[k]
             /\ f = NoFrame => s.t.drawn = <<>>
<1> DEFINE w == t.width
           h == t.height
           rows == RowsDrawn(f, w, h)
           widths == WidthsDrawn(f, w, h)
           n == Len(rows)
           skip == Len(f.lines) - n
           p2 == Cleared(p, t, rows)
           q == IF rows = <<>> THEN Put(p2, Empty) ELSE p2
           p3 == Column(q, 0)
           last == Minus(n, 1)
           carets == {c \in f.caret : c.row >= skip /\ c.row - skip < n}
           parked == CHOOSE c \in carets : TRUE
           row == IF carets = {} THEN last ELSE parked.row - skip
           u == [t EXCEPT !.drawn = rows, !.drawn_widths = widths, !.cursor_row = row,
                          !.cursor_visible = carets # {}]
           z == IF carets = {} THEN p3
                ELSE Column(Up(p3, last - row, w, h), Least(parked.col, w - 1))
           s == draw_rows([t |-> t, p |-> p], f)
<1>1. s = [t |-> u, p |-> z] BY DEF draw_rows, RowsDrawn, WidthsDrawn, Cleared
<1>2. t \in Terms /\ p \in Pages /\ top \in Nat \ {0} BY DEF Framed
<1>3. w \in Nat \ {0} /\ w > 1 /\ h \in Nat \ {0} /\ w \in Widths /\ h \in Heights BY <1>2, TermIs
<1> HIDE DEF s, z, u, row, parked, carets, p3, q, p2, skip
<1>4. /\ rows \in Seq(Cells(Passing)) /\ rows \in Seq(Lines) /\ n \in Nat
      /\ n < h /\ n <= Len(f.lines) /\ (\A i \in 1 .. n : rows[i].width < w)
      /\ f = NoFrame => rows = <<>>
      /\ widths \in Seq(Nat) /\ Len(widths) = n /\ \A i \in 1 .. n : widths[i] <= rows[i].width
  <2> HIDE DEF w, h, rows, widths
  <2>1. LET r == RowsDrawn(f, w, h)
            x == WidthsDrawn(f, w, h)
        IN  /\ r \in Seq(Cells(Passing)) /\ r \in Seq(Lines) /\ Len(r) \in Nat
            /\ Len(r) < h /\ Len(r) <= Len(f.lines)
            /\ \A i \in 1 .. Len(r) : r[i].width < w
            /\ x \in Seq(Nat) /\ Len(x) = Len(r) /\ \A i \in 1 .. Len(r) : x[i] <= r[i].width
            /\ f = NoFrame => r = <<>>
    BY <1>3, RowsDrawnIs
  <2> QED BY <2>1 DEF rows, widths
<1> HIDE DEF rows, widths
<1>5. Ready(q, p, rows, top, h)
  <2>1. Almost(p2, p, rows, top, h) BY <1>4, ClearedIs DEF p2
  <2> HIDE DEF h
  <2> QED BY <1>2, <1>4, <2>1, ReadyIs DEF q
<1> HIDE DEF w, h
<1>6. /\ p3 \in Pages /\ p3.at = top + Most(n, 1) - 1 /\ p3.sub = 0 /\ p3.col = 0
      /\ p3.at <= Len(p3.lines) /\ Len(p3.lines) <= top + h - 1
      /\ \A k \in 1 .. (top - 1) : p3.lines[k] = p.lines[k]
      /\ \A k \in top .. Len(p3.lines) :
           p3.lines[k] = IF k - top < n THEN rows[k - top + 1] ELSE Empty
  <2>1. q \in Pages /\ 0 \in Nat BY <1>5 DEF Ready
  <2>2. p3 \in Pages /\ p3.lines = q.lines /\ p3.at = q.at /\ p3.sub = q.sub /\ p3.col = 0
    BY <2>1, ColumnIs DEF p3
  <2> QED BY <1>5, <2>2 DEF Ready
<1>7. last \in Nat /\ (n > 0 => last = n - 1) /\ (n = 0 => last = 0) /\ Most(n, 1) - 1 = last
      /\ Most(n, 1) \in Nat /\ last < Most(n, 1)
  <2>1. n \in Nat BY <1>4
  <2> HIDE DEF n
  <2>2. last = IF n - 1 > 0 THEN n - 1 ELSE 0 BY DEF Minus, Most
  <2>3. Most(n, 1) = IF n > 1 THEN n ELSE 1 BY DEF Most
  <2> HIDE DEF last
  <2> QED BY <2>1, <2>2, <2>3
<1>8. row \in Nat /\ row <= last /\ row < Most(n, 1)
      /\ (carets # {} => n > 0 /\ Least(parked.col, w - 1) \in Nat)
  <2>1. CASE carets = {} BY <1>7, <2>1 DEF row
  <2>2. CASE carets # {}
    <3>1. parked \in carets BY <2>2 DEF parked
    <3>2. parked \in [row : Nat, col : Nat] /\ parked.row >= skip /\ parked.row - skip < n
      BY <3>1, FrameIs DEF carets
    <3>3. parked.row \in Nat /\ parked.col \in Nat BY <3>2
    <3>4. skip \in Nat BY <1>4, FrameIs DEF skip
    <3>5. Least(parked.col, w - 1) \in Nat BY <1>3, <3>3 DEF Least
    <3>6. row = parked.row - skip BY <2>2 DEF row
    <3> HIDE DEF last
    <3> QED BY <1>4, <1>7, <3>2, <3>3, <3>4, <3>5, <3>6
  <2> QED BY <2>1, <2>2
<1> HIDE DEF last
<1>9. Len(p3.lines) \in Nat /\ p3.at = top + last /\ p3.at \in top .. Len(p3.lines)
      /\ p3.at - (last - row) = top + row
  <2>1. Len(p3.lines) \in Nat BY <1>6, PageIs
  <2> QED BY <1>2, <1>6, <1>7, <1>8, <2>1
<1>10. Narrow(p3.lines, top, w)
  <2>1. ASSUME NEW k \in top .. Len(p3.lines) PROVE p3.lines[k].width < w
    <3>1. Empty.width < w BY <1>3, EmptyIs
    <3>2. k - top < n => k - top + 1 \in 1 .. n BY <1>2, <1>4
    <3> QED BY <1>4, <1>6, <3>1, <3>2
  <2> QED BY <2>1 DEF Narrow
<1>11. /\ z \in Pages /\ z.lines = p3.lines /\ z.at = top + row /\ z.sub = 0
       /\ rows = <<>> => z.col = 0
  <2>1. CASE carets = {}
    <3>1. z = p3 /\ row = last BY <2>1 DEF z, row
    <3> QED BY <1>6, <1>9, <3>1
  <2>2. CASE carets # {}
    <3> DEFINE m == last - row
               c == Least(parked.col, w - 1)
               v == Placed(p3, p3.at - m, 0)
    <3>1. z = Column(Up(p3, m, w, h), c) BY <2>2 DEF z
    <3>2. m \in Nat /\ m <= p3.at - top BY <1>2, <1>7, <1>8, <1>9
    <3>3. c \in Nat /\ n > 0 BY <1>8, <2>2
    <3>4. p3.at - m \in Nat /\ 0 \in Nat /\ p3.at - m = top + row BY <1>2, <1>8, <1>9
    <3>5. /\ p3 \in Pages /\ w \in Nat \ {0} /\ h \in Nat /\ top \in Nat \ {0}
          /\ p3.at \in top .. Len(p3.lines) /\ p3.sub = 0 /\ Len(p3.lines) <= top + h - 1
      BY <1>2, <1>3, <1>6, <1>9
    <3> HIDE DEF m, c
    <3>6. Up(p3, m, w, h) = v BY <1>10, <3>2, <3>5, UpFlat, ZenonT(60)
    <3>69. p3 \in Pages /\ p3.at - m \in Nat /\ 0 \in Nat BY <3>4, <3>5
    <3>70. /\ Placed(p3, p3.at - m, 0) \in Pages /\ Placed(p3, p3.at - m, 0).lines = p3.lines
           /\ Placed(p3, p3.at - m, 0).at = p3.at - m /\ Placed(p3, p3.at - m, 0).sub = 0
      BY <3>69, PlacedIs, ZenonT(60)
    <3>7. v \in Pages /\ v.lines = p3.lines /\ v.at = top + row /\ v.sub = 0
      BY <3>4, <3>70
    <3> HIDE DEF v
    <3>8. z \in Pages /\ z.lines = v.lines /\ z.at = v.at /\ z.sub = v.sub
      BY <3>1, <3>3, <3>6, <3>7, ColumnIs
    <3>9. rows # <<>>
      <4>1. Len(<<>>) = 0 OBVIOUS
      <4> QED BY <3>3, <4>1
    <3> QED BY <3>7, <3>8, <3>9
  <2> QED BY <2>1, <2>2
<1>12. /\ u \in Terms /\ u.drawn = rows /\ u.drawn_widths = widths /\ u.cursor_row = row /\ u.width = w /\ u.height = h
  <2>1. (carets # {}) \in BOOLEAN OBVIOUS
  <2> QED BY <1>2, <1>4, <1>8, <2>1 DEF Terms, u, w, h
<1>13. Framed(u, z, top)
  <2>1. top + Most(n, 1) - 1 <= Len(z.lines) BY <1>6, <1>11
  <2>2. Len(z.lines) <= top + h - 1 BY <1>6, <1>11
  <2> HIDE DEF n
  <2>3. \A k \in top .. Len(z.lines) :
          z.lines[k] = IF k - top < n THEN rows[k - top + 1] ELSE Empty
    BY <1>6, <1>11
  <2>4. n = Len(u.drawn) BY <1>12 DEF n
  <2>5. Counted(u) BY <1>4, <1>12, <2>4 DEF Counted
  <2> QED BY <1>2, <1>4, <1>8, <1>11, <1>12, <2>1, <2>2, <2>3, <2>4, <2>5 DEF Framed
<1>14. s.t = u /\ s.p = z BY <1>1
<1> QED BY <1>4, <1>6, <1>11, <1>12, <1>13, <1>14 DEF s, w, h

(* Lists of the same length with the same elements are equal.               *)
LEMMA SameLists ==
  ASSUME NEW S, NEW a \in Seq(S), NEW b \in Seq(S), Len(a) = Len(b),
         \A i \in 1 .. Len(a) : a[i] = b[i]
  PROVE  a = b
BY SeqEqual

(* History's lines among the first k, and those of a run of finished rows.  *)
LEMMA FinishedJoin ==
  ASSUME NEW l \in Seq(Lines), NEW k \in Nat, NEW rows \in Seq(Cells(Finished)),
         k + Len(rows) <= Len(l), \A i \in 1 .. Len(rows) : l[k + i] = rows[i]
  PROVE  FinishedTo(l, k + Len(rows)) = FinishedTo(l, k) \o rows
<1> DEFINE n == Len(rows)
           F(i) == FinishedTo(l, k + i)
           a == FinishedTo(l, k)
           Good(i) == /\ Len(F(i)) = Len(a) + i
                      /\ \A j \in 1 .. Len(a) : F(i)[j] = a[j]
                      /\ \A j \in 1 .. i : F(i)[Len(a) + j] = rows[j]
           Bad == {i \in 0 .. n : ~Good(i)}
<1>0. n \in Nat /\ Len(l) \in Nat /\ \A i \in 1 .. n : rows[i].text \in Finished /\ rows[i] \in Lines
  <2>1. \A i \in 1 .. n : rows[i] \in Cells(Finished) OBVIOUS
  <2>2. \A c \in Cells(Finished) : c.text \in Finished /\ c \in Lines BY DEF Cells, Lines
  <2> QED BY <2>1, <2>2, LineIs
<1>1. \A i \in 0 .. n : F(i) \in Seq(Lines)
  <2> TAKE i \in 0 .. n
  <2>1. k + i \in 0 .. Len(l) BY <1>0
  <2> QED BY <2>1, FinishedToIs
<1>2. F(0) = a /\ a \in Seq(Lines) /\ Len(a) \in Nat
  <2>1. k + 0 = k /\ 0 \in 0 .. n BY <1>0
  <2>2. F(0) = a BY <2>1
  <2> HIDE DEF F, a
  <2> QED BY <1>1, <2>1, <2>2
<1>3. \A i \in 1 .. n : F(i) = Append(F(i - 1), rows[i])
  <2> TAKE i \in 1 .. n
  <2> DEFINE c == k + i
  <2>1. c \in 1 .. Len(l) /\ c - 1 = k + (i - 1) BY <1>0
  <2>2. l[c].text \in Finished /\ l[c] = rows[i] BY <1>0
  <2> HIDE DEF c
  <2>3. FinishedTo(l, c) = Append(FinishedTo(l, c - 1), rows[i]) BY <2>1, <2>2, FinishedToIs
  <2> QED BY <2>1, <2>3 DEF c
<1> HIDE DEF F, a, n
<1>4. Bad = {}
  <2> SUFFICES ASSUME Bad # {} PROVE FALSE OBVIOUS
  <2>0. Bad \in SUBSET Nat BY <1>0
  <2>1. PICK m \in Bad : \A x \in Bad : m <= x BY <2>0, MinOf
  <2>2. m # 0
    <3>1. Good(0) BY <1>2
    <3> QED BY <2>1, <3>1
  <2>3. m - 1 \in 0 .. n /\ ~(m <= m - 1) /\ m \in 1 .. n /\ m \in Nat BY <1>0, <2>1, <2>2
  <2>4. Good(m - 1) BY <2>1, <2>3
  <2>5. F(m - 1) \in Seq(Lines) /\ rows[m] \in Lines /\ F(m) = Append(F(m - 1), rows[m])
    BY <1>0, <1>1, <1>3, <2>3
  <2>6. /\ Len(F(m)) = Len(F(m - 1)) + 1
        /\ \A j \in 1 .. Len(F(m - 1)) : F(m)[j] = F(m - 1)[j]
        /\ F(m)[Len(F(m - 1)) + 1] = rows[m]
    BY <2>5, AppendProperties
  <2>7. Len(F(m - 1)) = Len(a) + (m - 1) BY <2>4
  <2>8. Len(F(m)) = Len(a) + m BY <1>2, <2>3, <2>6, <2>7
  <2>9. ASSUME NEW j \in 1 .. Len(a) PROVE F(m)[j] = a[j]
    <3>1. j \in 1 .. Len(F(m - 1)) BY <1>2, <2>3, <2>7
    <3> QED BY <2>4, <2>6, <3>1
  <2>10. ASSUME NEW j \in 1 .. m PROVE F(m)[Len(a) + j] = rows[j]
    <3>1. CASE j = m
      <4>1. Len(F(m - 1)) + 1 = Len(a) + m
        <5> DEFINE x == Len(F(m - 1))
        <5>1. x = Len(a) + (m - 1) BY <2>7
        <5> HIDE DEF x
        <5>2. x + 1 = Len(a) + m BY <1>2, <2>3, <5>1
        <5> QED BY <5>2 DEF x
      <4> QED BY <2>6, <3>1, <4>1
    <3>2. CASE j # m
      <4>1. j \in 1 .. (m - 1) /\ Len(a) + j \in 1 .. Len(F(m - 1)) BY <1>2, <2>3, <2>7, <3>2
      <4>2. F(m)[Len(a) + j] = F(m - 1)[Len(a) + j] BY <2>6, <4>1
      <4>3. F(m - 1)[Len(a) + j] = rows[j] BY <2>4, <4>1
      <4> QED BY <4>2, <4>3
    <3> QED BY <3>1, <3>2
  <2>11. Good(m) BY <2>8, <2>9, <2>10
  <2> QED BY <2>1, <2>11
<1>5. Good(n) /\ F(n) \in Seq(Lines)
  <2>1. n \in 0 .. n BY <1>0
  <2> QED BY <1>1, <1>4, <2>1
<1>6. rows \in Seq(Lines)
  <2>1. Cells(Finished) \subseteq Lines BY DEF Cells, Lines
  <2> QED BY <2>1
<1>7. F(n) = a \o rows
  <2> DEFINE b == a \o rows
  <2>1. /\ b \in Seq(Lines) /\ Len(b) = Len(a) + n
        /\ \A i \in 1 .. Len(a) : b[i] = a[i]
        /\ \A i \in 1 .. n : b[Len(a) + i] = rows[i]
    BY <1>2, <1>6, Joined DEF n
  <2> HIDE DEF b
  <2>2. ASSUME NEW i \in 1 .. Len(F(n)) PROVE F(n)[i] = b[i]
    <3>1. CASE i <= Len(a)
      <4>1. i \in 1 .. Len(a) BY <1>2, <3>1
      <4> QED BY <1>5, <2>1, <4>1
    <3>2. CASE ~(i <= Len(a))
      <4> DEFINE j == i - Len(a)
      <4>1. j \in 1 .. n /\ Len(a) + j = i BY <1>0, <1>2, <1>5, <3>2
      <4> HIDE DEF j
      <4>2. F(n)[Len(a) + j] = rows[j] /\ b[Len(a) + j] = rows[j] BY <1>5, <2>1, <4>1
      <4> QED BY <4>1, <4>2
    <3> QED BY <3>1, <3>2
  <2>3. F(n) = b BY <1>5, <2>1, <2>2, SameLists
  <2> QED BY <2>3 DEF b
<1> QED BY <1>7 DEF F, a, n

(* A region of which nothing is drawn, its line and those below erased.     *)
LEMMA BlankIs ==
  ASSUME NEW t \in Terms, t.drawn = <<>>, t.drawn_widths = <<>>, t.cursor_row = 0, NEW p \in Pages,
         p.at \in 1 .. Len(p.lines), Len(p.lines) <= p.at + t.height - 1, NEW w \in Nat
  PROVE  LET q == EraseBelow(p, w)
         IN  /\ Framed(t, q, p.at + CutBy(p))
             /\ \A k \in 1 .. (p.at - 1) : q.lines[k] = p.lines[k]
             /\ CutBy(p) = 1 => q.lines[p.at].text \notin Finished
<1> DEFINE q == EraseBelow(p, w)
           d == CutBy(p)
           a == p.at
           n == Len(p.lines)
           h == t.height
<1>1. a \in Nat /\ n \in Nat /\ d \in {0, 1} /\ h \in Nat /\ h > 1 /\ Len(t.drawn) = 0
      /\ a \in 1 .. n /\ n <= a + h - 1
  BY PageIs, TermIs DEF CutBy
<1>2. /\ q \in Pages /\ q.at = a + d /\ q.sub = 0 /\ q.col = 0
      /\ Len(q.lines) = n + d
      /\ \A k \in 1 .. (a - 1) : q.lines[k] = p.lines[k]
      /\ \A k \in (a + d) .. Len(q.lines) : q.lines[k] = Empty
      /\ d = 1 => q.lines[a].text \notin Finished
  <2>1. LET e == EraseBelow(p, w)
        IN  /\ e \in Pages /\ e.at = p.at + CutBy(p) /\ e.sub = 0 /\ e.col = 0
            /\ Len(e.lines) = Len(p.lines) + CutBy(p)
            /\ \A k \in 1 .. (p.at - 1) : e.lines[k] = p.lines[k]
            /\ \A k \in (p.at + CutBy(p)) .. Len(e.lines) : e.lines[k] = Empty
            /\ CutBy(p) = 1 => e.lines[p.at].text \notin Finished
    BY EraseIs
  <2> HIDE DEF d
  <2> QED BY <2>1 DEF d
<1> HIDE DEF q, d, a, n, h
<1>3. a + d \in Nat \ {0} /\ a + d + 1 - 1 <= n + d /\ n + d <= a + d + h - 1 /\ a + d + 0 = a + d
  BY <1>1
<1>4. Most(0, 1) = 1 /\ 0 < 1 BY DEF Most
<1>5. ASSUME NEW k \in (a + d) .. Len(q.lines)
      PROVE  q.lines[k] = IF k - (a + d) < 0 THEN t.drawn[k - (a + d) + 1] ELSE Empty
  <2>1. ~(k - (a + d) < 0) BY <1>3
  <2> QED BY <1>2, <2>1
<1>6. Framed(t, q, a + d)
  <2>1. 0 < h /\ \A k \in 1 .. 0 : t.drawn[k].width < t.width BY <1>1
  <2> DEFINE b == a + d
             c == 0
  <2>2. /\ b \in Nat \ {0} /\ b + 1 - 1 <= Len(q.lines) /\ Len(q.lines) <= b + h - 1 /\ b + c = b
        /\ Len(t.drawn) = c /\ t.cursor_row = c /\ Most(c, 1) = 1 /\ c < 1 /\ c < h
        /\ q.at = b
        /\ \A k \in b .. Len(q.lines) : q.lines[k] = IF k - b < c THEN t.drawn[k - b + 1] ELSE Empty
        /\ \A k \in 1 .. c : t.drawn[k].width < t.width
    BY <1>1, <1>2, <1>3, <1>4, <1>5, <2>1
  <2>3. Counted(t) BY <1>1 DEF Counted
  <2> HIDE DEF b, c
  <2> QED BY <1>2, <2>2, <2>3 DEF Framed, h, b
<1> QED BY <1>2, <1>6 DEF q, d, a

(* What a forgotten region leaves of the belief.                            *)
LEMMA ForgetIs ==
  ASSUME NEW t \in Terms
  PROVE  /\ Forget(t) \in Terms /\ Forget(t).drawn = <<>> /\ Forget(t).drawn_widths = <<>> /\ Forget(t).cursor_row = 0
         /\ Forget(t).width = t.width /\ Forget(t).height = t.height
         /\ [t EXCEPT !.cursor_row = 0] \in Terms
         /\ [t EXCEPT !.cursor_row = 0].width = t.width
         /\ [t EXCEPT !.cursor_row = 0].height = t.height
         /\ [t EXCEPT !.cursor_row = 0].drawn = t.drawn
         /\ [t EXCEPT !.cursor_row = 0].cursor_row = 0
         /\ Forget([t EXCEPT !.cursor_row = 0]) = Forget(t)
<1>1. <<>> \in Seq(Cells(Passing)) /\ <<>> \in Seq(Nat) /\ 0 \in Nat OBVIOUS
<1> QED BY <1>1 DEF Forget, Terms

(* clear_live: the region is empty, what is above it stays.                 *)
LEMMA ClearIs ==
  ASSUME NEW t, NEW p, NEW top, Framed(t, p, top)
  PROVE  LET s == clear_live([t |-> t, p |-> p])
         IN  /\ Framed(s.t, s.p, top) /\ s.t = Forget(t) /\ s = [t |-> s.t, p |-> s.p]
             /\ \A k \in 1 .. (top - 1) : s.p.lines[k] = p.lines[k]
<1> DEFINE u == [t EXCEPT !.cursor_row = 0]
           q == Column(Placed(p, top, 0), 0)
           z == EraseBelow(q, t.width)
           s == clear_live([t |-> t, p |-> p])
<1>1. move_to_top([t |-> t, p |-> p]) = [t |-> u, p |-> q] /\ Framed(u, q, top) /\ q.lines = p.lines
  BY MoveIs
<1>2. t \in Terms /\ top \in Nat \ {0} BY DEF Framed
<1>3. Forget(u) = Forget(t) BY <1>2, ForgetIs
<1>4. s = [t |-> Forget(t), p |-> z] BY <1>1, <1>3 DEF clear_live
<1>5. Forget(t) \in Terms /\ Forget(t).drawn = <<>> /\ Forget(t).drawn_widths = <<>> /\ Forget(t).cursor_row = 0 /\ Forget(t).height = t.height
  BY <1>2, ForgetIs
<1>6. /\ q \in Pages /\ q.at = top /\ q.sub = 0 /\ q.at \in 1 .. Len(q.lines)
      /\ Len(q.lines) <= q.at + t.height - 1 /\ t.width \in Nat
  <2>1. u.cursor_row = 0 /\ u.height = t.height BY <1>2, ForgetIs
  <2>2. q.at \in 1 .. Len(q.lines) BY <1>1, FramedFlat
  <2>3. top + 0 = top BY <1>2
  <2>4. q \in Pages /\ q.at = top + u.cursor_row /\ q.sub = 0 /\ Len(q.lines) <= top + u.height - 1
    BY <1>1 DEF Framed
  <2>5. t.width \in Nat BY <1>2, TermIs
  <2> HIDE DEF q, u
  <2> QED BY <2>1, <2>2, <2>3, <2>4, <2>5
<1> HIDE DEF q, u, s
<1>7. CutBy(q) = 0 /\ top + 0 = top BY <1>2, <1>6 DEF CutBy
<1>8. LET e == EraseBelow(q, t.width)
      IN  /\ Framed(Forget(t), e, q.at + CutBy(q))
          /\ \A k \in 1 .. (q.at - 1) : e.lines[k] = q.lines[k]
          /\ CutBy(q) = 1 => e.lines[q.at].text \notin Finished
  BY <1>5, <1>6, BlankIs
<1> HIDE DEF z
<1>9. Framed(Forget(t), z, top) /\ \A k \in 1 .. (top - 1) : z.lines[k] = p.lines[k]
  BY <1>1, <1>6, <1>7, <1>8 DEF z
<1> QED BY <1>4, <1>9 DEF s

(* print: the rows are on the lines from the region's first on, cut to the  *)
(* window, and the region starts below them.                                *)
LEMMA PrintIs ==
  ASSUME NEW t, NEW p, NEW top, Framed(t, p, top), NEW rows \in Seq(Spans(Finished)),
         NEW f \in Frames \cup {NoFrame}
  PROVE  LET s == print([t |-> t, p |-> p], rows, f)
         IN  /\ Framed(s.t, s.p, top + Len(rows)) /\ s.t.width = t.width /\ s.t.height = t.height
             /\ FinishedTo(s.p.lines, top + Len(rows) - 1)
                  = FinishedTo(p.lines, top - 1) \o EncodeRows(rows, t.width)
             /\ f = NoFrame => s.t.drawn = <<>>
<1> DEFINE u == [t EXCEPT !.cursor_row = 0]
           q == Column(Placed(p, top, 0), 0)
           w == t.width
           h == t.height
           m == Len(rows)
           v == WriteRows(q, rows, w)
           z == EraseBelow(v, w)
           s == print([t |-> t, p |-> p], rows, f)
           b == top + m
           cut == EncodeRows(rows, w)
<1>1. move_to_top([t |-> t, p |-> p]) = [t |-> u, p |-> q] /\ Framed(u, q, top) /\ q.lines = p.lines
  BY MoveIs
<1>2. t \in Terms /\ top \in Nat \ {0} /\ p \in Pages BY DEF Framed
<1>3. w \in Nat \ {0} /\ h \in Nat \ {0} /\ h > 1 /\ m \in Nat BY <1>2, TermIs
<1>4. s = draw_rows([t |-> Forget(t), p |-> z], f)
  <2>1. Forget(u) = Forget(t) BY <1>2, ForgetIs
  <2> HIDE DEF z
  <2> QED BY <1>1, <2>1 DEF print, z
<1>5. /\ Forget(t) \in Terms /\ Forget(t).drawn = <<>> /\ Forget(t).drawn_widths = <<>> /\ Forget(t).cursor_row = 0
      /\ Forget(t).height = h /\ Forget(t).width = w
  BY <1>2, ForgetIs
<1>6. q \in Pages /\ q.at = top /\ q.sub = 0 /\ top \in 1 .. Len(q.lines) /\ Len(q.lines) <= top + h - 1
      /\ Len(q.lines) \in Nat
  <2>1. u.cursor_row = 0 /\ u.height = h BY <1>2, ForgetIs
  <2>2. top \in 1 .. Len(q.lines) BY <1>1, FramedFlat
  <2>3. top + 0 = top BY <1>2
  <2>4. q \in Pages /\ q.at = top + u.cursor_row /\ q.sub = 0 /\ Len(q.lines) <= top + u.height - 1
    BY <1>1 DEF Framed
  <2>5. q.lines \in Seq(Lines) BY <2>4, PageIs
  <2> HIDE DEF q, u, h
  <2> QED BY <2>1, <2>2, <2>3, <2>4, <2>5
<1> HIDE DEF q, u, s
<1>7. rows \in Seq(Given)
  <2>1. Spans(Finished) \subseteq Given BY DEF Spans, Given
  <2> QED BY <2>1
<1>8. /\ cut \in Seq(Cells(Finished)) /\ Len(cut) = m
      /\ \A i \in 1 .. m : cut[i] = encode_row(rows[i], w)
  <2>1. Finished \in SUBSET (Finished \cup Passing) OBVIOUS
  <2> HIDE DEF w
  <2> QED BY <1>3, <2>1, EncodeRowsIs
<1> HIDE DEF cut
<1>9. WrittenTo(v, q, rows, w, top, m)
  <2> HIDE DEF w
  <2> QED BY <1>3, <1>6, <1>7, WriteRowsIs
<1> HIDE DEF v, w, h, m
<1>10. b \in Nat \ {0} /\ top + m - 1 = b - 1 /\ b - 1 = top - 1 + m /\ top - 1 \in Nat
  BY <1>2, <1>3
<1>11. /\ v \in Pages /\ v.at = b /\ v.sub = 0 /\ v.at \in 1 .. Len(v.lines)
       /\ Len(v.lines) <= v.at + h - 1
       /\ \A k \in 1 .. (top - 1) : v.lines[k] = q.lines[k]
       /\ \A k \in top .. (b - 1) : v.lines[k] = encode_row(rows[k - top + 1], w)
  <2>1. /\ v \in Pages /\ v.at = b /\ v.sub = 0
        /\ Len(v.lines) = Most(Len(q.lines), b)
        /\ \A k \in 1 .. (top - 1) : v.lines[k] = q.lines[k]
        /\ \A k \in top .. (b - 1) : v.lines[k] = encode_row(rows[k - top + 1], w)
    BY <1>9, <1>10 DEF WrittenTo
  <2>2. v.at \in 1 .. Len(v.lines) /\ Len(v.lines) <= v.at + h - 1
    BY <1>2, <1>3, <1>6, <2>1 DEF Most
  <2> QED BY <2>1, <2>2
<1> HIDE DEF b
<1>12. /\ Framed(Forget(t), z, b)
       /\ \A k \in 1 .. (b - 1) : z.lines[k] = v.lines[k]
  <2>1. CutBy(v) = 0 /\ b + 0 = b BY <1>10, <1>11 DEF CutBy
  <2>2. w \in Nat BY <1>3
  <2>3. LET e == EraseBelow(v, w)
        IN  /\ Framed(Forget(t), e, v.at + CutBy(v))
            /\ \A k \in 1 .. (v.at - 1) : e.lines[k] = v.lines[k]
            /\ CutBy(v) = 1 => e.lines[v.at].text \notin Finished
    BY <1>5, <1>11, <2>2, BlankIs
  <2> HIDE DEF z
  <2> QED BY <1>11, <2>1, <2>3 DEF z
<1> HIDE DEF z
<1>13. /\ Framed(s.t, s.p, b) /\ s.t.width = w /\ s.t.height = h
       /\ \A k \in 1 .. (b - 1) : s.p.lines[k] = z.lines[k]
       /\ f = NoFrame => s.t.drawn = <<>>
  <2>1. LET r == draw_rows([t |-> Forget(t), p |-> z], f)
        IN  /\ Framed(r.t, r.p, b) /\ r.t.width = Forget(t).width /\ r.t.height = Forget(t).height
            /\ \A k \in 1 .. (b - 1) : r.p.lines[k] = z.lines[k]
            /\ f = NoFrame => r.t.drawn = <<>>
    BY <1>5, <1>12, DrawIs
  <2> QED BY <1>4, <1>5, <2>1
<1> DEFINE l == s.p.lines
<1>14. l \in Seq(Lines) /\ Len(l) \in Nat /\ b - 1 <= Len(l)
  <2>1. s.p \in Pages /\ b \in 1 .. Len(l) BY <1>13, FramedFlat DEF Framed
  <2>2. l \in Seq(Lines) /\ Len(l) \in Nat BY <2>1, PageIs
  <2> HIDE DEF l
  <2> QED BY <1>10, <2>1, <2>2
<1> HIDE DEF l
<1>15. ASSUME NEW k \in 1 .. (top - 1) PROVE l[k] = p.lines[k]
  <2>1. k \in 1 .. (b - 1) BY <1>2, <1>3, <1>10
  <2> QED BY <1>1, <1>11, <1>12, <1>13, <2>1 DEF l
<1>16. ASSUME NEW i \in 1 .. m PROVE l[top - 1 + i] = cut[i]
  <2> DEFINE k == top - 1 + i
  <2>1. k \in 1 .. (b - 1) /\ k \in top .. (b - 1) /\ k - top + 1 = i BY <1>2, <1>3, <1>10
  <2> HIDE DEF k
  <2>2. l[k] = encode_row(rows[k - top + 1], w) BY <1>11, <1>12, <1>13, <2>1 DEF l
  <2>3. l[k] = cut[i] BY <1>8, <2>1, <2>2
  <2> QED BY <2>3 DEF k
<1>17. FinishedTo(l, top - 1 + m) = FinishedTo(l, top - 1) \o cut
  <2> DEFINE c == top - 1
  <2>1. c \in Nat /\ c + m <= Len(l) /\ (\A i \in 1 .. m : l[c + i] = cut[i]) /\ Len(cut) = m
    BY <1>8, <1>10, <1>14, <1>16
  <2> HIDE DEF c
  <2>2. FinishedTo(l, c + Len(cut)) = FinishedTo(l, c) \o cut BY <1>8, <1>14, <2>1, FinishedJoin
  <2> QED BY <2>1, <2>2 DEF c
<1>18. FinishedTo(l, top - 1) = FinishedTo(p.lines, top - 1)
  <2> DEFINE c == top - 1
  <2>0. p.lines \in Seq(Lines) BY <1>2, PageIs
  <2>1. c \in Nat /\ c <= Len(l) /\ c <= Len(p.lines) /\ \A k \in 1 .. c : l[k] = p.lines[k]
    BY <1>1, <1>2, <1>3, <1>6, <1>10, <1>14, <1>15
  <2> HIDE DEF c
  <2>2. FinishedTo(l, c) = FinishedTo(p.lines, c) BY <1>14, <2>0, <2>1, FinishedSame
  <2> QED BY <2>2 DEF c
<1> QED BY <1>10, <1>13, <1>17, <1>18 DEF s, l, b, m, w, h, cut

(* What the terminal's reflow leaves of a framed region: the lines that have*)
(* room, the cursor in its own.                                             *)
LEMMA ReflowedIs ==
  ASSUME NEW t, NEW p, NEW top, Framed(t, p, top), NEW w \in Nat \ {0}, NEW h \in Nat \ {0}
  PROVE  LET r == Reflowed(p, w, h)
         IN  /\ r \in Pages /\ r.at = p.at /\ r.at \in top .. Len(r.lines)
             /\ r.sub < Height(r.lines[r.at], w)
             /\ Len(r.lines) <= Len(p.lines) /\ Len(r.lines) <= p.at + h - 1
             /\ \A k \in 1 .. Len(r.lines) : r.lines[k] = p.lines[k]
             /\ p.col < w => r.sub = 0
<1> DEFINE m == Least(Len(p.lines), p.at + h - 1)
           n == Len(p.lines)
           tall == Height(p.lines[p.at], w)
           sub == Least(p.col \div w, tall - 1)
           r == Reflowed(p, w, h)
<1>1. p \in Pages /\ top \in Nat \ {0} /\ p.at \in top .. n /\ p.at \in 1 .. n BY FramedFlat DEF Framed
<1>2. p.lines \in Seq(Lines) /\ n \in Nat /\ p.at \in Nat /\ p.col \in Nat /\ p.lines[p.at].width \in Nat
  BY <1>1, PageIs
<1>3. tall \in Nat \ {0} BY <1>2, HeightIs
<1>4. p.col \div w \in Nat /\ (p.col < w => p.col \div w = 0) /\ p.col % w \in Nat BY <1>2, ColumnParts
<1> HIDE DEF tall
<1>5. sub \in Nat /\ sub < tall /\ (p.col < w => sub = 0)
  <2> DEFINE d == p.col \div w
  <2>1. d \in Nat /\ (p.col < w => d = 0) BY <1>4
  <2> HIDE DEF d
  <2>2. sub = IF d < tall - 1 THEN d ELSE tall - 1 BY DEF Least, d
  <2> HIDE DEF sub
  <2> QED BY <1>3, <2>1, <2>2
<1>6. m \in Nat /\ m <= n /\ m <= p.at + h - 1 /\ p.at <= m BY <1>1, <1>2 DEF Least
<1> DEFINE z == SubSeq(p.lines, 1, m)
<1> HIDE DEF m
<1>7. z \in Seq(Lines) /\ Len(z) = m /\ \A k \in 1 .. m : z[k] = p.lines[k]
  BY <1>2, <1>6, SubSeqProperties
<1> HIDE DEF z, sub
<1>8. r = [lines |-> z, at |-> p.at, sub |-> sub, col |-> p.col % w]
  <2>1. r = [p EXCEPT !.lines = z, !.sub = sub, !.col = p.col % w]
    BY <1>1 DEF Reflowed, z, m, sub, tall, Pages
  <2> HIDE DEF r
  <2> QED BY <1>1, <2>1 DEF Pages
<1>9. p.col % w \in Nat BY <1>4
<1> HIDE DEF r
<1>10. r \in Pages BY <1>2, <1>5, <1>7, <1>8, <1>9 DEF Pages
<1>11. r.lines = z /\ r.at = p.at /\ r.sub = sub BY <1>8
<1>12. p.at \in top .. m /\ p.at \in 1 .. m BY <1>1, <1>6
<1>13. z[p.at] = p.lines[p.at] BY <1>7, <1>12
<1>14. r.sub < Height(r.lines[r.at], w) BY <1>5, <1>11, <1>13 DEF tall
<1> QED BY <1>5, <1>6, <1>7, <1>10, <1>11, <1>12, <1>14 DEF r

(* Of these, what a resize needs to know of the lines: some of the first    *)
(* ones are left, as they were.                                             *)
LEMMA ReflowedLines ==
  ASSUME NEW t, NEW p, NEW top, Framed(t, p, top), NEW w \in Nat \ {0}, NEW h \in Nat \ {0}
  PROVE  LET x == Reflowed(p, w, h)
         IN  /\ x \in Pages /\ Len(x.lines) <= Len(p.lines)
             /\ \A k \in 1 .. Len(x.lines) : x.lines[k] = p.lines[k]
BY ReflowedIs

(* The widths recorded, as lines: no wider than the rows drawn, so that they*)
(* take no more rows.                                                       *)
LEMMA CountedFewer ==
  ASSUME NEW t \in Terms, Counted(t), NEW w \in Nat \ {0}, NEW c \in 0 .. Len(t.drawn)
  PROVE  /\ RowsTo(Widthwise(t), c, w) \in Nat /\ RowsTo(t.drawn, c, w) \in Nat
         /\ RowsTo(Widthwise(t), c, w) <= RowsTo(t.drawn, c, w)
<1> DEFINE d == t.drawn
           v == Widthwise(t)
           n == Len(d)
           Bad == {i \in 0 .. n : ~(RowsTo(v, i, w) <= RowsTo(d, i, w))}
<1>1. d \in Seq(Lines) /\ n \in Nat /\ t.drawn_widths \in Seq(Nat) BY TermIs
<1>2. /\ v \in Seq(Lines) /\ Len(v) = n
      /\ \A i \in 1 .. n : v[i].width = t.drawn_widths[i] /\ v[i].width \in Nat
  <2> DEFINE x == t.drawn_widths
             Wide(i) == [text |-> "", width |-> x[i]]
  <2>1. Len(x) = n BY DEF Counted
  <2>2. DOMAIN x = 1 .. n /\ \A i \in 1 .. n : x[i] \in Nat BY <1>1, <2>1
  <2>3. "" \in Passing BY DEF Passing
  <2>4. \A i \in 1 .. n : Wide(i) \in Lines /\ Wide(i).width = x[i] BY <2>2, <2>3 DEF Lines, Cells
  <2>5. v = [i \in 1 .. n |-> Wide(i)] BY <2>2 DEF Widthwise
  <2> HIDE DEF v, n, Wide, x
  <2>6. v \in [1 .. n -> Lines] BY <2>4, <2>5
  <2>7. v \in Seq(Lines) BY <1>1, <2>6
  <2>8. Len(v) = n BY <1>1, <2>6, <2>7
  <2>9. \A i \in 1 .. n : v[i].width = x[i] /\ v[i].width \in Nat BY <2>2, <2>4, <2>5
  <2> QED BY <2>7, <2>8, <2>9 DEF x
<1>3. \A i \in 1 .. n : v[i].width <= d[i].width /\ d[i].width \in Nat
  BY <1>1, <1>2, LineIs DEF Counted
<1> HIDE DEF v, d, n
<1>4. \A i \in 1 .. n : Height(v[i], w) <= Height(d[i], w)
  BY <1>2, <1>3, HeightRises
<1>5. /\ RowsTo(v, 0, w) = 0 /\ RowsTo(d, 0, w) = 0
      /\ \A i \in 0 .. n : RowsTo(v, i, w) \in Nat /\ RowsTo(d, i, w) \in Nat
      /\ \A i \in 1 .. n : /\ RowsTo(v, i, w) = RowsTo(v, i - 1, w) + Height(v[i], w)
                          /\ RowsTo(d, i, w) = RowsTo(d, i - 1, w) + Height(d[i], w)
                          /\ Height(v[i], w) \in Nat /\ Height(d[i], w) \in Nat
  <2>1. Len(d) = n BY DEF n
  <2> QED BY <1>1, <1>2, <2>1, RowsToIs
<1>6. Bad = {}
  <2> SUFFICES ASSUME Bad # {} PROVE FALSE OBVIOUS
  <2>0. Bad \in SUBSET Nat BY <1>1
  <2>1. PICK m \in Bad : \A x \in Bad : m <= x BY <2>0, MinOf
  <2>2. m # 0 BY <1>5, <2>1
  <2>3. m - 1 \in 0 .. n /\ ~(m <= m - 1) /\ m \in 1 .. n /\ m \in 0 .. n BY <1>1, <2>1, <2>2
  <2>4. RowsTo(v, m - 1, w) <= RowsTo(d, m - 1, w) BY <2>1, <2>3
  <2>5. RowsTo(v, m, w) <= RowsTo(d, m, w)
    <3> DEFINE a == RowsTo(v, m - 1, w)
               b == RowsTo(d, m - 1, w)
               e == Height(v[m], w)
               g == Height(d[m], w)
    <3>1. a \in Nat /\ b \in Nat /\ e \in Nat /\ g \in Nat /\ a <= b /\ e <= g
      BY <1>4, <1>5, <2>3, <2>4
    <3>2. RowsTo(v, m, w) = a + e /\ RowsTo(d, m, w) = b + g BY <1>5, <2>3
    <3> HIDE DEF a, b, e, g
    <3> QED BY <3>1, <3>2
  <2> QED BY <2>1, <2>5
<1>7. c \in 0 .. n BY DEF n, d
<1>8. RowsTo(v, c, w) <= RowsTo(d, c, w) BY <1>6, <1>7
<1> QED BY <1>5, <1>7, <1>8 DEF v, d

(* The writer's count of the rows above the cursor, reflowed, is never more *)
(* than the terminal's, and the same unless a fill reflows.                 *)
CountsAbove(t, r, top, w) ==
  /\ RowsAbove(t, w) \in Nat /\ RowsTo(r.lines, top - 1, w) \in Nat
  /\ RowsTo(r.lines, top - 1, w) + r.sub <= RowAt(r, w) - RowsAbove(t, w)
  /\ RowsTo(t.drawn, t.cursor_row, w) <= RowsAbove(t, w)
       => RowAt(r, w) - RowsAbove(t, w) = RowsTo(r.lines, top - 1, w) + r.sub

(* It does so of every framed region.                                       *)
LEMMA RowsAboveIs ==
  ASSUME NEW t, NEW p, NEW top, Framed(t, p, top), NEW w \in Nat \ {0}, NEW h \in Nat \ {0}
  PROVE  CountsAbove(t, Reflowed(p, w, h), top, w)
<1> DEFINE r == Reflowed(p, w, h)
           l == r.lines
           d == t.drawn
           c == t.cursor_row
           k == top - 1
           n == RowsAbove(t, w)
<1>1. /\ r \in Pages /\ r.at = p.at /\ r.at \in top .. Len(l)
      /\ Len(l) <= Len(p.lines)
      /\ \A i \in 1 .. Len(l) : l[i] = p.lines[i]
  <2>1. LET x == Reflowed(p, w, h)
        IN  /\ x \in Pages /\ x.at = p.at /\ x.at \in top .. Len(x.lines)
            /\ Len(x.lines) <= Len(p.lines)
            /\ \A i \in 1 .. Len(x.lines) : x.lines[i] = p.lines[i]
    BY ReflowedIs
  <2> HIDE DEF k, d, c, n
  <2> QED BY <2>1
<1>2. t \in Terms /\ top \in Nat \ {0} /\ p.at = top + c /\ c < Most(Len(d), 1) BY DEF Framed
<1>3. d \in Seq(Lines) /\ c \in Nat /\ Len(d) \in Nat BY <1>2, TermIs
<1>4. l \in Seq(Lines) /\ Len(l) \in Nat /\ Len(p.lines) \in Nat /\ r.sub \in Nat
  <2>1. p \in Pages BY DEF Framed
  <2> HIDE DEF r
  <2> QED BY <1>1, <2>1, PageIs
<1> HIDE DEF r
<1>5. c \in 0 .. Len(d) /\ (c > 0 => c < Len(d)) BY <1>2, <1>3 DEF Most
<1>6. ASSUME NEW i \in 1 .. c PROVE l[k + i] = d[i]
  <2> DEFINE x == k + i
  <2>0. Len(p.lines) \in Nat /\ Len(l) <= Len(p.lines) /\ top + c <= Len(l) BY <1>1, <1>2, <1>4
  <2>00. c < Len(d) /\ i <= c /\ i \in Nat /\ i >= 1 BY <1>3, <1>5
  <2> DEFINE dlen == Len(d)
             llen == Len(l)
             plen == Len(p.lines)
  <2>000. /\ c \in Nat /\ top \in Nat \ {0} /\ dlen \in Nat /\ llen \in Nat /\ plen \in Nat
          /\ llen <= plen /\ top + c <= llen /\ c < dlen
    BY <1>2, <1>3, <1>4, <2>0, <2>00
  <2> HIDE DEF l, d, c, n, dlen, llen, plen
  <2>1. x \in top .. plen /\ x \in 1 .. llen /\ x - top < dlen /\ x - top + 1 = i
    BY <2>00, <2>000
  <2> HIDE DEF x
  <2> USE DEF l, d, c, n, dlen, llen, plen
  <2>2. p.lines[x] = d[i] BY <2>1 DEF Framed
  <2>3. l[x] = d[i] BY <1>1, <2>1, <2>2
  <2> QED BY <2>3 DEF x
<1>7. k \in Nat /\ k + c <= Len(l) /\ k + c = r.at - 1 /\ k \in 0 .. Len(l) BY <1>1, <1>2, <1>3, <1>4
<1> HIDE DEF k, l, d, c
<1>8. RowsTo(l, k + c, w) = RowsTo(l, k, w) + RowsTo(d, c, w) BY <1>3, <1>4, <1>5, <1>6, <1>7, RowsShift
<1>9. RowsTo(d, c, w) \in Nat /\ RowsTo(l, k, w) \in Nat BY <1>3, <1>4, <1>5, <1>7, RowsToIs
<1>10. n \in Nat /\ n <= RowsTo(d, c, w)
  <2>1. Counted(t) BY DEF Framed
  <2>2. n = RowsTo(Widthwise(t), c, w) BY DEF RowsAbove, c
  <2>3. c \in 0 .. Len(t.drawn) BY <1>5 DEF d
  <2> HIDE DEF n
  <2>4. /\ RowsTo(Widthwise(t), c, w) \in Nat
        /\ RowsTo(Widthwise(t), c, w) <= RowsTo(t.drawn, c, w)
    BY <1>2, <2>1, <2>3, CountedFewer
  <2> QED BY <2>2, <2>4 DEF d
<1> HIDE DEF n
<1>11. RowAt(r, w) = RowsTo(l, k + c, w) + r.sub BY <1>7 DEF RowAt, l
<1>12. /\ RowsTo(l, k, w) + r.sub <= RowAt(r, w) - n
       /\ RowsTo(d, c, w) <= n => RowAt(r, w) - n = RowsTo(l, k, w) + r.sub
  <2> DEFINE a == RowsTo(l, k, w)
             e == RowsTo(d, c, w)
  <2>1. /\ a \in Nat /\ e \in Nat /\ n \in Nat /\ n <= e /\ RowAt(r, w) = a + e + r.sub
    BY <1>8, <1>9, <1>10, <1>11
  <2> DEFINE x == RowAt(r, w)
             y == r.sub
  <2>2. a \in Nat /\ e \in Nat /\ y \in Nat /\ n \in Nat /\ n <= e /\ x = a + e + y BY <1>4, <2>1
  <2> HIDE DEF a, e, x, y
  <2>3. a + y <= x - n BY <2>2
  <2>4. e <= n => x - n = a + y BY <2>2
  <2> QED BY <2>3, <2>4 DEF a, e, x, y
<1> QED BY <1>9, <1>10, <1>12 DEF CountsAbove, r, l, k, n, d, c

(* Where the writer goes up to after a reflow: a line j of the old region, and *)
(* no further above the page's end than the window is high.                 *)
LEMMA TopFound ==
  ASSUME NEW t, NEW p, NEW top, Framed(t, p, top), NEW w \in Nat \ {0}, NEW h \in Nat \ {0}
  PROVE  \E j \in Nat, s \in Nat :
           LET r == Reflowed(p, w, h)
           IN  /\ Up(r, RowsAbove(t, w), w, h) = Placed(r, j, s)
               /\ j \in top .. Len(r.lines) /\ j <= p.at /\ Len(r.lines) <= j + h - 1
<1> DEFINE r == Reflowed(p, w, h)
           l == r.lines
           n == RowsAbove(t, w)
           goal == Target(r, n, w, h)
           size == Len(l)
           A == RowsTo(l, top - 1, w)
<1>1. /\ r \in Pages /\ r.at = p.at /\ r.at \in top .. size
      /\ r.sub < Height(l[r.at], w)
      /\ size <= p.at + h - 1
  BY ReflowedIs
<1>2. n \in Nat /\ A \in Nat /\ A + r.sub <= RowAt(r, w) - n
  <2>1. CountsAbove(t, r, top, w) BY RowsAboveIs
  <2> QED BY <2>1 DEF CountsAbove
<1>3. top \in Nat \ {0} BY DEF Framed
<1> HIDE DEF r, n, A
<1>4. l \in Seq(Lines) /\ size \in Nat /\ r.sub \in Nat /\ r.at \in Nat BY <1>1, PageIs
<1>5. r.at \in 1 .. size BY <1>1, <1>3, <1>4
<1>6. PICK j \in 1 .. r.at, s \in Nat :
        /\ s < Height(l[j], w)
        /\ goal = RowsTo(l, j - 1, w) + s
        /\ Up(r, n, w, h) = Placed(r, j, s)
  <2>1. h \in Nat OBVIOUS
  <2> QED BY <1>1, <1>2, <1>5, <2>1, UpFinds
<1>7. /\ TopRow(r, w, h) \in Nat /\ goal \in Nat
      /\ goal <= RowAt(r, w) /\ RowAt(r, w) - n <= goal
      /\ goal < TopRow(r, w, h) => goal = RowAt(r, w)
  <2>1. h \in Nat /\ r.at \in 1 .. Len(r.lines) BY <1>5
  <2>2. /\ TopRow(r, w, h) \in Nat /\ Target(r, n, w, h) \in Nat
        /\ Target(r, n, w, h) <= RowAt(r, w) /\ RowAt(r, w) - n <= Target(r, n, w, h)
        /\ Target(r, n, w, h) < TopRow(r, w, h) => Target(r, n, w, h) = RowAt(r, w)
    <3>1. r \in Pages /\ n \in Nat /\ w \in Nat \ {0} BY <1>1, <1>2
    <3> HIDE DEF goal, l, size
    <3>2. /\ TopRow(r, w, h) \in Nat /\ Target(r, n, w, h) \in Nat
          /\ Target(r, n, w, h) <= RowAt(r, w) /\ RowAt(r, w) - n <= Target(r, n, w, h)
          /\ Target(r, n, w, h) < TopRow(r, w, h) => Target(r, n, w, h) = RowAt(r, w)
          /\ TopRow(r, w, h) <= RowAt(r, w) - n => Target(r, n, w, h) = RowAt(r, w) - n
      BY <2>1, <3>1, TargetIs, ZenonT(60)
    <3> QED BY <3>2
  <2> QED BY <2>2
<1>8. RowAt(r, w) = RowsTo(l, r.at - 1, w) + r.sub /\ RowAt(r, w) \in Nat /\ RowsOf(l, w) \in Nat
  BY <1>1, <1>5, RowAtIs
<1>9. TopRow(r, w, h) = Minus(RowsOf(l, w), h) BY DEF TopRow
<1> HIDE DEF l, goal
<1>10. j \in Nat /\ j >= 1 /\ j <= r.at /\ j \in 1 .. size /\ j <= size
  <2> HIDE DEF size
  <2> QED BY <1>4, <1>5
<1>11. /\ RowsTo(l, j - 1, w) \in Nat /\ RowsTo(l, j, w) \in Nat
       /\ RowsTo(l, j, w) = RowsTo(l, j - 1, w) + Height(l[j], w) /\ Height(l[j], w) \in Nat
       /\ goal < RowsTo(l, j, w)
  <2>1. j - 1 \in 0 .. Len(l) /\ j \in 0 .. Len(l) BY <1>4, <1>10
  <2>2. /\ RowsTo(l, j - 1, w) \in Nat /\ RowsTo(l, j, w) \in Nat
        /\ RowsTo(l, j, w) = RowsTo(l, j - 1, w) + Height(l[j], w) /\ Height(l[j], w) \in Nat
    BY <1>4, <1>10, <2>1, RowsToIs
  <2> QED BY <1>6, <2>2
<1>12. j >= top
  <2> SUFFICES ASSUME j < top PROVE FALSE BY <1>3, <1>10
  <2>1. top - 1 \in 0 .. Len(l) /\ j \in 0 .. (top - 1) /\ top - 1 - j \in Nat
    BY <1>1, <1>3, <1>4, <1>10
  <2>2. RowsTo(l, j, w) + (top - 1 - j) <= A BY <1>4, <2>1, RowsRise DEF A
  <2>3. RowsTo(l, j, w) <= A
    <3> DEFINE d == top - 1 - j
               a == RowsTo(l, j, w)
    <3>1. d \in Nat /\ a \in Nat /\ A \in Nat /\ a + d <= A BY <1>2, <1>11, <2>1, <2>2
    <3> HIDE DEF d, a
    <3>2. a <= A BY <3>1
    <3> QED BY <3>2 DEF a
  <2>4. A <= goal BY <1>2, <1>4, <1>7, <1>8
  <2> QED BY <1>2, <1>7, <1>11, <2>3, <2>4
<1>13. size <= j + h - 1
  <2>1. CASE goal = RowAt(r, w)
    <3>1. j = r.at
      <4> SUFFICES ASSUME j < r.at PROVE FALSE BY <1>4, <1>10
      <4>1. r.at - 1 \in 0 .. Len(l) /\ j \in 0 .. (r.at - 1) /\ r.at - 1 - j \in Nat
        BY <1>4, <1>5, <1>10
      <4>2. RowsTo(l, j, w) + (r.at - 1 - j) <= RowsTo(l, r.at - 1, w) BY <1>4, <4>1, RowsRise
      <4>3. RowsTo(l, r.at - 1, w) \in Nat BY <1>4, <4>1, RowsToIs
      <4>4. RowsTo(l, j, w) <= RowsTo(l, r.at - 1, w)
        <5> DEFINE a == RowsTo(l, j, w)
                   b == RowsTo(l, r.at - 1, w)
                   d == r.at - 1 - j
        <5>1. a \in Nat /\ b \in Nat /\ d \in Nat /\ a + d <= b BY <1>11, <4>1, <4>2, <4>3
        <5> HIDE DEF a, b, d
        <5>2. a <= b BY <5>1
        <5> QED BY <5>2 DEF a, b
      <4>5. RowsTo(l, r.at - 1, w) <= goal BY <1>4, <1>8, <2>1, <4>3
      <4> QED BY <1>7, <1>11, <4>3, <4>4, <4>5
    <3> QED BY <1>1, <3>1
  <2>2. CASE goal # RowAt(r, w)
    <3>1. TopRow(r, w, h) <= goal BY <1>7, <2>2
    <3>2. RowsOf(l, w) - h <= goal BY <1>7, <1>8, <1>9, <3>1 DEF Minus, Most
    <3>3. size \in 0 .. Len(l) /\ j \in 0 .. size /\ size - j \in Nat BY <1>4, <1>10
    <3>4. RowsTo(l, j, w) + (size - j) <= RowsOf(l, w) BY <1>4, <3>3, RowsRise DEF RowsOf
    <3> DEFINE x == size - j
               a == RowsTo(l, j, w)
               b == RowsOf(l, w)
    <3>5. x \in Nat /\ a \in Nat /\ b \in Nat /\ a + x <= b /\ b - h <= goal /\ goal < a /\ goal \in Nat
      BY <1>7, <1>8, <1>11, <3>2, <3>3, <3>4
    <3> HIDE DEF x, a, b
    <3>6. x <= h - 1 BY <3>5
    <3>7. size - j <= h - 1 BY <3>6 DEF x
    <3> HIDE DEF size
    <3> QED BY <1>4, <1>10, <3>7
  <2> QED BY <2>1, <2>2
<1>14. j \in top .. size BY <1>3, <1>4, <1>10, <1>12
<1>15. Up(r, n, w, h) = Placed(r, j, s) BY <1>6
<1>16. j \in Nat /\ s \in Nat /\ j <= p.at BY <1>1, <1>10
<1> QED BY <1>13, <1>14, <1>15, <1>16 DEF r, n, l

(* A region that fits in the window, or of which nothing is drawn, still does  *)
(* once the lines that have no room are gone.                               *)
LEMMA FitsStill ==
  ASSUME NEW t, NEW p, NEW top, Framed(t, p, top), NEW w \in Nat \ {0}, NEW h \in Nat \ {0},
         RowsOf(p.lines, w) - RowsTo(p.lines, top - 1, w) <= h \/ t.drawn = <<>>
  PROVE  LET r == Reflowed(p, w, h)
         IN  RowsOf(r.lines, w) - RowsTo(r.lines, top - 1, w) <= h
<1> DEFINE r == Reflowed(p, w, h)
           l == r.lines
           size == Len(l)
           k == top - 1
           A == RowsTo(l, k, w)
<1>1. /\ r \in Pages /\ r.at = p.at /\ r.at \in top .. size
      /\ size <= Len(p.lines) /\ size <= p.at + h - 1 /\ \A i \in 1 .. size : l[i] = p.lines[i]
  BY ReflowedIs
<1>2. A \in Nat
  <2>1. CountsAbove(t, r, top, w) BY RowsAboveIs
  <2> QED BY <2>1 DEF CountsAbove
<1>3. top \in Nat \ {0} /\ p \in Pages /\ t \in Terms BY DEF Framed
<1> HIDE DEF r
<1>4. l \in Seq(Lines) /\ size \in Nat /\ r.at \in Nat /\ p.lines \in Seq(Lines) /\ Len(p.lines) \in Nat
  BY <1>1, <1>3, PageIs
<1>5. r.at \in 1 .. size /\ top \in 1 .. size BY <1>1, <1>3, <1>4
<1>7. RowsOf(l, w) \in Nat BY <1>1, <1>5, RowAtIs
<1> HIDE DEF l
<1>8. ASSUME NEW c \in Nat, c <= size
      PROVE  RowsTo(l, c, w) = RowsTo(p.lines, c, w) /\ RowsTo(p.lines, c, w) \in Nat
  <2> DEFINE z == 0
  <2>1. z \in Nat /\ c \in 0 .. Len(p.lines) /\ z + c <= size /\ z + c = c BY <1>1, <1>4, <1>8
  <2>2. \A i \in 1 .. c : l[z + i] = p.lines[i]
    <3> SUFFICES ASSUME NEW i \in 1 .. c PROVE l[z + i] = p.lines[i] OBVIOUS
    <3>1. i \in 1 .. size /\ z + i = i BY <1>4, <1>8
    <3> QED BY <1>1, <3>1
  <2> HIDE DEF z
  <2>3. RowsTo(l, z + c, w) = RowsTo(l, z, w) + RowsTo(p.lines, c, w)
    <3> DEFINE d == p.lines
    <3>1. /\ l \in Seq(Lines) /\ d \in Seq(Lines) /\ w \in Nat \ {0} /\ z \in Nat /\ c \in 0 .. Len(d)
          /\ z + c <= Len(l) /\ \A i \in 1 .. c : l[z + i] = d[i]
      BY <1>4, <2>1, <2>2
    <3> HIDE DEF d
    <3>2. RowsTo(l, z + c, w) = RowsTo(l, z, w) + RowsTo(d, c, w) BY <3>1, RowsShift
    <3> QED BY <3>2 DEF d
  <2>4. RowsTo(l, z, w) = 0 BY <1>4, RowsToIs DEF z
  <2>5. RowsTo(p.lines, c, w) \in Nat BY <1>4, <2>1, RowsToIs
  <2> QED BY <2>1, <2>3, <2>4, <2>5
<1>9. RowsOf(l, w) <= RowsOf(p.lines, w) /\ RowsOf(p.lines, w) \in Nat
  <2> DEFINE m == Len(p.lines)
             c == size
  <2>1. m \in 0 .. Len(p.lines) /\ c \in 0 .. m /\ m - c \in Nat BY <1>1, <1>4
  <2> HIDE DEF m
  <2>2. RowsTo(p.lines, c, w) + (m - c) <= RowsTo(p.lines, m, w) BY <1>4, <2>1, RowsRise
  <2>3. RowsTo(l, c, w) = RowsTo(p.lines, c, w) /\ RowsTo(p.lines, c, w) \in Nat BY <1>4, <1>8
  <2>4. RowsTo(p.lines, m, w) \in Nat BY <1>4, <2>1, RowsToIs
  <2>5. RowsTo(p.lines, c, w) <= RowsTo(p.lines, m, w) BY <2>1, <2>2, <2>3, <2>4
  <2> QED BY <2>3, <2>4, <2>5 DEF RowsOf, m
<1>10. A = RowsTo(p.lines, k, w)
  <2>1. k \in Nat /\ k <= size BY <1>3, <1>4, <1>5
  <2> HIDE DEF k
  <2> QED BY <1>8, <2>1
<1> HIDE DEF A, size
<1>11. CASE RowsOf(p.lines, w) - RowsTo(p.lines, top - 1, w) <= h
  <2>1. RowsOf(p.lines, w) - A <= h BY <1>10, <1>11
  <2>2. RowsOf(l, w) - A <= h BY <1>2, <1>7, <1>9, <2>1
  <2> QED BY <2>2 DEF r, l, A
<1>12. CASE t.drawn = <<>>
  <2>1. Len(t.drawn) = 0 /\ t.cursor_row = 0 /\ p.at = top
    <3>1. Len(t.drawn) = 0 /\ t.cursor_row \in Nat BY <1>3, <1>12, TermIs
    <3>2. t.cursor_row < Most(0, 1) /\ p.at = top + t.cursor_row BY <3>1 DEF Framed
    <3>3. t.cursor_row = 0 BY <3>1, <3>2 DEF Most
    <3> QED BY <1>3, <3>1, <3>2, <3>3
  <2>2. ASSUME NEW i \in top .. size PROVE l[i].width < w
    <3>1. i \in top .. Len(p.lines) /\ i \in 1 .. size /\ ~(i - top < 0) BY <1>1, <1>3, <1>4
    <3>2. p.lines[i] = Empty BY <2>1, <3>1 DEF Framed
    <3> QED BY <1>1, <3>1, <3>2, EmptyIs
  <2> DEFINE b == size
  <2>3. b \in Nat /\ top - 1 <= b /\ b <= Len(l) /\ \A i \in top .. b : l[i].width < w
    BY <1>3, <1>4, <1>5, <2>2 DEF size
  <2> HIDE DEF b
  <2>4. RowsTo(l, b, w) = RowsTo(l, top - 1, w) + (b - top + 1) BY <1>3, <1>4, <2>3, RowsFlat
  <2>5. RowsOf(l, w) = A + (b - top + 1) BY <2>4 DEF RowsOf, A, b, size
  <2>6. b <= top + h - 1 BY <1>1, <2>1 DEF b
  <2>7. RowsOf(l, w) - A <= h BY <1>2, <1>3, <2>3, <2>5, <2>6
  <2> QED BY <2>7 DEF r, l, A
<1> QED BY <1>11, <1>12

(* When the caret's row did not reflow under it, the region fits in the     *)
(* window and no fill takes rows of its own, the writer finds the region's  *)
(* first line.                                                              *)
LEMMA TopKept ==
  ASSUME NEW t, NEW p, NEW top, Framed(t, p, top), NEW w \in Nat \ {0}, NEW h \in Nat \ {0},
         p.col < w, RowsTo(t.drawn, t.cursor_row, w) <= RowsAbove(t, w),
         RowsOf(p.lines, w) - RowsTo(p.lines, top - 1, w) <= h \/ t.drawn = <<>>
  PROVE  Up(Reflowed(p, w, h), RowsAbove(t, w), w, h) = Placed(Reflowed(p, w, h), top, 0)
<1> DEFINE r == Reflowed(p, w, h)
           l == r.lines
           n == RowsAbove(t, w)
           goal == Target(r, n, w, h)
           size == Len(l)
           k == top - 1
           A == RowsTo(l, k, w)
<1>1. /\ r \in Pages /\ r.at = p.at /\ r.at \in top .. size /\ r.sub = 0
      /\ size <= Len(p.lines) /\ \A i \in 1 .. size : l[i] = p.lines[i]
  BY ReflowedIs
<1>2. n \in Nat /\ A \in Nat /\ RowAt(r, w) - n = A + r.sub
  <2>1. CountsAbove(t, r, top, w) BY RowsAboveIs
  <2> QED BY <2>1 DEF CountsAbove
<1>8. RowsOf(l, w) - A <= h BY FitsStill
<1>3. top \in Nat \ {0} /\ p \in Pages BY DEF Framed
<1> HIDE DEF r, n
<1>4. l \in Seq(Lines) /\ size \in Nat /\ r.at \in Nat /\ p.lines \in Seq(Lines) /\ Len(p.lines) \in Nat
  BY <1>1, <1>3, PageIs
<1>5. r.at \in 1 .. size /\ top \in 1 .. size BY <1>1, <1>3, <1>4
<1>6. /\ TopRow(r, w, h) \in Nat
      /\ TopRow(r, w, h) <= RowAt(r, w) - n => goal = RowAt(r, w) - n
  <2>1. h \in Nat /\ r.at \in 1 .. Len(r.lines) BY <1>5
  <2>2. /\ TopRow(r, w, h) \in Nat /\ Target(r, n, w, h) \in Nat
        /\ Target(r, n, w, h) <= RowAt(r, w) /\ RowAt(r, w) - n <= Target(r, n, w, h)
        /\ Target(r, n, w, h) < TopRow(r, w, h) => Target(r, n, w, h) = RowAt(r, w)
        /\ TopRow(r, w, h) <= RowAt(r, w) - n => Target(r, n, w, h) = RowAt(r, w) - n
    <3>1. r \in Pages /\ n \in Nat BY <1>1, <1>2
    <3> HIDE DEF k
    <3> QED BY <2>1, <3>1, TargetIs, ZenonT(60)
  <2> QED BY <2>2
<1>7. RowsOf(l, w) \in Nat BY <1>1, <1>5, RowAtIs
<1> HIDE DEF goal, l
<1> HIDE DEF A, size
<1>11. TopRow(r, w, h) <= A
  <2>2. RowsOf(l, w) - h <= A BY <1>2, <1>7, <1>8
  <2>3. TopRow(r, w, h) = Minus(RowsOf(l, w), h) BY DEF TopRow, l
  <2> QED BY <1>2, <2>2, <2>3 DEF Minus, Most
<1>12. goal = A + 0 BY <1>1, <1>2, <1>6, <1>11
<1>13. 0 < Height(l[top], w)
  <2>1. l[top].width \in Nat BY <1>4, <1>5, LineIs DEF size
  <2>2. Height(l[top], w) \in Nat \ {0} BY <2>1, HeightIs
  <2> QED BY <2>2
<1>14. Up(r, n, w, h) = Placed(r, top, 0)
  <2> DEFINE none == 0
  <2>1. /\ h \in Nat /\ none \in Nat /\ top \in 1 .. Len(r.lines) /\ n \in Nat /\ r \in Pages
        /\ w \in Nat \ {0} /\ none < Height(r.lines[top], w)
        /\ Target(r, n, w, h) = RowsTo(r.lines, top - 1, w) + none
    BY <1>1, <1>2, <1>5, <1>12, <1>13 DEF size, l, goal, A
  <2> HIDE DEF none
  <2>2. Up(r, n, w, h) = Placed(r, top, none) BY <2>1, UpIs, SMTT(60)
  <2> QED BY <2>2 DEF none
<1> QED BY <1>14 DEF r, n

(* The old region's lines, and what the erasing leaves of one, are not      *)
(* history's.                                                               *)
LEMMA NothingLost ==
  ASSUME NEW l \in Seq(Lines), NEW m \in Seq(Lines), NEW top \in Nat \ {0}, NEW b \in Nat,
         top <= b, b - 1 <= Len(m), top - 1 <= Len(l),
         \A k \in 1 .. (top - 1) : m[k] = l[k],
         \A k \in top .. (b - 1) : m[k].text \notin Finished
  PROVE  FinishedTo(m, b - 1) = FinishedTo(l, top - 1)
<1> DEFINE c == top - 1
           e == b - 1
<1>1. /\ c \in Nat /\ e \in 0 .. Len(m) /\ c \in 0 .. e /\ c <= Len(l) /\ c <= Len(m)
      /\ \A k \in 1 .. c : m[k] = l[k]
  <2>1. Len(m) \in Nat /\ Len(l) \in Nat BY LineIs
  <2> QED BY <2>1
<1>2. \A k \in (c + 1) .. e : m[k].text \notin Finished
  <2>1. c + 1 = top OBVIOUS
  <2> QED BY <2>1
<1> HIDE DEF c, e
<1>3. FinishedTo(m, e) = FinishedTo(m, c) BY <1>1, <1>2, FinishedSkips
<1>4. FinishedTo(m, c) = FinishedTo(l, c) BY <1>1, FinishedSame
<1> QED BY <1>3, <1>4 DEF c, e

(* resize: the region is framed again, no higher than it was; every line of *)
(* history is above it. Where the writer can measure, it is where it was.   *)
LEMMA ResizeIs ==
  ASSUME NEW t, NEW p, NEW top, Framed(t, p, top), NEW w \in Widths, NEW h \in Heights,
         NEW f \in Frames \cup {NoFrame}
  PROVE  \E new \in Nat :
           LET s == resize([t |-> t, p |-> p], w, h, f)
           IN  /\ Framed(s.t, s.p, new)
               /\ FinishedTo(s.p.lines, new - 1) = FinishedTo(p.lines, top - 1)
               /\ f = NoFrame => s.t.drawn = <<>>
               /\ /\ p.col < w /\ RowsTo(t.drawn, t.cursor_row, w) <= RowsAbove(t, w)
                  /\ RowsOf(p.lines, w) - RowsTo(p.lines, top - 1, w) <= h \/ t.drawn = <<>>
                  => new = top
<1> DEFINE r == Reflowed(p, w, h)
           up == Up(r, RowsAbove(t, w), w, h)
           q == Column(up, 0)
           z == EraseBelow(q, w)
           u == [Forget(t) EXCEPT !.width = w, !.height = h]
           s == resize([t |-> t, p |-> p], w, h, f)
           kept == /\ p.col < w /\ RowsTo(t.drawn, t.cursor_row, w) <= RowsAbove(t, w)
                   /\ RowsOf(p.lines, w) - RowsTo(p.lines, top - 1, w) <= h \/ t.drawn = <<>>
<1>1. w \in Nat \ {0, 1} /\ h \in Nat \ {0, 1} BY ScreenAssumption
<1>2. w \in Nat \ {0} /\ h \in Nat \ {0} /\ w \in Nat /\ h \in Nat BY <1>1
<1>3. t \in Terms /\ p \in Pages /\ top \in Nat \ {0} BY DEF Framed
<1>4. s = draw_rows([t |-> u, p |-> z], f) BY DEF resize
<1>5. /\ u \in Terms /\ u.drawn = <<>> /\ u.drawn_widths = <<>> /\ u.cursor_row = 0
      /\ u.width = w /\ u.height = h
  <2> DEFINE e == Forget(t)
  <2>1. e \in Terms /\ e.drawn = <<>> /\ e.drawn_widths = <<>> /\ e.cursor_row = 0 BY <1>3, ForgetIs
  <2>2. u = [e EXCEPT !.width = w, !.height = h] OBVIOUS
  <2> HIDE DEF e
  <2> QED BY <2>1, <2>2 DEF Terms
<1>6. PICK j \in Nat, i \in Nat :
        up = Placed(r, j, i) /\ j \in top .. Len(r.lines) /\ j <= p.at /\ Len(r.lines) <= j + h - 1
  <2>1. \E j \in Nat, i \in Nat :
          LET x == Reflowed(p, w, h)
          IN  /\ Up(x, RowsAbove(t, w), w, h) = Placed(x, j, i)
              /\ j \in top .. Len(x.lines) /\ j <= p.at /\ Len(x.lines) <= j + h - 1
    BY <1>2, TopFound
  <2> QED BY <2>1
<1>7. kept => up = Placed(r, top, 0) BY <1>2, TopKept
<1>8. /\ r \in Pages /\ Len(r.lines) <= Len(p.lines)
      /\ \A k \in 1 .. Len(r.lines) : r.lines[k] = p.lines[k]
  <2> HIDE DEF r, up, q, z, u, s, kept
  <2>1. LET x == Reflowed(p, w, h)
        IN  /\ x \in Pages /\ Len(x.lines) <= Len(p.lines)
            /\ \A k \in 1 .. Len(x.lines) : x.lines[k] = p.lines[k]
    BY <1>2, ReflowedLines
  <2> QED BY <2>1 DEF r
<1> HIDE DEF r, up, s, kept
<1>9. /\ Placed(r, j, i) \in Pages /\ Placed(r, j, i).lines = r.lines /\ Placed(r, j, i).at = j
      /\ Placed(r, j, i).sub = i
  <2>1. r \in Pages /\ j \in Nat /\ i \in Nat BY <1>6, <1>8
  <2> QED BY <2>1, PlacedIs
<1>10. kept => j = top /\ i = 0
  <2>1. r \in Pages /\ top \in Nat /\ 0 \in Nat BY <1>3, <1>8
  <2>2. Placed(r, top, 0).at = top /\ Placed(r, top, 0).sub = 0 BY <2>1, PlacedIs
  <2> QED BY <1>6, <1>7, <1>9, <2>2
<1>11. q \in Pages /\ q.lines = r.lines /\ q.at = j /\ q.sub = i
  <2>1. up \in Pages /\ up.lines = r.lines /\ up.at = j /\ up.sub = i BY <1>6, <1>9
  <2>2. 0 \in Nat OBVIOUS
  <2> QED BY <2>1, <2>2, ColumnIs
<1>12. Len(r.lines) \in Nat /\ r.lines \in Seq(Lines) BY <1>8, PageIs
<1> HIDE DEF q, z, u
<1> DEFINE new == j + CutBy(q)
<1>13. CutBy(q) \in {0, 1} /\ (kept => CutBy(q) = 0) BY <1>10, <1>11 DEF CutBy
<1>14. /\ Framed(u, z, new)
       /\ \A k \in 1 .. (j - 1) : z.lines[k] = r.lines[k]
       /\ CutBy(q) = 1 => z.lines[j].text \notin Finished
  <2>0. q.at \in 1 .. Len(q.lines) /\ Len(q.lines) <= q.at + u.height - 1
    BY <1>3, <1>5, <1>6, <1>11, <1>12
  <2>1. /\ q.at \in 1 .. Len(q.lines) /\ Len(q.lines) <= q.at + u.height - 1
        /\ u \in Terms /\ u.drawn = <<>> /\ u.drawn_widths = <<>> /\ u.cursor_row = 0 /\ q \in Pages /\ w \in Nat
    BY <1>2, <1>5, <1>11, <2>0
  <2>2. LET e == EraseBelow(q, w)
        IN  /\ Framed(u, e, q.at + CutBy(q))
            /\ \A k \in 1 .. (q.at - 1) : e.lines[k] = q.lines[k]
            /\ CutBy(q) = 1 => e.lines[q.at].text \notin Finished
    BY <2>1, BlankIs, ZenonT(30)
  <2> QED BY <1>11, <2>2 DEF z
<1>15. new \in Nat /\ top <= new /\ top <= j /\ new - 1 <= j /\ (kept => new = top)
       /\ (CutBy(q) = 0 => new = j) /\ (CutBy(q) = 1 => new = j + 1)
  BY <1>3, <1>6, <1>10, <1>13
<1> HIDE DEF new
<1>16. /\ Framed(s.t, s.p, new)
       /\ \A k \in 1 .. (new - 1) : s.p.lines[k] = z.lines[k]
       /\ f = NoFrame => s.t.drawn = <<>>
  <2>1. LET x == draw_rows([t |-> u, p |-> z], f)
        IN  /\ Framed(x.t, x.p, new) /\ x.t.width = u.width /\ x.t.height = u.height
            /\ \A k \in 1 .. (new - 1) : x.p.lines[k] = z.lines[k]
            /\ f = NoFrame => x.t.drawn = <<>>
    BY <1>5, <1>14, DrawIs
  <2> QED BY <1>4, <2>1
<1>17. /\ s.p.lines \in Seq(Lines) /\ Len(s.p.lines) \in Nat /\ new - 1 <= Len(s.p.lines)
       /\ p.lines \in Seq(Lines) /\ Len(p.lines) \in Nat /\ top - 1 <= Len(p.lines)
  <2>1. s.p \in Pages /\ new \in 1 .. Len(s.p.lines) BY <1>16, FramedFlat DEF Framed
  <2>2. top \in 1 .. Len(p.lines) BY FramedFlat
  <2>3. /\ s.p.lines \in Seq(Lines) /\ Len(s.p.lines) \in Nat
        /\ p.lines \in Seq(Lines) /\ Len(p.lines) \in Nat
    BY <1>3, <2>1, PageIs
  <2> QED BY <1>3, <1>15, <2>1, <2>2, <2>3
<1>18. ASSUME NEW k \in Nat, k >= 1, k <= j - 1 PROVE k \in 1 .. (new - 1) => s.p.lines[k] = p.lines[k]
  <2>1. k \in 1 .. (j - 1) /\ k \in 1 .. Len(r.lines) BY <1>6, <1>12, <1>18
  <2>2. r.lines[k] = p.lines[k] /\ z.lines[k] = r.lines[k] BY <1>8, <1>14, <2>1
  <2> QED BY <1>16, <2>2
<1>19. ASSUME NEW k \in 1 .. (top - 1) PROVE s.p.lines[k] = p.lines[k]
  <2>1. k \in Nat /\ k >= 1 /\ k <= j - 1 /\ k \in 1 .. (new - 1) BY <1>3, <1>6, <1>15
  <2> QED BY <1>18, <2>1
<1>20. ASSUME NEW k \in top .. (new - 1) PROVE s.p.lines[k].text \notin Finished
  <2>1. k \in Nat /\ k >= 1 /\ k \in 1 .. (new - 1) /\ (k <= j - 1 \/ (k = j /\ CutBy(q) = 1))
    BY <1>3, <1>6, <1>13, <1>15
  <2>2. CASE k <= j - 1
    <3>1. s.p.lines[k] = p.lines[k] BY <1>18, <2>1, <2>2
    <3>2. k \in top .. Len(p.lines) BY <1>3, <1>6, <1>8, <1>12, <1>17, <2>1, <2>2
    <3> QED BY <3>1, <3>2, FramedFlat
  <2>3. CASE k = j /\ CutBy(q) = 1 BY <1>14, <1>16, <2>1, <2>3
  <2> QED BY <2>1, <2>2, <2>3
<1>21. FinishedTo(s.p.lines, new - 1) = FinishedTo(p.lines, top - 1)
  <2> DEFINE a == p.lines
             b == s.p.lines
  <2>1. /\ a \in Seq(Lines) /\ b \in Seq(Lines) /\ top \in Nat \ {0} /\ new \in Nat
        /\ top <= new /\ new - 1 <= Len(b) /\ top - 1 <= Len(a)
        /\ \A k \in 1 .. (top - 1) : b[k] = a[k]
        /\ \A k \in top .. (new - 1) : b[k].text \notin Finished
    BY <1>3, <1>15, <1>17, <1>19, <1>20
  <2> HIDE DEF a, b
  <2>2. FinishedTo(b, new - 1) = FinishedTo(a, top - 1) BY <2>1, NothingLost
  <2> QED BY <2>2 DEF a, b
<1> QED BY <1>15, <1>16, <1>21 DEF s, kept

-----------------------------------------------------------------------------
(* What holds at all times: the writer's belief and the terminal agree, the *)
(* lines above the region are history's, and but for a smearing they are    *)
(* history's alone.                                                         *)
ScreenInv ==
  /\ Framed(term, page, RegionTop)
  /\ owner \in {"writer", "child", "shell"} /\ (owner # "writer" => term.drawn = <<>>)
  /\ smeared \in BOOLEAN /\ resizesLeft \in 0 .. MaxResizes
  /\ history \in Seq(Cells(Finished)) /\ HistoryIsKept
  /\ smeared \/ RegionTop - 1 = Len(history)

(* The region starts where the belief says.                                 *)
LEMMA TopIs ==
  ASSUME NEW t, NEW p, NEW top, Framed(t, p, top)
  PROVE  p.at - t.cursor_row = top /\ top \in Nat \ {0}
<1>1. t \in Terms /\ top \in Nat \ {0} /\ p.at = top + t.cursor_row BY DEF Framed
<1>2. t.cursor_row \in Nat BY <1>1, TermIs
<1> QED BY <1>1, <1>2

(* The rows printed are history's, and so are the rows cut to the window.   *)
LEMMA FinishedRows ==
  ASSUME NEW rows \in Batches \cup {<<>>}, NEW w \in Nat \ {0}
  PROVE  /\ rows \in Seq(Spans(Finished)) /\ Len(rows) \in Nat
         /\ EncodeRows(rows, w) \in Seq(Cells(Finished)) /\ Len(EncodeRows(rows, w)) = Len(rows)
<1>1. \A r \in Rows : r \in Spans(Finished) BY ScreenAssumption
<1>2. rows \in Seq(Spans(Finished))
  <2>1. ASSUME NEW r \in Rows, NEW q \in Rows
        PROVE  <<r>> \in Seq(Spans(Finished)) /\ <<r, q>> \in Seq(Spans(Finished))
    <3>1. r \in Spans(Finished) /\ q \in Spans(Finished) BY <1>1
    <3> QED BY <3>1
  <2>2. <<>> \in Seq(Spans(Finished)) OBVIOUS
  <2> DEFINE ones == {<<r>> : r \in Rows}
             twos == {<<r, q>> : r, q \in Rows}
  <2>3. CASE rows \in ones
    <3>1. PICK r \in Rows : rows = <<r>> BY <2>3
    <3> QED BY <2>1, <3>1
  <2>4. CASE rows \in twos
    <3>1. PICK r \in Rows, q \in Rows : rows = <<r, q>> BY <2>4
    <3> QED BY <2>1, <3>1
  <2>5. Batches = ones \cup twos BY DEF Batches
  <2> HIDE DEF ones, twos
  <2> QED BY <2>2, <2>3, <2>4, <2>5
<1>3. Finished \in SUBSET (Finished \cup Passing) OBVIOUS
<1> QED BY <1>2, <1>3, EncodeRowsIs

(* At the start the shell's prompt is all of history, above an empty        *)
(* region.                                                                  *)
LEMMA InvInit == ScreenInit => ScreenInv
<1> SUFFICES ASSUME ScreenInit PROVE ScreenInv OBVIOUS
<1> DEFINE l == <<Prompt, Empty>>
<1>0. /\ page = [lines |-> l, at |-> 2, sub |-> 0, col |-> 0]
      /\ owner = "writer" /\ history = <<Prompt>> /\ smeared = FALSE /\ resizesLeft = MaxResizes
  BY DEF ScreenInit
<1>1. term \in Terms /\ term.drawn = <<>> /\ term.drawn_widths = <<>> /\ term.cursor_row = 0
  <2> DEFINE none == <<>>
             zero == 0
             S == Seq(Cells(Passing))
  <2>1. term \in [width : Widths, height : Heights, drawn : {none}, drawn_widths : {none},
                  cursor_row : {zero}, cursor_visible : {TRUE}]
    BY DEF ScreenInit
  <2>2. none \in S /\ none \in Seq(Nat) /\ zero \in Nat OBVIOUS
  <2> HIDE DEF none, zero, S
  <2>3. term.drawn = none /\ term.drawn_widths = none /\ term.cursor_row = zero BY <2>1
  <2>4. term \in [width : Widths, height : Heights, drawn : S, drawn_widths : Seq(Nat),
                  cursor_row : Nat, cursor_visible : BOOLEAN]
    BY <2>1, <2>2
  <2>5. term \in Terms BY <2>4 DEF Terms, S
  <2> QED BY <2>3, <2>5 DEF none, zero
<1>2. Prompt \in Cells(Finished) /\ Prompt \in Lines /\ Empty \in Lines
  BY EmptyIs DEF Prompt, Cells, Lines, Finished
<1>3. l \in Seq(Lines) /\ Len(l) = 2 /\ l[1] = Prompt /\ l[2] = Empty BY <1>2
<1> HIDE DEF l
<1>5. page \in Pages /\ page.lines = l /\ page.at = 2 /\ page.sub = 0 /\ page.col = 0
  <2>1. 2 \in Nat /\ 0 \in Nat OBVIOUS
  <2>2. page.lines = l /\ page.at = 2 /\ page.sub = 0 /\ page.col = 0 BY <1>0
  <2>3. page \in Pages BY <1>0, <1>3, <2>1 DEF Pages
  <2> QED BY <2>2, <2>3
<1>6. RegionTop = 2 BY <1>1, <1>5 DEF RegionTop
<1>7. Framed(term, page, 2)
  <2>1. Len(term.drawn) = 0 /\ term.height \in Nat /\ term.height > 1 BY <1>1, TermIs
  <2>2. Most(0, 1) = 1 BY DEF Most
  <2> DEFINE d == 2
             n == 0
  <2>31. Len(page.lines) = 2 /\ page.lines[2] = Empty BY <1>3, <1>5
  <2>3. ASSUME NEW k \in d .. Len(page.lines)
        PROVE  page.lines[k] = IF k - d < n THEN term.drawn[k - d + 1] ELSE Empty
    <3>1. k \in 2 .. 2 BY <2>31
    <3>2. k = 2 /\ ~(k - d < n) BY <3>1
    <3> QED BY <2>31, <3>2
  <2>4. /\ d \in Nat \ {0} /\ n = Len(term.drawn) /\ n < term.height /\ \A k \in 1 .. n : FALSE
        /\ term.cursor_row < Most(n, 1) /\ page.at = d + term.cursor_row
        /\ d + Most(n, 1) - 1 <= Len(page.lines) /\ Len(page.lines) <= d + term.height - 1
    <3>1. d \in Nat \ {0} /\ n = Len(term.drawn) /\ n < term.height /\ \A k \in 1 .. n : FALSE
      BY <2>1
    <3>2. term.cursor_row < Most(n, 1) BY <1>1, <2>2
    <3>3. page.at = d + term.cursor_row BY <1>1, <1>5
    <3>4. d + Most(n, 1) - 1 <= Len(page.lines) BY <2>2, <2>31
    <3>5. Len(page.lines) <= d + term.height - 1 BY <2>1, <2>31
    <3> QED BY <3>1, <3>2, <3>3, <3>4, <3>5
  <2>6. Counted(term)
    <3>1. Len(term.drawn_widths) = 0 BY <1>1
    <3> QED BY <2>1, <3>1 DEF Counted
  <2> HIDE DEF d, n
  <2>5. Framed(term, page, d) BY <1>1, <1>5, <2>3, <2>4, <2>6 DEF Framed
  <2> QED BY <2>5 DEF d
<1>8. HistoryIsKept
  <2>1. 1 \in 1 .. Len(l) BY <1>3
  <2>2. FinishedTo(l, 1) = IF l[1].text \in Finished
                           THEN Append(FinishedTo(l, 1 - 1), l[1]) ELSE FinishedTo(l, 1 - 1)
    BY <1>3, <2>1, FinishedToIs
  <2>3. FinishedTo(l, 0) = <<>> /\ 1 - 1 = 0 BY <1>3, FinishedToIs
  <2>4. l[1].text \in Finished BY <1>3 DEF Finished
  <2>5. FinishedTo(l, 1) = <<Prompt>>
    <3>1. FinishedTo(l, 1) = Append(<<>>, Prompt) BY <1>3, <2>2, <2>3, <2>4
    <3>2. Append(<<>>, Prompt) = <<Prompt>> OBVIOUS
    <3> QED BY <3>1, <3>2
  <2>6. RegionTop - 1 = 1 BY <1>6
  <2> QED BY <1>0, <1>5, <2>5, <2>6 DEF HistoryIsKept
<1>9. <<Prompt>> \in Seq(Cells(Finished)) /\ Len(<<Prompt>>) = 1 BY <1>2
<1>10. MaxResizes \in 0 .. MaxResizes BY ScreenAssumption
<1>11. RegionTop - 1 = Len(history) BY <1>0, <1>6, <1>9
<1> QED BY <1>0, <1>6, <1>7, <1>8, <1>9, <1>10, <1>11 DEF ScreenInv

(* A step, once the region it leaves behind and what it added to history are*)
(* known.                                                                   *)
LEMMA StepIs ==
  ASSUME ScreenInv, NEW new, NEW rows \in Seq(Cells(Finished)),
         Framed(term', page', new),
         history' = history \o rows,
         FinishedTo(page'.lines, new - 1) = FinishedTo(page.lines, RegionTop - 1) \o rows,
         owner' \in {"writer", "child", "shell"}, owner' # "writer" => term'.drawn = <<>>,
         smeared' \in BOOLEAN, resizesLeft' \in 0 .. MaxResizes,
         smeared' \/ (~smeared /\ new = RegionTop + Len(rows))
  PROVE  ScreenInv'
<1>1. RegionTop' = new /\ new \in Nat \ {0} BY TopIs DEF RegionTop
<1>2. history \in Seq(Cells(Finished)) /\ HistoryIsKept BY DEF ScreenInv
<1>3. history' \in Seq(Cells(Finished)) /\ Len(history') = Len(history) + Len(rows)
      /\ Len(history) \in Nat /\ Len(rows) \in Nat
  BY <1>2
<1>4. HistoryIsKept' BY <1>1, <1>2 DEF HistoryIsKept
<1>5. RegionTop \in Nat \ {0}
  <2>1. Framed(term, page, RegionTop) BY DEF ScreenInv
  <2> QED BY <2>1 DEF Framed
<1>6. smeared' \/ new - 1 = Len(history')
  <2> SUFFICES ASSUME ~smeared' PROVE new - 1 = Len(history') OBVIOUS
  <2>1. RegionTop - 1 = Len(history) /\ new = RegionTop + Len(rows) BY DEF ScreenInv
  <2> QED BY <1>3, <1>5, <2>1
<1> QED BY <1>1, <1>3, <1>4, <1>6 DEF ScreenInv

(* The same for a step that adds nothing to history.                        *)
LEMMA StepKeeps ==
  ASSUME ScreenInv, NEW new, Framed(term', page', new),
         UNCHANGED history,
         FinishedTo(page'.lines, new - 1) = FinishedTo(page.lines, RegionTop - 1),
         owner' \in {"writer", "child", "shell"}, owner' # "writer" => term'.drawn = <<>>,
         smeared' \in BOOLEAN, resizesLeft' \in 0 .. MaxResizes,
         smeared' \/ (~smeared /\ new = RegionTop)
  PROVE  ScreenInv'
<1> DEFINE rows == <<>>
<1>1. rows \in Seq(Cells(Finished)) /\ Len(rows) = 0 OBVIOUS
<1>2. history \in Seq(Cells(Finished)) /\ HistoryIsKept /\ RegionTop \in Nat
  BY DEF ScreenInv, Framed
<1>3. history' = history \o rows BY <1>2
<1>4. FinishedTo(page.lines, RegionTop - 1) = history BY <1>2 DEF HistoryIsKept
<1>5. FinishedTo(page'.lines, new - 1) = FinishedTo(page.lines, RegionTop - 1) \o rows
  BY <1>2, <1>4
<1>6. RegionTop + Len(rows) = RegionTop BY <1>1, <1>2
<1> HIDE DEF rows
<1> QED BY <1>1, <1>3, <1>5, <1>6, StepIs

(* The state, given to an operation as its two sides.                       *)
LEMMA NowIs ==
  ASSUME ScreenInv
  PROVE  /\ Now = [t |-> term, p |-> page] /\ Framed(term, page, RegionTop)
         /\ term \in Terms /\ term.width \in Nat \ {0} /\ RegionTop \in Nat \ {0}
BY TermIs DEF ScreenInv, Now, Framed

(* Two pages whose lines above the region are the same show the same history. *)
LEMMA AboveSame ==
  ASSUME NEW t, NEW p, NEW u, NEW q, NEW top, Framed(t, p, top), Framed(u, q, top),
         \A k \in 1 .. (top - 1) : q.lines[k] = p.lines[k]
  PROVE  FinishedTo(q.lines, top - 1) = FinishedTo(p.lines, top - 1)
<1> DEFINE a == p.lines
           b == q.lines
           c == top - 1
<1>1. top \in Nat \ {0} /\ top \in 1 .. Len(a) /\ top \in 1 .. Len(b) BY FramedFlat
<1>2. a \in Seq(Lines) /\ b \in Seq(Lines) /\ Len(a) \in Nat /\ Len(b) \in Nat
  <2>1. p \in Pages /\ q \in Pages BY DEF Framed
  <2> QED BY <2>1, PageIs
<1>3. c \in Nat /\ c <= Len(a) /\ c <= Len(b) /\ \A k \in 1 .. c : b[k] = a[k] BY <1>1, <1>2
<1> HIDE DEF a, b, c
<1>4. FinishedTo(b, c) = FinishedTo(a, c) BY <1>2, <1>3, FinishedSame
<1> QED BY <1>4 DEF a, b, c

(* Printing adds its rows to history and moves the region below them.       *)
LEMMA StepPrint ==
  ASSUME ScreenInv, NEW f \in Frames, NEW rows \in Batches, PrintHistory(rows, f)
  PROVE  ScreenInv'
<1> DEFINE s == print(Now, rows, f)
           top == RegionTop
           cut == EncodeRows(rows, term.width)
           new == top + Len(rows)
<1>1. term' = s.t /\ page' = s.p /\ history' = history \o cut
      /\ owner = "writer" /\ UNCHANGED <<owner, smeared, resizesLeft>>
  BY DEF PrintHistory, Does, Records
<1>2. cut \in Seq(Cells(Finished)) /\ Len(cut) = Len(rows) /\ rows \in Seq(Spans(Finished))
  <2>1. rows \in Batches \cup {<<>>} /\ term.width \in Nat \ {0} BY NowIs
  <2> QED BY <2>1, FinishedRows
<1>3. /\ Framed(s.t, s.p, new)
      /\ FinishedTo(s.p.lines, new - 1) = FinishedTo(page.lines, top - 1) \o cut
  <2>0. /\ Framed(term, page, top) /\ f \in Frames \cup {NoFrame}
        /\ rows \in Seq(Spans(Finished))
    BY <1>2, NowIs
  <2>1. s = print([t |-> term, p |-> page], rows, f) BY NowIs
  <2> HIDE DEF top, s
  <2>2. LET x == print([t |-> term, p |-> page], rows, f)
        IN  /\ Framed(x.t, x.p, top + Len(rows)) /\ x.t.width = term.width /\ x.t.height = term.height
            /\ FinishedTo(x.p.lines, top + Len(rows) - 1)
                 = FinishedTo(page.lines, top - 1) \o EncodeRows(rows, term.width)
            /\ f = NoFrame => x.t.drawn = <<>>
    BY <2>0, PrintIs, ZenonT(30)
  <2>3. /\ Framed(s.t, s.p, top + Len(rows))
        /\ FinishedTo(s.p.lines, top + Len(rows) - 1) = FinishedTo(page.lines, top - 1) \o cut
    BY <2>1, <2>2, Zenon
  <2>4. new - 1 = top + Len(rows) - 1
    <3>1. top \in Nat /\ Len(rows) \in Nat BY <1>2, NowIs DEF top
    <3> QED BY <3>1
  <2> HIDE DEF new
  <2> QED BY <2>3, <2>4 DEF new
<1> HIDE DEF s, cut
<1>4. owner' = "writer" /\ smeared' = smeared /\ smeared \in BOOLEAN /\ resizesLeft' \in 0 .. MaxResizes
  BY <1>1 DEF ScreenInv
<1>5. new = RegionTop + Len(cut) BY <1>2
<1>6. smeared' \/ (~smeared /\ new = RegionTop + Len(cut)) BY <1>4, <1>5
<1>7. /\ Framed(term', page', new) /\ owner' \in {"writer", "child", "shell"}
      /\ (owner' # "writer" => term'.drawn = <<>>) /\ smeared' \in BOOLEAN
      /\ FinishedTo(page'.lines, new - 1) = FinishedTo(page.lines, RegionTop - 1) \o cut
  BY <1>1, <1>3, <1>4
<1> HIDE DEF new, top
<1> QED BY <1>1, <1>2, <1>4, <1>6, <1>7, StepIs

(* Drawing leaves what is above the region alone.                           *)
LEMMA StepDraw ==
  ASSUME ScreenInv, NEW f \in Frames, DrawFrame(f)
  PROVE  ScreenInv'
<1> DEFINE u == [term EXCEPT !.cursor_row = 0]
           q == Column(Placed(page, RegionTop, 0), 0)
           s == draw_rows([t |-> u, p |-> q], f)
           top == RegionTop
<1>1. term' = s.t /\ page' = s.p /\ UNCHANGED history /\ owner = "writer"
      /\ UNCHANGED <<owner, smeared, resizesLeft>>
  <2>1. move_to_top([t |-> term, p |-> page]) = [t |-> u, p |-> q] BY NowIs, MoveIs
  <2> QED BY <2>1, NowIs DEF DrawFrame, Does, draw
<1>2. Framed(u, q, top) /\ q.lines = page.lines /\ u.cursor_row = 0
  <2>1. u.cursor_row = 0 BY NowIs, ForgetIs
  <2> HIDE DEF u, q
  <2> QED BY <2>1, NowIs, MoveIs DEF u, q
<1> HIDE DEF u, q
<1>3. Framed(s.t, s.p, top) /\ \A k \in 1 .. (top - 1) : s.p.lines[k] = q.lines[k]
  <2> HIDE DEF top
  <2>1. LET x == draw_rows([t |-> u, p |-> q], f)
        IN  /\ Framed(x.t, x.p, top) /\ x.t.width = u.width /\ x.t.height = u.height
            /\ \A k \in 1 .. (top - 1) : x.p.lines[k] = q.lines[k]
            /\ f = NoFrame => x.t.drawn = <<>>
    BY <1>2, DrawIs
  <2> QED BY <2>1
<1> HIDE DEF s
<1>4. FinishedTo(page'.lines, top - 1) = FinishedTo(page.lines, top - 1)
  <2>1. Framed(term', page', top) /\ \A k \in 1 .. (top - 1) : page'.lines[k] = page.lines[k]
    BY <1>1, <1>2, <1>3
  <2> QED BY <2>1, NowIs, AboveSame
<1>5. owner' = "writer" /\ smeared' = smeared /\ smeared \in BOOLEAN /\ resizesLeft' \in 0 .. MaxResizes
  BY <1>1 DEF ScreenInv
<1>6. Framed(term', page', top) BY <1>1, <1>3
<1> QED BY <1>1, <1>4, <1>5, <1>6, StepKeeps

(* A resize leaves history alone, and moves the region only when it smears. *)
LEMMA StepResize ==
  ASSUME ScreenInv, NEW f \in Frames, NEW w \in Widths, NEW h \in Heights, Resize(w, h, f)
  PROVE  ScreenInv'
<1> DEFINE s == resize(Now, w, h, f)
           top == RegionTop
           kept == /\ page.col < w /\ RowsTo(term.drawn, term.cursor_row, w) <= RowsAbove(term, w)
                   /\ RowsOf(page.lines, w) - RowsTo(page.lines, top - 1, w) <= h \/ term.drawn = <<>>
<1>1. /\ term' = s.t /\ page' = s.p /\ UNCHANGED history
      /\ owner = "writer" /\ UNCHANGED owner /\ smeared' = (smeared \/ Smears(w, h))
      /\ resizesLeft > 0 /\ resizesLeft' = resizesLeft - 1
  BY DEF Resize, Does
<1>2. PICK new \in Nat :
        /\ Framed(s.t, s.p, new)
        /\ FinishedTo(s.p.lines, new - 1) = FinishedTo(page.lines, top - 1)
        /\ kept => new = top
  <2> HIDE DEF top
  <2>1. Framed(term, page, top) /\ f \in Frames \cup {NoFrame} BY NowIs DEF top
  <2>2. \E new \in Nat :
          LET x == resize([t |-> term, p |-> page], w, h, f)
          IN  /\ Framed(x.t, x.p, new)
              /\ FinishedTo(x.p.lines, new - 1) = FinishedTo(page.lines, top - 1)
              /\ f = NoFrame => x.t.drawn = <<>>
              /\ /\ page.col < w /\ RowsTo(term.drawn, term.cursor_row, w) <= RowsAbove(term, w)
                 /\ RowsOf(page.lines, w) - RowsTo(page.lines, top - 1, w) <= h \/ term.drawn = <<>>
                 => new = top
    BY <2>1, ResizeIs
  <2>3. s = resize([t |-> term, p |-> page], w, h, f) BY NowIs
  <2> QED BY <2>2, <2>3
<1> HIDE DEF s
<1>3. smeared' \in BOOLEAN /\ resizesLeft' \in 0 .. MaxResizes
  <2>1. smeared \in BOOLEAN /\ resizesLeft \in 0 .. MaxResizes /\ MaxResizes \in Nat
    BY ScreenAssumption DEF ScreenInv
  <2>2. Smears(w, h) \in BOOLEAN BY DEF Smears, CaretReflows, Overflows, FillReflows
  <2> QED BY <1>1, <2>1, <2>2
<1>4. ~smeared' => kept
  <2> SUFFICES ASSUME ~smeared' PROVE kept OBVIOUS
  <2>1. /\ ~(page.col >= w) /\ ~(RowsOf(page.lines, w) - RowsTo(page.lines, top - 1, w) > h)
        /\ ~(RowsTo(term.drawn, term.cursor_row, w) > RowsAbove(term, w))
    BY <1>1, <1>3 DEF Smears, CaretReflows, Overflows, FillReflows
  <2>2. page.col \in Nat /\ w \in Nat /\ h \in Nat
    BY NowIs, ScreenAssumption, PageIs DEF Framed
  <2>3. RowsOf(page.lines, w) \in Nat /\ RowsTo(page.lines, top - 1, w) \in Nat
    <3>0. w \in Nat \ {0} BY ScreenAssumption
    <3>1. page.lines \in Seq(Lines) /\ Len(page.lines) \in Nat /\ top \in 1 .. Len(page.lines)
      BY NowIs, FramedFlat, PageIs DEF Framed
    <3>2. top - 1 \in 0 .. Len(page.lines) /\ Len(page.lines) \in 0 .. Len(page.lines) BY <3>1
    <3> QED BY <3>0, <3>1, <3>2, RowsToIs DEF RowsOf
  <2> DEFINE a == RowsOf(page.lines, w)
             b == RowsTo(page.lines, top - 1, w)
  <2> HIDE DEF a, b
  <2>4. a \in Nat /\ b \in Nat /\ ~(a - b > h) BY <2>1, <2>3 DEF a, b
  <2>5. a - b <= h BY <2>2, <2>4
  <2>6. RowsTo(term.drawn, term.cursor_row, w) \in Nat /\ RowsAbove(term, w) \in Nat
    <3>1. term \in Terms /\ Counted(term) /\ w \in Nat \ {0} /\ term.cursor_row \in 0 .. Len(term.drawn)
      <4>1. term \in Terms /\ Counted(term) /\ term.cursor_row < Most(Len(term.drawn), 1)
        BY NowIs DEF Framed
      <4>2. term.cursor_row \in Nat /\ Len(term.drawn) \in Nat BY <4>1, TermIs
      <4>3. w \in Nat \ {0} BY ScreenAssumption
      <4> QED BY <4>1, <4>2, <4>3 DEF Most
    <3> QED BY <3>1, CountedFewer DEF RowsAbove
  <2> QED BY <2>1, <2>2, <2>5, <2>6 DEF a, b
<1>5. Framed(term', page', new) /\ FinishedTo(page'.lines, new - 1) = FinishedTo(page.lines, top - 1)
  BY <1>1, <1>2
<1>6. smeared' \/ (~smeared /\ new = top) BY <1>1, <1>2, <1>4
<1> HIDE DEF kept
<1>7. owner' = "writer" BY <1>1
<1> QED BY <1>1, <1>3, <1>5, <1>6, <1>7, StepKeeps

(* Suspending leaves an empty region below history.                         *)
LEMMA StepSuspend ==
  ASSUME ScreenInv, Suspend
  PROVE  ScreenInv'
<1> DEFINE s == clear_live(Now)
           top == RegionTop
<1>1. /\ term' = [s.t EXCEPT !.cursor_visible = TRUE] /\ page' = s.p
      /\ owner' = "child" /\ UNCHANGED <<history, smeared, resizesLeft>>
      /\ Framed(s.t, s.p, top) /\ s.t = Forget(term)
      /\ \A k \in 1 .. (top - 1) : s.p.lines[k] = page.lines[k]
  <2>1. LET x == clear_live([t |-> term, p |-> page])
        IN  /\ Framed(x.t, x.p, RegionTop) /\ x.t = Forget(term) /\ x = [t |-> x.t, p |-> x.p]
            /\ \A k \in 1 .. (RegionTop - 1) : x.p.lines[k] = page.lines[k]
    BY NowIs, ClearIs
  <2>2. /\ Framed(s.t, s.p, top) /\ s.t = Forget(term) /\ s = [t |-> s.t, p |-> s.p]
        /\ \A k \in 1 .. (top - 1) : s.p.lines[k] = page.lines[k]
    BY <2>1, NowIs
  <2>3. /\ term' = [s.t EXCEPT !.cursor_visible = TRUE] /\ page' = s.p
        /\ owner' = "child" /\ UNCHANGED <<history, smeared, resizesLeft>>
    BY DEF Suspend, Does
  <2> QED BY <2>2, <2>3
<1> HIDE DEF s
<1>2. /\ term' \in Terms /\ term'.drawn = s.t.drawn /\ term'.drawn_widths = s.t.drawn_widths /\ term'.cursor_row = s.t.cursor_row
      /\ term'.width = s.t.width /\ term'.height = s.t.height /\ s.t.drawn = <<>>
  <2>1. s.t \in Terms BY <1>1 DEF Framed
  <2>2. s.t.drawn = <<>> BY <1>1, NowIs, ForgetIs
  <2> QED BY <1>1, <2>1, <2>2 DEF Terms
<1>3. Framed(term', page', top) BY <1>1, <1>2 DEF Framed, Counted
<1>4. \A k \in 1 .. (top - 1) : page'.lines[k] = page.lines[k] BY <1>1
<1> HIDE DEF top
<1>5. FinishedTo(page'.lines, top - 1) = FinishedTo(page.lines, top - 1)
  BY <1>3, <1>4, NowIs, AboveSame DEF top
<1>6. /\ owner' = "child" /\ UNCHANGED history /\ smeared' = smeared /\ smeared \in BOOLEAN
      /\ resizesLeft' \in 0 .. MaxResizes /\ term'.drawn = <<>>
  BY <1>1, <1>2 DEF ScreenInv
<1> QED BY <1>3, <1>5, <1>6, StepKeeps DEF top

(* A region of which nothing is drawn.                                      *)
LEMMA EmptyRegion ==
  ASSUME NEW t, NEW p, NEW top, Framed(t, p, top), t.drawn = <<>>
  PROVE  /\ t.cursor_row = 0 /\ p.at = top /\ p.col = 0 /\ Len(t.drawn) = 0
         /\ \A k \in top .. Len(p.lines) : p.lines[k] = Empty
         /\ Framed([Forget(t) EXCEPT !.cursor_visible = TRUE], p, top)
<1>1. t \in Terms /\ p \in Pages /\ top \in Nat \ {0} BY DEF Framed
<1>2. Len(t.drawn) = 0 /\ t.cursor_row \in Nat BY <1>1, TermIs
<1>3. t.cursor_row = 0 /\ p.at = top /\ p.col = 0
  <2>1. t.cursor_row < Most(0, 1) /\ p.at = top + t.cursor_row /\ p.col = 0 BY <1>2 DEF Framed
  <2>2. t.cursor_row = 0 BY <1>2, <2>1 DEF Most
  <2> QED BY <1>1, <2>1, <2>2
<1>4. ASSUME NEW k \in top .. Len(p.lines) PROVE p.lines[k] = Empty
  <2>1. ~(k - top < 0) BY <1>1
  <2> QED BY <1>2, <2>1 DEF Framed
<1> DEFINE u == [Forget(t) EXCEPT !.cursor_visible = TRUE]
<1>5. /\ u \in Terms /\ u.drawn = t.drawn /\ u.drawn_widths = <<>> /\ u.cursor_row = t.cursor_row
      /\ u.width = t.width /\ u.height = t.height
  BY <1>1, <1>3, ForgetIs DEF Terms
<1> HIDE DEF u
<1>7. Counted(u) BY <1>2, <1>5 DEF Counted
<1>6. Framed(u, p, top) BY <1>5, <1>7 DEF Framed
<1> QED BY <1>2, <1>3, <1>4, <1>6 DEF u

(* A line of the child is added to history, and the region is below it.     *)
LEMMA StepChild ==
  ASSUME ScreenInv, NEW raw \in Rows, ChildWrites(raw)
  PROVE  ScreenInv'
<1> DEFINE row == [text |-> raw.text, width |-> raw.width]
           q == Put(page, row)
           v == CrLf(q)
           top == RegionTop
           n == Len(page.lines)
           h == term.height
           new == top + 1
           rows == <<row>>
<1>1. /\ term' = term /\ page' = v /\ history' = history \o rows
      /\ owner = "child" /\ UNCHANGED <<term, owner, smeared, resizesLeft>>
  BY DEF ChildWrites, Records
<1>2. Framed(term, page, top) /\ top \in Nat \ {0} /\ term \in Terms /\ page \in Pages
      /\ term.drawn = <<>>
  BY <1>1, NowIs DEF ScreenInv, Framed
<1> HIDE DEF top
<1>3. /\ page.at = top /\ page.sub = 0 /\ n \in Nat /\ h \in Nat /\ top <= n /\ n <= top + h - 1
      /\ Len(term.drawn) = 0 /\ term.cursor_row = 0 /\ h > 1
      /\ \A k \in top .. n : page.lines[k] = Empty
  <2>1. page.sub = 0 /\ n <= top + h - 1 BY <1>2 DEF Framed
  <2>2. n \in Nat /\ h \in Nat /\ h > 1 BY <1>2, PageIs, TermIs
  <2>3. top \in 1 .. n BY <1>2, FramedFlat
  <2>4. /\ page.at = top /\ Len(term.drawn) = 0 /\ term.cursor_row = 0
        /\ \A k \in top .. n : page.lines[k] = Empty
    BY <1>2, EmptyRegion
  <2> QED BY <1>2, <2>1, <2>2, <2>3, <2>4
<1>4. row \in Lines /\ row.text \in Finished /\ rows \in Seq(Cells(Finished)) /\ Len(rows) = 1
  <2>0. raw \in Spans(Finished) BY ScreenAssumption
  <2>1. row \in Cells(Finished) BY <2>0 DEF Spans, Cells
  <2> HIDE DEF row
  <2> QED BY <2>1 DEF Cells, Lines
<1> HIDE DEF row
<1>5. /\ q \in Pages /\ q.at = top /\ Len(q.lines) = n
      /\ \A k \in 1 .. n : q.lines[k] = IF k = top THEN row ELSE page.lines[k]
  <2>1. LET u == Put(page, row)
        IN  /\ u \in Pages /\ u.at = page.at /\ u.sub = page.sub /\ u.col = page.col
            /\ Len(u.lines) = Len(page.lines)
            /\ \A k \in 1 .. Len(page.lines) : u.lines[k] = IF k = page.at THEN row ELSE page.lines[k]
    BY <1>2, <1>4, PutIs
  <2> QED BY <1>3, <2>1
<1> HIDE DEF q, rows
<1>6. /\ v \in Pages /\ v.at = new /\ v.sub = 0 /\ v.col = 0
      /\ Len(v.lines) = IF top = n THEN new ELSE n
      /\ \A k \in 1 .. Len(v.lines) : v.lines[k] = IF k \in 1 .. n THEN q.lines[k] ELSE Empty
  <2>1. LET u == CrLf(q)
        IN  /\ u \in Pages /\ u.at = q.at + 1 /\ u.sub = 0 /\ u.col = 0
            /\ Len(u.lines) = IF q.at = Len(q.lines) THEN q.at + 1 ELSE Len(q.lines)
            /\ \A k \in 1 .. Len(u.lines) :
                 u.lines[k] = IF k \in 1 .. Len(q.lines) THEN q.lines[k] ELSE Empty
    BY <1>5, CrLfIs
  <2> HIDE DEF n
  <2> QED BY <1>5, <2>1
<1> HIDE DEF v, n, h
<1>7. /\ new \in Nat \ {0} /\ new <= Len(v.lines) /\ Len(v.lines) <= new + h - 1 /\ new - 1 = top
      /\ Len(v.lines) \in Nat /\ top \in 1 .. Len(v.lines) /\ v.lines \in Seq(Lines)
      /\ new + 0 = new /\ new + 1 - 1 = new
  <2>1. v.lines \in Seq(Lines) BY <1>6, PageIs
  <2> QED BY <1>2, <1>3, <1>6, <2>1
<1> HIDE DEF new
<1>8. ASSUME NEW k \in new .. Len(v.lines) PROVE v.lines[k] = Empty
  <2>1. k \in 1 .. Len(v.lines) /\ k # top /\ (k \in 1 .. n => k \in top .. n) BY <1>2, <1>3, <1>7
  <2> QED BY <1>3, <1>5, <1>6, <2>1
<1>9. Framed(term, v, new)
  <2> DEFINE c == 0
  <2>1. /\ new \in Nat \ {0} /\ new + 1 - 1 <= Len(v.lines) /\ Len(v.lines) <= new + h - 1
        /\ Len(term.drawn) = c /\ term.cursor_row = c /\ Most(c, 1) = 1 /\ c < 1 /\ c < h
        /\ v.at = new + c /\ \A k \in 1 .. c : term.drawn[k].width < term.width
    BY <1>3, <1>6, <1>7 DEF Most
  <2>2. ASSUME NEW k \in new .. Len(v.lines)
        PROVE  v.lines[k] = IF k - new < c THEN term.drawn[k - new + 1] ELSE Empty
    <3>1. ~(k - new < c) BY <1>7
    <3> QED BY <1>8, <3>1
  <2> HIDE DEF c
  <2> QED BY <1>2, <1>6, <2>1, <2>2 DEF Framed, h
<1>10. FinishedTo(v.lines, new - 1) = FinishedTo(page.lines, top - 1) \o rows
  <2>1. v.lines[top] = row BY <1>2, <1>3, <1>5, <1>6, <1>7
  <2>2. FinishedTo(v.lines, top) = Append(FinishedTo(v.lines, top - 1), row)
    BY <1>4, <1>7, <2>1, FinishedToIs
  <2> DEFINE a == page.lines
             b == v.lines
             e == top - 1
  <2>3. a \in Seq(Lines) /\ Len(a) \in Nat BY <1>2, PageIs
  <2>4. /\ e \in Nat /\ e <= Len(a) /\ e <= Len(b) /\ e \in 0 .. Len(a)
    BY <1>2, <1>3, <1>7, <2>3 DEF n
  <2>5. ASSUME NEW k \in 1 .. e PROVE b[k] = a[k]
    <3>1. k \in 1 .. Len(v.lines) /\ k \in 1 .. n /\ k # top BY <1>2, <1>3, <1>7
    <3> QED BY <1>5, <1>6, <3>1
  <2> HIDE DEF a, b, e
  <2>6. FinishedTo(b, e) = FinishedTo(a, e) BY <1>7, <2>3, <2>4, <2>5, FinishedSame DEF b
  <2>7. FinishedTo(a, e) \in Seq(Lines) BY <2>3, <2>4, FinishedToIs
  <2>8. Append(FinishedTo(a, e), row) = FinishedTo(a, e) \o rows
    BY <1>4, <2>7, AppendIsConcat DEF rows
  <2> QED BY <1>7, <2>2, <2>6, <2>8 DEF a, b, e
<1>11. /\ Framed(term', page', new) /\ owner' = "child" /\ term'.drawn = <<>>
       /\ smeared' = smeared /\ smeared \in BOOLEAN /\ resizesLeft' \in 0 .. MaxResizes
       /\ FinishedTo(page'.lines, new - 1) = FinishedTo(page.lines, RegionTop - 1) \o rows
  BY <1>1, <1>2, <1>9, <1>10 DEF ScreenInv, top
<1>12. new = RegionTop + Len(rows) BY <1>4 DEF new, top
<1>13. /\ Framed(term', page', new) /\ owner' \in {"writer", "child", "shell"}
       /\ (owner' # "writer" => term'.drawn = <<>>) /\ smeared' \in BOOLEAN
       /\ FinishedTo(page'.lines, new - 1) = FinishedTo(page.lines, RegionTop - 1) \o rows
  BY <1>11
<1>14. smeared' \/ (~smeared /\ new = RegionTop + Len(rows)) BY <1>11, <1>12
<1> HIDE DEF new, top
<1> QED BY <1>1, <1>4, <1>11, <1>13, <1>14, StepIs

(* Resuming at whatever size finds the empty region where it was.           *)
LEMMA StepResume ==
  ASSUME ScreenInv, NEW w \in Widths, NEW h \in Heights, Resume(w, h)
  PROVE  ScreenInv'
<1> DEFINE s == resize(Now, w, h, NoFrame)
           top == RegionTop
<1>1. /\ term' = s.t /\ page' = s.p /\ UNCHANGED <<history, smeared>>
      /\ owner = "child" /\ owner' = "writer"
      /\ w # term.width \/ h # term.height => resizesLeft > 0
      /\ resizesLeft' = IF <<w, h>> = <<term.width, term.height>> THEN resizesLeft ELSE resizesLeft - 1
  BY DEF Resume, Does
<1>2. Framed(term, page, top) /\ term.drawn = <<>> /\ page.col = 0 /\ w \in Nat \ {0}
  <2>1. Framed(term, page, top) /\ term.drawn = <<>> BY <1>1, NowIs DEF ScreenInv
  <2>2. w \in Nat \ {0} BY ScreenAssumption
  <2> HIDE DEF top
  <2> QED BY <2>1, <2>2, EmptyRegion
<1>3. /\ Framed(s.t, s.p, top)
      /\ FinishedTo(s.p.lines, top - 1) = FinishedTo(page.lines, top - 1)
  <2>0. s = resize([t |-> term, p |-> page], w, h, NoFrame) BY NowIs
  <2> HIDE DEF top, s
  <2>1. NoFrame \in Frames \cup {NoFrame} OBVIOUS
  <2>2. \E new \in Nat :
          LET x == resize([t |-> term, p |-> page], w, h, NoFrame)
          IN  /\ Framed(x.t, x.p, new)
              /\ FinishedTo(x.p.lines, new - 1) = FinishedTo(page.lines, top - 1)
              /\ NoFrame = NoFrame => x.t.drawn = <<>>
              /\ /\ page.col < w /\ RowsTo(term.drawn, term.cursor_row, w) <= RowsAbove(term, w)
                 /\ RowsOf(page.lines, w) - RowsTo(page.lines, top - 1, w) <= h \/ term.drawn = <<>>
                 => new = top
    BY <1>2, <2>1, ResizeIs
  <2>3. page.col < w BY <1>2
  <2>4. RowsTo(term.drawn, term.cursor_row, w) <= RowsAbove(term, w)
    <3>1. term \in Terms /\ Counted(term) BY <1>2 DEF Framed
    <3>2. term.cursor_row = 0 /\ Len(term.drawn) = 0 BY <1>2, EmptyRegion
    <3>3. 0 \in 0 .. Len(term.drawn) BY <3>2
    <3>4. RowsTo(Widthwise(term), 0, w) \in Nat BY <1>2, <3>1, <3>3, CountedFewer
    <3>5. RowsTo(term.drawn, 0, w) = 0
      <4>1. term.drawn \in Seq(Lines) BY <3>1, TermIs
      <4> QED BY <1>2, <4>1, RowsToIs
    <3> QED BY <3>2, <3>4, <3>5 DEF RowsAbove
  <2> QED BY <1>2, <2>0, <2>2, <2>3, <2>4
<1> HIDE DEF s
<1>4. resizesLeft' \in 0 .. MaxResizes
  <2>1. resizesLeft \in 0 .. MaxResizes /\ MaxResizes \in Nat BY ScreenAssumption DEF ScreenInv
  <2>2. <<w, h>> = <<term.width, term.height>> \/ resizesLeft > 0 BY <1>1
  <2> QED BY <1>1, <2>1, <2>2
<1>5. /\ Framed(term', page', top) /\ smeared' = smeared /\ smeared \in BOOLEAN
      /\ FinishedTo(page'.lines, top - 1) = FinishedTo(page.lines, top - 1)
  BY <1>1, <1>3 DEF ScreenInv
<1> QED BY <1>1, <1>4, <1>5, StepKeeps

(* The end of the run, from the region clear_live empties and what is left to  *)
(* print below history.                                                     *)
LEMMA FinishIs ==
  ASSUME NEW t, NEW p, NEW top, Framed(t, p, top), t.drawn = <<>>
  PROVE  LET s == finish_region([t |-> t, p |-> p])
         IN  Framed(s.t, s.p, top) /\ s.p = p /\ s.t.drawn = <<>>
<1> DEFINE u == [Forget(t) EXCEPT !.cursor_visible = TRUE]
<1>1. finish_region([t |-> t, p |-> p]) = [t |-> u, p |-> p] BY DEF finish_region
<1>2. Framed(u, p, top) BY EmptyRegion
<1>3. u.drawn = <<>>
  <2>1. t \in Terms BY DEF Framed
  <2> QED BY <2>1, ForgetIs DEF Terms
<1> HIDE DEF u
<1> QED BY <1>1, <1>2, <1>3

(* Leaving prints what is left, and the region stays empty.                 *)
LEMMA StepLeave ==
  ASSUME ScreenInv, NEW rows \in {<<>>} \cup Batches, Leave(rows)
  PROVE  ScreenInv'
<1> DEFINE s == clear_live(Now)
           z == IF rows = <<>> THEN s ELSE print(s, rows, NoFrame)
           e == finish_region(z)
           top == RegionTop
           cut == EncodeRows(rows, term.width)
           new == top + Len(rows)
<1>1. term' = e.t /\ page' = e.p /\ history' = history \o cut
      /\ owner' = "shell" /\ UNCHANGED <<smeared, resizesLeft>>
  BY DEF Leave, Does, Records
<1>2. cut \in Seq(Cells(Finished)) /\ Len(cut) = Len(rows) /\ rows \in Seq(Spans(Finished))
      /\ Len(rows) \in Nat
  <2>1. rows \in Batches \cup {<<>>} /\ term.width \in Nat \ {0} BY NowIs
  <2> QED BY <2>1, FinishedRows
<1>3. /\ Framed(s.t, s.p, top) /\ s.t.drawn = <<>> /\ s.t.width = term.width
      /\ s = [t |-> s.t, p |-> s.p]
      /\ FinishedTo(s.p.lines, top - 1) = FinishedTo(page.lines, top - 1)
  <2>1. LET x == clear_live([t |-> term, p |-> page])
        IN  /\ Framed(x.t, x.p, RegionTop) /\ x.t = Forget(term) /\ x = [t |-> x.t, p |-> x.p]
            /\ \A k \in 1 .. (RegionTop - 1) : x.p.lines[k] = page.lines[k]
    BY NowIs, ClearIs
  <2>2. /\ Framed(s.t, s.p, top) /\ s.t = Forget(term) /\ s = [t |-> s.t, p |-> s.p]
        /\ \A k \in 1 .. (top - 1) : s.p.lines[k] = page.lines[k]
    BY <2>1, NowIs
  <2>3. s.t.drawn = <<>> /\ s.t.width = term.width BY <2>2, NowIs, ForgetIs
  <2> HIDE DEF s, top
  <2>4. FinishedTo(s.p.lines, top - 1) = FinishedTo(page.lines, top - 1)
    BY <2>2, NowIs, AboveSame DEF top
  <2> QED BY <2>2, <2>3, <2>4
<1>4. top \in Nat \ {0} BY NowIs
<1>5. /\ z = [t |-> z.t, p |-> z.p] /\ Framed(z.t, z.p, new) /\ z.t.drawn = <<>>
      /\ FinishedTo(z.p.lines, new - 1) = FinishedTo(page.lines, top - 1) \o cut
  <2> HIDE DEF s, top
  <2>1. CASE rows = <<>>
    <3>1. z = s /\ new = top BY <1>4, <2>1
    <3>2. cut = <<>> BY <1>2, <2>1
    <3>3. FinishedTo(page.lines, top - 1) = history BY DEF ScreenInv, HistoryIsKept, top
    <3>4. history \o <<>> = history
      <4>1. history \in Seq(Cells(Finished)) BY DEF ScreenInv
      <4> QED BY <4>1
    <3> HIDE DEF z, new, cut
    <3> QED BY <1>3, <3>1, <3>2, <3>3, <3>4
  <2>2. CASE rows # <<>>
    <3> DEFINE f == NoFrame
    <3>1. LET x == print([t |-> s.t, p |-> s.p], rows, f)
          IN  /\ Framed(x.t, x.p, top + Len(rows)) /\ x.t.width = s.t.width /\ x.t.height = s.t.height
              /\ FinishedTo(x.p.lines, top + Len(rows) - 1)
                   = FinishedTo(s.p.lines, top - 1) \o EncodeRows(rows, s.t.width)
              /\ f = NoFrame => x.t.drawn = <<>>
      <4> DEFINE a == s.t
                 b == s.p
      <4>1. Framed(a, b, top) /\ rows \in Seq(Spans(Finished)) /\ f \in Frames \cup {NoFrame}
        BY <1>2, <1>3
      <4> HIDE DEF a, b, f, new, z
      <4>2. LET x == print([t |-> a, p |-> b], rows, f)
            IN  /\ Framed(x.t, x.p, top + Len(rows)) /\ x.t.width = a.width /\ x.t.height = a.height
                /\ FinishedTo(x.p.lines, top + Len(rows) - 1)
                     = FinishedTo(b.lines, top - 1) \o EncodeRows(rows, a.width)
                /\ f = NoFrame => x.t.drawn = <<>>
        BY <4>1, PrintIs, ZenonT(30)
      <4> QED BY <4>2 DEF a, b
    <3>2. z = print([t |-> s.t, p |-> s.p], rows, f) BY <1>3, <2>2
    <3>3. z = [t |-> z.t, p |-> z.p] BY <2>2 DEF print, draw_rows
    <3>4. new - 1 = top + Len(rows) - 1 BY <1>2, <1>4
    <3> HIDE DEF z
    <3>5. /\ Framed(z.t, z.p, top + Len(rows)) /\ z.t.drawn = <<>>
          /\ FinishedTo(z.p.lines, top + Len(rows) - 1)
               = FinishedTo(s.p.lines, top - 1) \o EncodeRows(rows, s.t.width)
      BY <3>1, <3>2
    <3> HIDE DEF new
    <3> QED BY <1>3, <3>3, <3>4, <3>5 DEF new
  <2> QED BY <2>1, <2>2
<1> HIDE DEF z, s
<1>6. Framed(e.t, e.p, new) /\ e.p = z.p /\ e.t.drawn = <<>>
  <2>1. LET x == finish_region([t |-> z.t, p |-> z.p])
        IN  Framed(x.t, x.p, new) /\ x.p = z.p /\ x.t.drawn = <<>>
    BY <1>5, FinishIs
  <2>2. e = finish_region([t |-> z.t, p |-> z.p]) BY <1>5
  <2> QED BY <2>1, <2>2
<1> HIDE DEF e, cut
<1>7. /\ Framed(term', page', new) /\ owner' \in {"writer", "child", "shell"}
      /\ (owner' # "writer" => term'.drawn = <<>>)
      /\ FinishedTo(page'.lines, new - 1) = FinishedTo(page.lines, RegionTop - 1) \o cut
  BY <1>1, <1>5, <1>6
<1>8. smeared' \in BOOLEAN /\ resizesLeft' \in 0 .. MaxResizes
      /\ (smeared' \/ (~smeared /\ new = RegionTop + Len(cut)))
  BY <1>1, <1>2 DEF ScreenInv
<1> HIDE DEF new, top
<1> QED BY <1>1, <1>2, <1>7, <1>8, StepIs

(* Every step keeps the invariant.                                          *)
LEMMA InvNext == ScreenInv /\ [ScreenNext]_screenVars => ScreenInv'
<1> SUFFICES ASSUME ScreenInv, [ScreenNext]_screenVars PROVE ScreenInv' OBVIOUS
<1>1. ASSUME NEW f \in Frames, NEW rows \in Batches, PrintHistory(rows, f) PROVE ScreenInv'
  BY <1>1, StepPrint
<1>2. ASSUME NEW f \in Frames, DrawFrame(f) PROVE ScreenInv' BY <1>2, StepDraw
<1>3. ASSUME NEW f \in Frames, NEW w \in Widths, NEW h \in Heights, Resize(w, h, f) PROVE ScreenInv'
  BY <1>3, StepResize
<1>4. CASE Suspend BY <1>4, StepSuspend
<1>5. ASSUME NEW r \in Rows, ChildWrites(r) PROVE ScreenInv' BY <1>5, StepChild
<1>6. ASSUME NEW w \in Widths, NEW h \in Heights, Resume(w, h) PROVE ScreenInv' BY <1>6, StepResume
<1>7. ASSUME NEW rows \in {<<>>} \cup Batches, Leave(rows) PROVE ScreenInv' BY <1>7, StepLeave
<1>8. CASE UNCHANGED screenVars
  BY <1>8 DEF screenVars, ScreenInv, RegionTop, HistoryIsKept
<1> QED BY <1>1, <1>2, <1>3, <1>4, <1>5, <1>6, <1>7, <1>8 DEF ScreenNext

(* The invariant gives the types.                                           *)
LEMMA InvTypes == ScreenInv => ScreenTypeOK
<1> SUFFICES ASSUME ScreenInv PROVE ScreenTypeOK OBVIOUS
<1> DEFINE top == RegionTop
<1>1. Framed(term, page, top) /\ term \in Terms /\ page \in Pages BY DEF ScreenInv, Framed
<1>2. /\ term.width \in Widths /\ term.height \in Heights
      /\ term.cursor_row \in Nat /\ term.cursor_visible \in BOOLEAN
  BY <1>1, TermIs
<1>3. /\ Len(term.drawn) < term.height /\ Len(term.drawn_widths) = Len(term.drawn)
      /\ page.sub = 0
  BY <1>1 DEF Framed, Counted
<1> HIDE DEF top
<1>4. page.col \in Nat /\ page.lines \in Seq(Lines) BY <1>1, PageIs
<1>5. page.at \in DOMAIN page.lines
  <2>1. page.at \in 1 .. Len(page.lines) BY <1>1, FramedFlat
  <2> QED BY <1>4, <2>1
<1> QED BY <1>2, <1>3, <1>4, <1>5 DEF ScreenTypeOK, ScreenInv

(* The invariant gives the drawn region, as the rows of the page.           *)
LEMMA InvDrawn == ScreenInv => ScreenIsTrue
<1> SUFFICES ASSUME ScreenInv PROVE ScreenIsTrue OBVIOUS
<1> DEFINE top == RegionTop
           n == Len(term.drawn)
           l == page.lines
           region == SubSeq(l, top, top + n - 1)
<1>1. Framed(term, page, top) /\ term \in Terms /\ page \in Pages BY DEF ScreenInv, Framed
<1>2. /\ top \in Nat \ {0} /\ n \in Nat /\ l \in Seq(Lines) /\ Len(l) \in Nat
      /\ term.drawn \in Seq(Lines)
  <2>1. top \in Nat \ {0} BY <1>1 DEF Framed
  <2> HIDE DEF top
  <2> QED BY <1>1, <2>1, PageIs, TermIs
<1>3. top + Most(n, 1) - 1 <= Len(l) BY <1>1 DEF Framed
<1>4. ASSUME NEW k \in top .. Len(l)
      PROVE  l[k] = IF k - top < n THEN term.drawn[k - top + 1] ELSE Empty
  BY <1>1 DEF Framed
<1> HIDE DEF top, n, l
<1>5. top + n - 1 \in 0 .. Len(l) /\ top - 1 <= top + n - 1
  BY <1>2, <1>3 DEF Most
<1>6. /\ region \in Seq(Lines) /\ Len(region) = n
      /\ \A i \in 1 .. n : region[i] = l[top + i - 1]
  <2> DEFINE b == top + n - 1
  <2>0. b \in Int /\ (n # 0 => top <= b) /\ (n = 0 => b < top) /\ b <= Len(l) BY <1>2, <1>5
  <2>1. CASE n = 0
    <3>1. region = <<>> BY <1>2, <2>0, <2>1
    <3>2. 1 .. n = {} BY <2>1
    <3>3. <<>> \in Seq(Lines) /\ Len(<<>>) = 0 OBVIOUS
    <3> HIDE DEF region
    <3>4. \A i \in 1 .. n : region[i] = l[top + i - 1] BY <3>2
    <3> QED BY <2>1, <3>1, <3>3, <3>4
  <2>2. CASE n # 0
    <3>1. top \in 1 .. Len(l) /\ b \in top .. Len(l) /\ b - top + 1 = n BY <1>2, <2>0, <2>2
    <3> HIDE DEF b
    <3>2. /\ SubSeq(l, top, b) \in Seq(Lines) /\ Len(SubSeq(l, top, b)) = b - top + 1
          /\ \A i \in 1 .. (b - top + 1) : SubSeq(l, top, b)[i] = l[top + i - 1]
      BY <1>2, <3>1
    <3> QED BY <3>1, <3>2 DEF b
  <2> QED BY <2>1, <2>2
<1> HIDE DEF region
<1>7. region = term.drawn
  <2>1. ASSUME NEW i \in 1 .. n PROVE region[i] = term.drawn[i]
    <3> DEFINE k == top + i - 1
    <3>1. k \in top .. Len(l) /\ k - top < n /\ k - top + 1 = i BY <1>2, <1>5
    <3>2. region[i] = l[k] BY <1>6
    <3> HIDE DEF k
    <3> QED BY <1>4, <3>1, <3>2
  <2>2. Len(term.drawn) = n BY DEF n
  <2> QED BY <1>2, <1>6, <2>1, <2>2, SameLists
<1>8. ASSUME NEW k \in top + Most(n, 1) .. Len(l) PROVE l[k] = Empty
  <2>1. k \in top .. Len(l) /\ ~(k - top < n) BY <1>2 DEF Most
  <2> QED BY <1>4, <2>1
<1>9. RegionTop - 1 = Len(history) \/ smeared BY DEF ScreenInv
<1>10. RegionIsDrawn BY <1>7, <1>8, <1>9 DEF RegionIsDrawn, region, top, n, l
<1> QED BY <1>10 DEF ScreenIsTrue, ScreenInv

(* The writer is well typed: the region it drew fits in the window, and the *)
(* cursor is at the start row of a line that exists (draw_rows, resize).    *)
THEOREM ScreenTypeCorrect == ScreenSpec => []ScreenTypeOK
<1> QED BY InvInit, InvNext, InvTypes, PTL DEF ScreenSpec

(* Belief and terminal agree (term.rs 5-7, 16-19): for any widths and       *)
(* heights of two or more, any frames, rows and resizes, the finished rows  *)
(* above the region are the history in its order, the region is what the    *)
(* writer drew, and nothing else is left but after a resize that reflows    *)
(* the caret's row or a fill above it, or leaves too few rows (Smears).     *)
THEOREM ScreenTrue == ScreenSpec => []ScreenIsTrue
<1> QED BY InvInit, InvNext, InvDrawn, PTL DEF ScreenSpec
=============================================================================
