------------------------------ MODULE TurnText ------------------------------
(***************************************************************************)
(* Each word of a reply is shown once and in order, for every set of       *)
(* streams and tokens and every number of events.                          *)
(*                                                                         *)
(* The invariant (Spoken) rests on the one of TurnProofs. What the host    *)
(* said of an open reply is the prefix that was taken off it followed by   *)
(* what its entry holds, and history has of it what that prefix shows; of  *)
(* a reply that is done, history and its entry together show what was      *)
(* said, and once the entry has left, history alone does. Most methods are *)
(* silent (Hush): they keep the texts and who holds them. The others open  *)
(* a reply, add to it, end it, split it, or print.                         *)
(***************************************************************************)
EXTENDS TurnProofs

-----------------------------------------------------------------------------
(* Texts, and what is kept of them.                                         *)
(* The kinds of pieces a text is made of.                                   *)
Marks == {"w", "b", "f"}

(* A first place where something fails.                                     *)
LEMMA LeastIn ==
  ASSUME NEW n \in Nat, NEW B, B \subseteq 0..n, B # {}
  PROVE  \E k \in B : k \in 0..n /\ \A x \in B : k <= x
<1>1. B \in SUBSET Nat OBVIOUS
<1> QED BY <1>1, MinOf

(* Keeping, unfolded: what is kept of the first n.                          *)
LEMMA KeepingSteps ==
  ASSUME NEW S, NEW q \in Seq(S), NEW K
  PROVE  \E f : /\ f[0] = <<>> /\ Keeping(q, K) = f[Len(q)]
                /\ \A i \in 1..Len(q) :
                     f[i] = IF q[i] \in K THEN Append(f[i - 1], q[i]) ELSE f[i - 1]
                /\ \A i \in 0..Len(q) : f[i] \in Seq(S \cap K)
<1>1. Len(q) \in Nat /\ \A i \in 1..Len(q) : q[i] \in S OBVIOUS
<1>2. PICK f : KeepsBy(q, K, f, Len(q)) /\ Keeping(q, K) = f[Len(q)] BY <1>1, KeepingIs
<1>3. \A i \in 0..Len(q) : f[i] = IF i = 0 THEN <<>>
                      ELSE IF q[i] \in K THEN Append(f[i - 1], q[i]) ELSE f[i - 1]
  BY <1>2 DEF KeepsBy
<1>4. f[0] = <<>> BY <1>1, <1>3
<1>5. \A i \in 1..Len(q) : f[i] = IF q[i] \in K THEN Append(f[i - 1], q[i]) ELSE f[i - 1]
  BY <1>1, <1>3
<1> DEFINE T == S \cap K
           Bad == {i \in 0..Len(q) : f[i] \notin Seq(T)}
<1>6. Bad = {}
  <2> SUFFICES ASSUME Bad # {} PROVE FALSE OBVIOUS
  <2>1. Bad \in SUBSET Nat BY <1>1
  <2>2. PICK m \in Bad : \A x \in Bad : m <= x BY <2>1, MinOf
  <2>3. m # 0
    <3>1. <<>> \in Seq(T) BY EmptySeq
    <3> QED BY <1>4, <2>2, <3>1
  <2>4. m \in 1..Len(q) /\ m - 1 \in 0..Len(q) /\ ~(m <= m - 1) BY <1>1, <2>2, <2>3
  <2>5. f[m - 1] \in Seq(T) BY <2>2, <2>4
  <2>6. q[m] \in K => q[m] \in T BY <1>1, <2>4
  <2> HIDE DEF T
  <2>7. f[m] \in Seq(T)
    <3>1. CASE q[m] \in K
      <4>1. Append(f[m - 1], q[m]) \in Seq(T) BY <2>5, <2>6, <3>1, AppendProperties
      <4> QED BY <4>1, <1>5, <2>4, <3>1
    <3>2. CASE q[m] \notin K BY <1>5, <2>4, <2>5, <3>2
    <3> QED BY <3>1, <3>2
  <2> QED BY <2>2, <2>7
<1>7. \A i \in 0..Len(q) : f[i] \in Seq(T) BY <1>6
<1> QED BY <1>2, <1>4, <1>5, <1>7

(* What is kept of two texts is what is kept of each.                       *)
LEMMA KeepingJoin ==
  ASSUME NEW S, NEW a \in Seq(S), NEW b \in Seq(S), NEW K
  PROVE  Keeping(a \o b, K) = Keeping(a, K) \o Keeping(b, K)
<1> DEFINE n == Len(a)
           m == Len(b)
           c == a \o b
           T == S \cap K
<1>1. /\ c \in Seq(S) /\ Len(c) = n + m /\ n \in Nat /\ m \in Nat
      /\ (\A i \in 1..n : c[i] = a[i]) /\ (\A i \in 1..m : c[n + i] = b[i])
  BY Joined
<1> HIDE DEF c
<1>2. PICK f : /\ f[0] = <<>> /\ Keeping(a, K) = f[n]
               /\ \A i \in 1..n : f[i] = IF a[i] \in K THEN Append(f[i - 1], a[i]) ELSE f[i - 1]
               /\ \A i \in 0..n : f[i] \in Seq(T)
  BY KeepingSteps
<1>3. PICK g : /\ g[0] = <<>> /\ Keeping(b, K) = g[m]
               /\ \A i \in 1..m : g[i] = IF b[i] \in K THEN Append(g[i - 1], b[i]) ELSE g[i - 1]
               /\ \A i \in 0..m : g[i] \in Seq(T)
  BY KeepingSteps
<1>4. PICK h : /\ h[0] = <<>> /\ Keeping(c, K) = h[Len(c)]
               /\ \A i \in 1..Len(c) :
                    h[i] = IF c[i] \in K THEN Append(h[i - 1], c[i]) ELSE h[i - 1]
               /\ \A i \in 0..Len(c) : h[i] \in Seq(T)
  BY <1>1, KeepingSteps
<1> HIDE DEF n, m, T
<1>5. \A i \in 0..n : h[i] = f[i]
  <2> DEFINE Bad == {i \in 0..n : h[i] # f[i]}
  <2> SUFFICES ASSUME Bad # {} PROVE FALSE OBVIOUS
  <2>1. Bad \in SUBSET Nat BY <1>1
  <2>2. PICK k \in Bad : \A x \in Bad : k <= x BY <2>1, MinOf
  <2>3. k # 0 BY <1>2, <1>4, <2>2
  <2>4. k \in 1..n /\ k \in 1..(n + m) /\ k - 1 \in 0..n /\ ~(k <= k - 1) BY <1>1, <2>2, <2>3
  <2>5. h[k - 1] = f[k - 1] /\ c[k] = a[k] BY <1>1, <2>2, <2>4
  <2>6. h[k] = IF c[k] \in K THEN Append(h[k - 1], c[k]) ELSE h[k - 1] BY <1>1, <1>4, <2>4
  <2>7. h[k] = f[k] BY <1>2, <2>4, <2>5, <2>6
  <2> QED BY <2>2, <2>7
<1>6. \A i \in 0..m : h[n + i] = f[n] \o g[i]
  <2> DEFINE Bad == {i \in 0..m : h[n + i] # f[n] \o g[i]}
  <2> SUFFICES ASSUME Bad # {} PROVE FALSE OBVIOUS
  <2>1. Bad \subseteq 0..m OBVIOUS
  <2>2. PICK k \in Bad : k \in 0..m /\ \A x \in Bad : k <= x BY <1>1, <2>1, LeastIn
  <2>3. f[n] \in Seq(T) BY <1>1, <1>2
  <2>4. k # 0
    <3>1. f[n] \o <<>> = f[n] BY <2>3, ConcatEmptySeq
    <3>2. h[n + 0] = f[n] \o g[0] BY <3>1, <1>1, <1>3, <1>5
    <3> QED BY <3>2, <2>2
  <2>5. k \in 1..m /\ n + k \in 1..(n + m) /\ k - 1 \in 0..m /\ ~(k <= k - 1)
        /\ n + k - 1 = n + (k - 1)
    BY <1>1, <2>2, <2>4
  <2>6. h[n + (k - 1)] = f[n] \o g[k - 1] BY <2>2, <2>5
  <2>7. c[n + k] = b[k] BY <1>1, <2>5
  <2>8. h[n + k] = IF b[k] \in K THEN Append(h[n + (k - 1)], b[k]) ELSE h[n + (k - 1)]
    BY <1>1, <1>4, <2>5, <2>7
  <2>9. g[k] = IF b[k] \in K THEN Append(g[k - 1], b[k]) ELSE g[k - 1] BY <1>3, <2>5
  <2>10. g[k - 1] \in Seq(T) BY <1>3, <2>5
  <2>11. CASE b[k] \in K
    <3>1. b[k] \in T BY <2>11, <2>5 DEF T, m
    <3> DEFINE u == f[n]
               v == g[k - 1]
               e == b[k]
    <3>4. u \in Seq(T) /\ v \in Seq(T) /\ e \in T BY <2>3, <2>10, <3>1
    <3> HIDE DEF u, v, e
    <3>5. u \o v \in Seq(T) /\ <<e>> \in Seq(T) BY <3>4
    <3>6. Append(u \o v, e) = (u \o v) \o <<e>> BY <3>4, <3>5, AppendIsConcat
    <3>7. Append(v, e) = v \o <<e>> BY <3>4, AppendIsConcat
    <3>8. (u \o v) \o <<e>> = u \o (v \o <<e>>) BY <3>4, <3>5, ConcatAssociative
    <3>2. Append(f[n] \o g[k - 1], b[k]) = f[n] \o Append(g[k - 1], b[k])
      BY <3>6, <3>7, <3>8 DEF u, v, e
    <3>3. h[n + k] = f[n] \o g[k] BY <3>2, <2>6, <2>8, <2>9, <2>11
    <3> QED BY <3>3, <2>2
  <2>12. CASE b[k] \notin K
    <3>1. h[n + k] = f[n] \o g[k] BY <2>6, <2>8, <2>9, <2>12
    <3> QED BY <3>1, <2>2
  <2> QED BY <2>11, <2>12
<1>7. h[n + m] = f[n] \o g[m]
  <2>1. m \in 0..m BY <1>1
  <2> QED BY <2>1, <1>6
<1> QED BY <1>1, <1>2, <1>3, <1>4, <1>7 DEF c

(* What is shown of a text: a part of it, of words and fences.              *)
LEMMA ShownText ==
  ASSUME NEW a \in Seq(Marks)
  PROVE  Shown(a) \in Seq(Marks)
<1>1. PICK f : /\ Keeping(a, {"w", "f"}) = f[Len(a)]
               /\ \A i \in 0..Len(a) : f[i] \in Seq(Marks \cap {"w", "f"})
  BY KeepingSteps
<1>2. Len(a) \in 0..Len(a) OBVIOUS
<1>3. Shown(a) \in Seq(Marks \cap {"w", "f"}) BY <1>1, <1>2 DEF Shown
<1> QED BY <1>3

(* What is shown of two texts is what is shown of each.                     *)
LEMMA ShownJoin ==
  ASSUME NEW a \in Seq(Marks), NEW b \in Seq(Marks)
  PROVE  Shown(a \o b) = Shown(a) \o Shown(b)
BY KeepingJoin DEF Shown

(* Of a blank text nothing is.                                              *)
LEMMA ShownBlank ==
  ASSUME NEW a \in Seq(Marks), Blank(a)
  PROVE  Shown(a) = <<>>
<1> DEFINE K == {"w", "f"}
<1>1. PICK f : /\ f[0] = <<>> /\ Keeping(a, K) = f[Len(a)]
               /\ \A i \in 1..Len(a) :
                    f[i] = IF a[i] \in K THEN Append(f[i - 1], a[i]) ELSE f[i - 1]
               /\ \A i \in 0..Len(a) : f[i] \in Seq(Marks \cap K)
  <2> HIDE DEF K
  <2> QED BY KeepingSteps
<1>2. Len(a) \in Nat /\ DOMAIN a = 1..Len(a) OBVIOUS
<1>3. \A i \in 1..Len(a) : a[i] \notin K BY <1>2 DEF Blank, Range
<1> HIDE DEF K
<1> DEFINE Bad == {i \in 0..Len(a) : f[i] # <<>>}
<1>4. Bad = {}
  <2> SUFFICES ASSUME Bad # {} PROVE FALSE OBVIOUS
  <2>1. Bad \in SUBSET Nat BY <1>2
  <2>2. PICK m \in Bad : \A x \in Bad : m <= x BY <2>1, MinOf
  <2>3. m # 0 BY <1>1, <2>2
  <2>4. m \in 1..Len(a) /\ m - 1 \in 0..Len(a) /\ ~(m <= m - 1) BY <1>2, <2>2, <2>3
  <2>5. f[m - 1] = <<>> BY <2>2, <2>4
  <2>6. f[m] = <<>> BY <1>1, <1>3, <2>4, <2>5
  <2> QED BY <2>2, <2>6
<1>5. f[Len(a)] = <<>> BY <1>2, <1>4
<1> QED BY <1>1, <1>5 DEF Shown, K

(* A text cut in two at a place.                                            *)
LEMMA CutText ==
  ASSUME NEW S, NEW a \in Seq(S), NEW k \in 0..Len(a)
  PROVE  /\ SubSeq(a, 1, k) \in Seq(S) /\ SubSeq(a, k + 1, Len(a)) \in Seq(S)
         /\ Len(SubSeq(a, 1, k)) = k /\ Len(SubSeq(a, k + 1, Len(a))) = Len(a) - k
         /\ \A i \in 1..k : SubSeq(a, 1, k)[i] = a[i]
         /\ \A i \in 1..(Len(a) - k) : SubSeq(a, k + 1, Len(a))[i] = a[k + i]
         /\ a = SubSeq(a, 1, k) \o SubSeq(a, k + 1, Len(a))
<1> DEFINE x == SubSeq(a, 1, k)
           y == SubSeq(a, k + 1, Len(a))
           l == Len(a)
<1>1. l \in Nat /\ k \in Nat /\ k <= l /\ \A i \in 1..l : a[i] \in S OBVIOUS
<1>2. x \in Seq(S) /\ Len(x) = k /\ \A i \in 1..k : x[i] = a[i] BY <1>1
<1>3. y \in Seq(S) /\ Len(y) = l - k /\ \A i \in 1..(l - k) : y[i] = a[k + i] BY <1>1
<1>4. a = x \o y
  <2>1. 1 \in 1..Len(a) + 1 /\ k \in 1 - 1 .. Len(a) /\ Len(a) \in k..Len(a) BY <1>1
  <2>2. x \o y = SubSeq(a, 1, Len(a)) BY <2>1, ConcatAdjacentSubSeq
  <2> QED BY <2>2, SubSeqFull
<1> QED BY <1>2, <1>3, <1>4

IsReply(e) == e.block.kind = "reply"

(* The entry is a paragraph of the reply id.                                *)
Says(e, id) == IsReply(e) /\ e.of = id

(* The function behind ShownOf exists ...                                   *)
ShowsBy(q, id, f, n) ==
  f = [i \in 0..n |-> IF i = 0 THEN <<>>
                      ELSE IF q[i].block.kind = "reply" /\ q[i].of = id
                           THEN f[i - 1] \o Shown(q[i].block.text) ELSE f[i - 1]]

(* ... for every length.                                                    *)
LEMMA ShowsExists ==
  ASSUME NEW q, NEW id, NEW n \in Nat
  PROVE  \E f : ShowsBy(q, id, f, n)
<1> DEFINE Bad == {m \in Nat : ~\E f : ShowsBy(q, id, f, m)}
<1> SUFFICES ASSUME Bad # {} PROVE FALSE OBVIOUS
<1>1. PICK m \in Bad : \A x \in Bad : m <= x BY MinOf
<1>2. m # 0
  <2>1. ShowsBy(q, id, [i \in 0..0 |-> <<>>], 0) BY DEF ShowsBy
  <2> QED BY <1>1, <2>1
<1>3. m - 1 \in Nat /\ ~(m <= m - 1) BY <1>1, <1>2
<1>4. PICK g : ShowsBy(q, id, g, m - 1) BY <1>1, <1>3
<1> DEFINE v == IF q[m].block.kind = "reply" /\ q[m].of = id
                THEN g[m - 1] \o Shown(q[m].block.text) ELSE g[m - 1]
           f == [i \in 0..m |-> IF i = m THEN v ELSE g[i]]
<1>5. \A i \in 0..(m - 1) : g[i] = IF i = 0 THEN <<>>
                      ELSE IF q[i].block.kind = "reply" /\ q[i].of = id
                           THEN g[i - 1] \o Shown(q[i].block.text) ELSE g[i - 1]
  BY <1>4 DEF ShowsBy
<1> HIDE DEF v
<1>6. \A i \in 0..(m - 1) : i \in 0..m /\ i # m /\ f[i] = g[i] BY <1>3
<1>7. f[m] = v OBVIOUS
<1>8. \A i \in 0..m : i # m => i \in 0..(m - 1) BY <1>3
<1>9. \A i \in 0..(m - 1) : i # 0 => i - 1 \in 0..(m - 1) BY <1>3
<1> HIDE DEF f
<1>10. \A i \in 0..m : f[i] = IF i = 0 THEN <<>>
                      ELSE IF q[i].block.kind = "reply" /\ q[i].of = id
                           THEN f[i - 1] \o Shown(q[i].block.text) ELSE f[i - 1]
  <2> TAKE i \in 0..m
  <2>1. CASE i = m
    <3>1. m - 1 \in 0..(m - 1) BY <1>3
    <3>2. f[m - 1] = g[m - 1] BY <1>6, <3>1
    <3> QED BY <1>2, <1>7, <2>1, <3>2 DEF v
  <2>2. CASE i # m
    <3>1. i \in 0..(m - 1) /\ f[i] = g[i] BY <1>6, <1>8, <2>2
    <3>2. i # 0 => f[i - 1] = g[i - 1] BY <1>6, <1>9, <3>1
    <3> QED BY <1>5, <3>1, <3>2
  <2> QED BY <2>1, <2>2
<1>11. f = [i \in 0..m |-> f[i]] BY DEF f
<1>12. ShowsBy(q, id, f, m) BY <1>10, <1>11 DEF ShowsBy
<1> QED BY <1>1, <1>12

(* ShownOf is what that function has for the whole list.                    *)
LEMMA ShownOfIs ==
  ASSUME NEW q, NEW id, Len(q) \in Nat
  PROVE  \E f : ShowsBy(q, id, f, Len(q)) /\ ShownOf(q, id) = f[Len(q)]
<1> DEFINE f == CHOOSE f : ShowsBy(q, id, f, Len(q))
<1>1. ShowsBy(q, id, f, Len(q)) BY ShowsExists
<1>2. ShownOf(q, id) = f[Len(q)] BY DEF ShownOf, ShowsBy
<1> QED BY <1>1, <1>2

(* Where nothing is said of a reply, nothing is shown of it.                *)
LEMMA ShownNone ==
  ASSUME NEW q, IsList(q), NEW id, \A e \in Range(q) : ~Says(e, id)
  PROVE  ShownOf(q, id) = <<>>
<1> DEFINE n == Len(q)
<1>1. n \in Nat /\ \A i \in 1..n : ~Says(q[i], id) BY ListIs
<1>2. PICK f : ShowsBy(q, id, f, n) /\ ShownOf(q, id) = f[n] BY <1>1, ShownOfIs
<1>3. \A i \in 0..n : f[i] = IF i = 0 THEN <<>>
                      ELSE IF q[i].block.kind = "reply" /\ q[i].of = id
                           THEN f[i - 1] \o Shown(q[i].block.text) ELSE f[i - 1]
  BY <1>2 DEF ShowsBy
<1> DEFINE Bad == {i \in 0..n : f[i] # <<>>}
<1>4. Bad = {}
  <2> SUFFICES ASSUME Bad # {} PROVE FALSE OBVIOUS
  <2>1. Bad \subseteq 0..n OBVIOUS
  <2>2. PICK m \in Bad : m \in 0..n /\ \A x \in Bad : m <= x BY <1>1, <2>1, LeastIn
  <2>3. m # 0 BY <1>3, <2>2
  <2>4. m \in 1..n /\ m - 1 \in 0..n /\ ~(m <= m - 1) BY <1>1, <2>2, <2>3
  <2>5. f[m - 1] = <<>> BY <2>2, <2>4
  <2>6. f[m] = <<>> BY <1>1, <1>3, <2>2, <2>3, <2>4, <2>5 DEF Says, IsReply
  <2> QED BY <2>2, <2>6
<1>5. f[n] = <<>> BY <1>1, <1>4
<1> QED BY <1>2, <1>5

(* One entry at most says something of it.                                  *)
SaidOnce(q, id) == \A i, j \in DOMAIN q : Says(q[i], id) /\ Says(q[j], id) => i = j

(* Where one entry says something of it, that is what is shown.             *)
LEMMA ShownOne ==
  ASSUME NEW q, IsList(q), NEW id, SaidOnce(q, id), NEW e \in Range(q), Says(e, id),
         e.block.text \in Seq(Marks)
  PROVE  ShownOf(q, id) = Shown(e.block.text)
<1> DEFINE n == Len(q)
           x == Shown(e.block.text)
<1>1. n \in Nat /\ DOMAIN q = 1..n BY ListIs
<1>2. PICK k \in 1..n : q[k] = e BY <1>1 DEF Range
<1>3. \A i \in 1..n : i # k => ~Says(q[i], id) BY <1>1, <1>2 DEF SaidOnce
<1>4. PICK f : ShowsBy(q, id, f, n) /\ ShownOf(q, id) = f[n] BY <1>1, ShownOfIs
<1>5. \A i \in 0..n : f[i] = IF i = 0 THEN <<>>
                      ELSE IF q[i].block.kind = "reply" /\ q[i].of = id
                           THEN f[i - 1] \o Shown(q[i].block.text) ELSE f[i - 1]
  BY <1>4 DEF ShowsBy
<1>6. x \in Seq(Marks) BY ShownText
<1>7. <<>> \o x = x BY <1>6, ConcatEmptySeq
<1> DEFINE Bad == {i \in 0..n : f[i] # IF i < k THEN <<>> ELSE x}
<1>8. Bad = {}
  <2> SUFFICES ASSUME Bad # {} PROVE FALSE OBVIOUS
  <2>1. Bad \subseteq 0..n OBVIOUS
  <2>2. PICK m \in Bad : m \in 0..n /\ \A y \in Bad : m <= y BY <1>1, <2>1, LeastIn
  <2>3. m # 0 BY <1>2, <1>5, <2>2
  <2>4. m \in 1..n /\ m - 1 \in 0..n /\ ~(m <= m - 1) BY <1>1, <2>2, <2>3
  <2>5. f[m - 1] = IF m - 1 < k THEN <<>> ELSE x BY <2>2, <2>4
  <2>6. CASE m = k
    <3>1. Says(q[m], id) /\ q[m] = e BY <1>2, <2>6
    <3>2. f[m - 1] = <<>> BY <2>4, <2>5, <2>6
    <3>3. f[m] = f[m - 1] \o x BY <1>5, <2>2, <2>3, <3>1 DEF Says, IsReply
    <3>4. f[m] = x BY <3>2, <3>3, <1>7
    <3> QED BY <3>4, <2>2, <2>4, <2>6
  <2>7. CASE m # k
    <3>1. ~Says(q[m], id) BY <1>3, <2>4, <2>7
    <3>2. f[m] = f[m - 1] BY <1>5, <2>2, <2>3, <3>1 DEF Says, IsReply
    <3>3. m - 1 < k <=> m < k BY <1>2, <2>4, <2>7
    <3> QED BY <2>2, <2>5, <3>2, <3>3
  <2> QED BY <2>6, <2>7
<1>9. f[n] = IF n < k THEN <<>> ELSE x BY <1>1, <1>8
<1>10. ~(n < k) BY <1>1, <1>2
<1> QED BY <1>4, <1>9, <1>10

(* Trimmed: blank lines at the front go, so what is shown is the same.      *)
LEMMA TrimmedShows ==
  ASSUME NEW a \in Seq(Marks)
  PROVE  /\ Trimmed(a) \in Seq(Marks) /\ Shown(Trimmed(a)) = Shown(a)
         /\ \E k \in 0..Len(a) : Trimmed(a) = SubSeq(a, k + 1, Len(a)) /\ Blank(SubSeq(a, 1, k))
<1> DEFINE n == Len(a)
           I == {i \in DOMAIN a : a[i] # "b"} \cup {n + 1}
           m == Min(I)
           k == m - 1
<1>1. n \in Nat /\ DOMAIN a = 1..n /\ \A i \in 1..n : a[i] \in Marks OBVIOUS
<1>2. I \in SUBSET Nat /\ I # {} BY <1>1
<1>3. \E x \in I : \A y \in I : x <= y BY <1>2, MinOf
<1>4. m \in I /\ \A y \in I : m <= y BY <1>3 DEF Min
<1>5. m \in 1..(n + 1) BY <1>1, <1>4
<1>6. \A i \in 1..n : i < m => a[i] = "b"
  <2> TAKE i \in 1..n
  <2>1. a[i] # "b" => i \in I BY <1>1
  <2>2. i < m => ~(m <= i) BY <1>5
  <2> QED BY <2>1, <2>2, <1>4
<1>7. Trimmed(a) = SubSeq(a, m, n) BY DEF Trimmed
<1> HIDE DEF m, I
<1>8. k \in 0..n /\ k + 1 = m BY <1>1, <1>5
<1> DEFINE h == SubSeq(a, 1, k)
           r == SubSeq(a, k + 1, n)
<1>9. Trimmed(a) = r BY <1>7, <1>8
<1>10. /\ h \in Seq(Marks) /\ r \in Seq(Marks) /\ Len(h) = k /\ a = h \o r
       /\ \A i \in 1..k : h[i] = a[i]
  BY <1>8, CutText
<1> HIDE DEF h, r
<1>11. Blank(h)
  <2>1. \A i \in 1..k : h[i] = "b" BY <1>1, <1>6, <1>8, <1>10
  <2>2. DOMAIN h = 1..k BY <1>10
  <2> QED BY <2>1, <2>2 DEF Blank, Range
<1>12. Shown(h) = <<>> BY <1>10, <1>11, ShownBlank
<1>13. Shown(a) = Shown(h) \o Shown(r) BY <1>10, ShownJoin
<1>14. Shown(r) \in Seq(Marks) BY <1>10, ShownText
<1>15. Shown(a) = Shown(r) BY <1>12, <1>13, <1>14, ConcatEmptySeq
<1>16. \E j \in 0..Len(a) : r = SubSeq(a, j + 1, Len(a)) /\ Blank(SubSeq(a, 1, j))
  BY <1>8, <1>11 DEF h, r
<1> QED BY <1>9, <1>10, <1>15, <1>16

-----------------------------------------------------------------------------
(* What the replies and the records of their text say of each other.        *)
Pre(s, id) == Look(s.printed_prefix, id, <<>>)
Has(s, id) == Look(s.printed, id, <<>>)

IsText(f, n) == DOMAIN f \subseteq 1..(n - 1) /\ \A id \in DOMAIN f : f[id] \in Seq(Marks)

Texted(s) ==
  /\ IsText(s.said, s.next_id) /\ IsText(s.printed, s.next_id)
  /\ IsText(s.printed_prefix, s.next_id)
  /\ \A e \in Entries(s) : e.of = e.id /\ (IsReply(e) => e.block.text \in Seq(Marks))

OpenSays(s) ==
  \A e \in Entries(s) : IsReply(e) /\ ~e.done =>
    /\ e.id \in DOMAIN s.said /\ s.said[e.id] = Pre(s, e.id) \o e.block.text
    /\ Has(s, e.id) = Shown(Pre(s, e.id))

HeldSays(s) ==
  \A e \in Entries(s) : IsReply(e) /\ e.id \in DOMAIN s.said =>
    Has(s, e.id) \o Shown(e.block.text) = Shown(s.said[e.id])

GoneSays(s) ==
  \A id \in DOMAIN s.said : (\A e \in Entries(s) : IsReply(e) => e.id # id) =>
    Has(s, id) = Shown(s.said[id])

Spoken(s) == Texted(s) /\ OpenSays(s) /\ HeldSays(s) /\ GoneSays(s)

(* What is printed and what is held of a reply are texts.                   *)
LEMMA LookText ==
  ASSUME NEW f, NEW n, IsText(f, n), NEW id
  PROVE  Look(f, id, <<>>) \in Seq(Marks)
<1>1. <<>> \in Seq(Marks) BY EmptySeq
<1> QED BY <1>1 DEF Look, IsText

(* An open reply says what it should also as one that is held.              *)
LEMMA OpenHeld ==
  ASSUME NEW s, Texted(s), NEW e, e.block.text \in Seq(Marks),
         s.said[e.id] = Pre(s, e.id) \o e.block.text, Has(s, e.id) = Shown(Pre(s, e.id))
  PROVE  Has(s, e.id) \o Shown(e.block.text) = Shown(s.said[e.id])
<1>1. Pre(s, e.id) \in Seq(Marks) BY LookText DEF Pre, Texted
<1> QED BY <1>1, ShownJoin

-----------------------------------------------------------------------------
(* Steps that are silent: no text is said, printed or held anew.            *)
SameText(s, t) ==
  t.said = s.said /\ t.printed = s.printed /\ t.printed_prefix = s.printed_prefix

SameReply(d, e) ==
  IsReply(d) /\ d.id = e.id /\ d.block.text = e.block.text /\ (d.done => e.done)

Quiet(s, t) ==
  /\ SameText(s, t) /\ s.next_id \in Nat /\ t.next_id \in Nat /\ s.next_id <= t.next_id
  /\ (\A d \in Entries(s) : d.of = d.id) => \A e \in Entries(t) : e.of = e.id
  /\ \A e \in Entries(t) : IsReply(e) => \E d \in Entries(s) : SameReply(d, e)
  /\ \A d \in Entries(s) : IsReply(d) => \E e \in Entries(t) : IsReply(e) /\ e.id = d.id

(* A silent step keeps what the texts say.                                  *)
LEMMA QuietSpoken ==
  ASSUME NEW s, NEW t, Spoken(s), Quiet(s, t)
  PROVE  Spoken(t)
<1>1. SameText(s, t) /\ \A id : Pre(t, id) = Pre(s, id) /\ Has(t, id) = Has(s, id)
  BY DEF Quiet, SameText, Pre, Has
<1>2. ASSUME NEW e \in Entries(t), IsReply(e) PROVE \E d \in Entries(s) : SameReply(d, e)
  BY <1>2 DEF Quiet
<1>3. Texted(t)
  <2>1. s.next_id \in Nat /\ t.next_id \in Nat /\ s.next_id <= t.next_id BY DEF Quiet
  <2>2. \A f : IsText(f, s.next_id) => IsText(f, t.next_id)
    <3>1. 1..(s.next_id - 1) \subseteq 1..(t.next_id - 1) BY <2>1
    <3> QED BY <3>1 DEF IsText
  <2>3. \A e \in Entries(t) : e.of = e.id BY DEF Quiet, Spoken, Texted
  <2>4. \A e \in Entries(t) : IsReply(e) => e.block.text \in Seq(Marks)
    BY <1>2 DEF Spoken, Texted, SameReply
  <2> QED BY <1>1, <2>2, <2>3, <2>4 DEF Spoken, Texted, SameText
<1>4. OpenSays(t)
  <2> SUFFICES ASSUME NEW e \in Entries(t), IsReply(e), ~e.done
               PROVE  /\ e.id \in DOMAIN t.said /\ t.said[e.id] = Pre(t, e.id) \o e.block.text
                      /\ Has(t, e.id) = Shown(Pre(t, e.id))
    BY DEF OpenSays
  <2>1. PICK d \in Entries(s) : SameReply(d, e) BY <1>2
  <2>2. IsReply(d) /\ ~d.done /\ d.id = e.id /\ d.block.text = e.block.text
    BY <2>1 DEF SameReply
  <2> QED BY <1>1, <2>2 DEF Spoken, OpenSays, SameText
<1>5. HeldSays(t)
  <2> SUFFICES ASSUME NEW e \in Entries(t), IsReply(e), e.id \in DOMAIN t.said
               PROVE  Has(t, e.id) \o Shown(e.block.text) = Shown(t.said[e.id])
    BY DEF HeldSays
  <2>1. PICK d \in Entries(s) : SameReply(d, e) BY <1>2
  <2>2. IsReply(d) /\ d.id = e.id /\ d.block.text = e.block.text BY <2>1 DEF SameReply
  <2>3. t.said = s.said /\ Has(t, e.id) = Has(s, e.id) BY <1>1 DEF SameText
  <2>4. d.id \in DOMAIN s.said BY <2>2, <2>3
  <2>5. Has(s, d.id) \o Shown(d.block.text) = Shown(s.said[d.id])
    BY <2>2, <2>4 DEF Spoken, HeldSays
  <2> QED BY <2>2, <2>3, <2>5
<1>6. GoneSays(t)
  <2> SUFFICES ASSUME NEW id \in DOMAIN t.said, \A e \in Entries(t) : IsReply(e) => e.id # id
               PROVE  Has(t, id) = Shown(t.said[id])
    BY DEF GoneSays
  <2>1. \A d \in Entries(s) : IsReply(d) => d.id # id BY DEF Quiet
  <2> QED BY <1>1, <2>1 DEF Spoken, GoneSays, SameText
<1> QED BY <1>3, <1>4, <1>5, <1>6 DEF Spoken

(* Two silent steps are a silent one.                                       *)
LEMMA QuietTwice ==
  ASSUME NEW s, NEW t, NEW u, Quiet(s, t), Quiet(t, u)
  PROVE  Quiet(s, u)
<1>1. SameText(s, u) BY DEF Quiet, SameText
<1>2. s.next_id \in Nat /\ u.next_id \in Nat /\ s.next_id <= u.next_id BY DEF Quiet
<1>3. (\A d \in Entries(s) : d.of = d.id) => \A e \in Entries(u) : e.of = e.id BY DEF Quiet
<1>4. \A e \in Entries(u) : IsReply(e) => \E d \in Entries(s) : SameReply(d, e)
  <2> SUFFICES ASSUME NEW e \in Entries(u), IsReply(e)
               PROVE  \E d \in Entries(s) : SameReply(d, e)
    OBVIOUS
  <2>1. PICK c \in Entries(t) : SameReply(c, e) BY DEF Quiet
  <2>2. IsReply(c) BY <2>1 DEF SameReply
  <2>3. PICK d \in Entries(s) : SameReply(d, c) BY <2>2 DEF Quiet
  <2> QED BY <2>1, <2>3 DEF SameReply
<1>5. \A d \in Entries(s) : IsReply(d) => \E e \in Entries(u) : IsReply(e) /\ e.id = d.id
  <2> SUFFICES ASSUME NEW d \in Entries(s), IsReply(d)
               PROVE  \E e \in Entries(u) : IsReply(e) /\ e.id = d.id
    OBVIOUS
  <2>1. PICK c \in Entries(t) : IsReply(c) /\ c.id = d.id BY DEF Quiet
  <2> QED BY <2>1 DEF Quiet
<1> QED BY <1>1, <1>2, <1>3, <1>4, <1>5 DEF Quiet

(* A session whose entries can be found and are records.                    *)
IsPlain(e, n) ==
  /\ DOMAIN e = {"id", "of", "done", "block"}
  /\ DOMAIN e.block = {"kind", "text", "run", "closed", "label"}
  /\ e.id \in 1..(n - 1)

Plain(s) ==
  Listed(s) /\ s.next_id \in Nat \ {0} /\ \A e \in Entries(s) : IsPlain(e, s.next_id)

Hush(s, t) == Plain(t) /\ Quiet(s, t)

(* Every sound session is one.                                              *)
LEMMA SoundPlain ==
  ASSUME NEW s, Sound(s)
  PROVE  Plain(s)
BY SoundParts DEF Plain, IsPlain, IsEntry, Sound, Numbered

(* Fields that are neither entries nor text do not matter.                  *)
LEMMA FieldsHush ==
  ASSUME NEW s, Plain(s), NEW t, DOMAIN t = Fields, t.entries = s.entries,
         t.next_id = s.next_id, SameText(s, t)
  PROVE  Hush(s, t)
<1>1. Entries(t) = Entries(s) BY DEF Entries
<1>2. Plain(t) BY <1>1 DEF Plain, Listed
<1>3. s.next_id \in Nat /\ s.next_id <= t.next_id BY DEF Plain
<1>4. Quiet(s, t) BY <1>1, <1>3 DEF Quiet, SameReply
<1> QED BY <1>2, <1>4 DEF Hush

(* A session is like itself.                                                *)
LEMMA HushSelf ==
  ASSUME NEW s, Plain(s)
  PROVE  Hush(s, s)
BY FieldsHush DEF Plain, Listed, SameText

(* Silent steps follow each other.                                          *)
LEMMA HushTwice ==
  ASSUME NEW s, NEW t, NEW u, Hush(s, t), Hush(t, u)
  PROVE  Hush(s, u)
BY QuietTwice DEF Hush

(* An entry gives way to one of the same reply and text.                    *)
Alike(d, e) ==
  /\ DOMAIN e = DOMAIN d /\ DOMAIN e.block = DOMAIN d.block
  /\ e.id = d.id /\ e.of = d.of /\ e.block.kind = d.block.kind /\ e.block.text = d.block.text
  /\ d.done => e.done

(* Change, where an entry gives way to one like it.                         *)
LEMMA ChangeHush ==
  ASSUME NEW s, Plain(s), NEW id, NEW e,
         Index(s, id) # 0 => Alike(EntryOf(s, id), e)
  PROVE  Hush(s, Change(s, id, e))
<1> DEFINE t == Change(s, id, e)
           E == Entries(s)
<1>1. CASE Index(s, id) = 0
  <2>1. t = s BY <1>1 DEF Change
  <2> QED BY <2>1, HushSelf
<1>2. CASE Index(s, id) # 0
  <2> DEFINE d == EntryOf(s, id)
             k == Index(s, id)
             q == [s.entries EXCEPT ![k] = e]
  <2>1. Listed(s) /\ DOMAIN s = Fields BY DEF Plain, Listed
  <2>2. d \in E /\ d.id = id BY <1>2, <2>1, IndexFinds
  <2>3. Alike(d, e) BY <1>2
  <2>4. t = [s EXCEPT !.entries = q] BY <1>2 DEF Change
  <2>5. t = Change(s, d.id, e) BY <2>2
  <2> HIDE DEF d
  <2>6. e.id = d.id BY <2>3 DEF Alike
  <2>7. Listed(t) /\ SameRest(s, t) /\ Entries(t) = (E \ {d}) \cup {e}
    BY <2>1, <2>2, <2>5, <2>6, Changed
  <2> HIDE DEF q
  <2>8. SameText(s, t) BY <2>1, <2>4 DEF Fields, SameText
  <2> HIDE DEF t, E
  <2>9. t.next_id = s.next_id /\ s.next_id \in Nat \ {0} BY <2>7 DEF SameRest, Plain
  <2>10. IsPlain(d, s.next_id) BY <2>2 DEF Plain, E
  <2>11. IsPlain(e, s.next_id) BY <2>3, <2>10 DEF IsPlain, Alike
  <2>12. Plain(t) BY <2>7, <2>9, <2>11 DEF Plain, E
  <2>13. \A c \in Entries(t) : IsReply(c) => \E x \in E : SameReply(x, c)
    <3>1. IsReply(e) => SameReply(d, e) BY <2>3 DEF SameReply, Alike, IsReply
    <3>2. \A c \in E : IsReply(c) => SameReply(c, c) BY DEF SameReply
    <3> QED BY <2>2, <2>7, <3>1, <3>2
  <2>14. \A c \in E : IsReply(c) => \E x \in Entries(t) : IsReply(x) /\ x.id = c.id
    <3>1. IsReply(d) => IsReply(e) /\ e.id = d.id BY <2>3 DEF Alike, IsReply
    <3> QED BY <2>7, <3>1
  <2>15. (\A c \in E : c.of = c.id) => \A c \in Entries(t) : c.of = c.id
    BY <2>2, <2>3, <2>7 DEF Alike
  <2>16. Quiet(s, t) BY <2>8, <2>9, <2>13, <2>14, <2>15 DEF Quiet, E
  <2> QED BY <2>12, <2>16 DEF Hush, t
<1> QED BY <1>1, <1>2

(* A new entry that is no reply, of the next id.                            *)
LEMMA AddHush ==
  ASSUME NEW s, Plain(s), NEW e, IsPlain(e, s.next_id + 1), e.id = s.next_id, e.of = e.id,
         ~IsReply(e), NEW t, Listed(t), Entries(t) = Entries(s) \cup {e},
         t.next_id = s.next_id + 1, SameText(s, t)
  PROVE  Hush(s, t)
<1>1. s.next_id \in Nat \ {0} /\ \A d \in Entries(s) : IsPlain(d, s.next_id) BY DEF Plain
<1>2. \A d \in Entries(s) : IsPlain(d, t.next_id) BY <1>1 DEF IsPlain
<1>3. Plain(t) BY <1>1, <1>2 DEF Plain
<1>4. s.next_id \in Nat /\ t.next_id \in Nat /\ s.next_id <= t.next_id BY <1>1
<1>5. Quiet(s, t) BY <1>4 DEF Quiet, SameReply
<1> QED BY <1>3, <1>5 DEF Hush

(* Entries that are no replies may go.                                      *)
LEMMA DropHush ==
  ASSUME NEW s, Plain(s), NEW ids, \A e \in Entries(s) : e.id \in ids => ~IsReply(e)
  PROVE  Hush(s, Drop(s, ids))
<1> DEFINE K == {e \in Range(s.entries) : e.id \notin ids}
           q == Keeping(s.entries, K)
           t == [s EXCEPT !.entries = q]
<1>1. DOMAIN s = Fields /\ IsList(s.entries) /\ IdsApart(s.entries) BY DEF Plain, Listed
<1>2. Drop(s, ids) = t BY DEF Drop
<1>3. \A e \in Entries(s) : e.id \notin ids => e \in K BY DEF Entries
<1> HIDE DEF K
<1>4. IsList(q) /\ IdsApart(q) /\ Range(q) = Range(s.entries) \cap K BY <1>1, KeepList
<1> HIDE DEF q
<1>5. DOMAIN t = Fields /\ t.entries = q /\ t.next_id = s.next_id /\ SameText(s, t)
  BY <1>1 DEF Fields, SameText
<1> HIDE DEF t
<1>6. Listed(t) /\ Entries(t) = Entries(s) \cap K BY <1>4, <1>5 DEF Listed, Entries
<1>7. \A e \in Entries(s) : IsReply(e) => e \in Entries(t) BY <1>3, <1>6
<1>8. Plain(t) BY <1>5, <1>6 DEF Plain
<1>9. s.next_id \in Nat /\ s.next_id <= t.next_id BY <1>5 DEF Plain
<1>10. Quiet(s, t) BY <1>5, <1>6, <1>7, <1>9 DEF Quiet, SameReply
<1> QED BY <1>2, <1>8, <1>10 DEF Hush

(* What a method may change of an entry leaves it like it was.              *)
LEMMA AlikeParts ==
  ASSUME NEW n, NEW d, IsPlain(d, n), NEW run
  PROVE  /\ Alike(d, [d EXCEPT !.done = TRUE])
         /\ Alike(d, [d EXCEPT !.block.closed = TRUE])
         /\ Alike(d, [d EXCEPT !.block.run = run])
<1>1. Alike(d, [d EXCEPT !.done = TRUE]) BY DEF IsPlain, Alike
<1>2. Alike(d, [d EXCEPT !.block.closed = TRUE]) BY DEF IsPlain, Alike
<1>3. Alike(d, [d EXCEPT !.block.run = run]) BY DEF IsPlain, Alike
<1> QED BY <1>1, <1>2, <1>3

(* The entry that is found is a record.                                     *)
LEMMA PlainEntry ==
  ASSUME NEW s, Plain(s), NEW id, Index(s, id) # 0
  PROVE  IsPlain(EntryOf(s, id), s.next_id)
<1>1. EntryOf(s, id) \in Entries(s) BY IndexFinds DEF Plain
<1> QED BY <1>1 DEF Plain

(* finish is silent ...                                                     *)
LEMMA FinishHush ==
  ASSUME NEW s, Plain(s), NEW id
  PROVE  Hush(s, finish(s, id))
<1> DEFINE e == [EntryOf(s, id) EXCEPT !.done = TRUE]
<1>1. Index(s, id) # 0 => Alike(EntryOf(s, id), e) BY PlainEntry, AlikeParts
<1> HIDE DEF e
<1>2. Hush(s, Change(s, id, e)) BY <1>1, ChangeHush
<1> QED BY <1>2 DEF finish, e

(* ... as are the closing of a group ...                                    *)
LEMMA GroupDoneHush ==
  ASSUME NEW s, Plain(s), NEW id
  PROVE  Hush(s, finish_group_if_done(s, id))
BY FinishHush, HushSelf DEF finish_group_if_done

(* ... of the open one ...                                                  *)
LEMMA CloseGroupHush ==
  ASSUME NEW s, Plain(s)
  PROVE  Hush(s, close_group(s))
<1> DEFINE g  == s.open_group
           s1 == [s EXCEPT !.open_group = NoGroup]
           e  == [EntryOf(s, g) EXCEPT !.block.closed = TRUE]
           t  == Change(s1, g, e)
<1>1. DOMAIN s = Fields BY DEF Plain, Listed
<1>2. close_group(s) = IF g = NoGroup THEN s ELSE finish_group_if_done(t, g) BY DEF close_group
<1>3. DOMAIN s1 = Fields /\ s1.entries = s.entries /\ s1.next_id = s.next_id /\ SameText(s, s1)
  BY <1>1 DEF Fields, SameText
<1> HIDE DEF s1, g
<1>4. Hush(s, s1) BY <1>3, FieldsHush
<1>5. Plain(s1) BY <1>4 DEF Hush
<1>6. EntryOf(s1, g) = EntryOf(s, g) BY <1>3 DEF EntryOf, Index
<1>7. Index(s1, g) # 0 => Alike(EntryOf(s1, g), e) BY <1>5, <1>6, PlainEntry, AlikeParts
<1> HIDE DEF e
<1>8. Hush(s1, t) BY <1>5, <1>7, ChangeHush
<1> HIDE DEF t
<1>9. Hush(t, finish_group_if_done(t, g)) BY <1>8, GroupDoneHush DEF Hush
<1>10. Hush(s, finish_group_if_done(t, g)) BY <1>4, <1>8, <1>9, HushTwice
<1> QED BY <1>2, <1>10, HushSelf

(* ... and becoming busy.                                                   *)
LEMMA BusyHush ==
  ASSUME NEW s, Plain(s)
  PROVE  Hush(s, became_busy(s))
<1> DEFINE t == [s EXCEPT !.busy_since = TRUE, !.beads = <<>>, !.by_tool = <<>>]
<1>1. DOMAIN s = Fields BY DEF Plain, Listed
<1>2. DOMAIN t = Fields /\ t.entries = s.entries /\ t.next_id = s.next_id /\ SameText(s, t)
  BY <1>1 DEF Fields, SameText
<1>3. became_busy(s) = IF s.busy_since THEN s ELSE t BY DEF became_busy
<1> HIDE DEF t
<1>4. Hush(s, t) BY <1>2, FieldsHush
<1> QED BY <1>3, <1>4, HushSelf

IsBlock(block) == DOMAIN block = {"kind", "text", "run", "closed", "label"}

(* A block that is no reply is put down silently ...                        *)
LEMMA PushQuietHush ==
  ASSUME NEW s, Plain(s), NEW block, IsBlock(block), block.kind # "reply", NEW done
  PROVE  Hush(s, push_quiet(s, block, done))
<1> DEFINE t == push_quiet(s, block, done)
           e == NewEntry(s, block, done)
           q == s.entries
           r == Append(q, e)
           n == s.next_id + 1
<1>1. DOMAIN s = Fields /\ IsList(q) /\ IdsApart(q) BY DEF Plain, Listed
<1>2. t = [s EXCEPT !.entries = r, !.next_id = n] BY DEF push_quiet
<1>3. /\ DOMAIN e = {"id", "of", "done", "block"} /\ e.block = block
      /\ e.id = s.next_id /\ e.of = e.id
  BY DEF NewEntry
<1>4. s.next_id \in Nat \ {0} /\ \A d \in Entries(s) : d.id \in 1..(s.next_id - 1)
  BY DEF Plain, IsPlain
<1>5. \A d \in Range(q) : d.id # e.id BY <1>3, <1>4 DEF Entries
<1> HIDE DEF e
<1>6. IsList(r) /\ Range(r) = Range(q) \cup {e} /\ IdsApart(r)
  BY <1>1, <1>5, AppendList, AppendApart
<1> HIDE DEF r, n
<1>7. DOMAIN t = Fields /\ t.entries = r /\ t.next_id = n /\ SameText(s, t)
  BY <1>1, <1>2 DEF Fields, SameText
<1>8. Listed(t) /\ Entries(t) = Entries(s) \cup {e} BY <1>6, <1>7 DEF Listed, Entries
<1>9. IsPlain(e, s.next_id + 1) /\ ~IsReply(e) BY <1>3, <1>4 DEF IsPlain, IsReply, IsBlock
<1> HIDE DEF t
<1>10. Hush(s, t) BY <1>3, <1>7, <1>8, <1>9, AddHush DEF n
<1> QED BY <1>10 DEF t

(* ... also where it ends the run of reads.                                 *)
LEMMA PushHush ==
  ASSUME NEW s, Plain(s), NEW block, IsBlock(block), block.kind # "reply", NEW done
  PROVE  Hush(s, push(s, block, done))
<1> DEFINE c == IF block.kind \in {"reply", "table", "reasoning", "group"} THEN s
                ELSE close_group(s)
<1>1. push(s, block, done) = push_quiet(c, block, done) BY DEF push
<1>2. Hush(s, c) BY CloseGroupHush, HushSelf
<1> HIDE DEF c
<1>3. Hush(c, push_quiet(c, block, done)) BY <1>2, PushQuietHush DEF Hush
<1> QED BY <1>1, <1>2, <1>3, HushTwice

(* The end of a reasoning.                                                  *)
LEMMA ThoughtHush ==
  ASSUME NEW s, Plain(s), NEW sid
  PROVE  Hush(s, finish_reasoning(s, sid))
<1> DEFINE less == Without(s.reasoning, {sid})
           s1 == [s EXCEPT !.reasoning = less]
           id == s.reasoning[sid]
<1>1. DOMAIN s = Fields BY DEF Plain, Listed
<1>2. finish_reasoning(s, sid) = IF sid \notin DOMAIN s.reasoning THEN s ELSE finish(s1, id)
  BY DEF finish_reasoning
<1> HIDE DEF less, id
<1>3. DOMAIN s1 = Fields /\ s1.entries = s.entries /\ s1.next_id = s.next_id /\ SameText(s, s1)
  BY <1>1 DEF Fields, SameText
<1> HIDE DEF s1
<1>4. Hush(s, s1) BY <1>3, FieldsHush
<1>5. Hush(s1, finish(s1, id)) BY <1>4, FinishHush DEF Hush
<1>6. Hush(s, finish(s1, id)) BY <1>4, <1>5, HushTwice
<1> QED BY <1>2, <1>6, HushSelf

(* A bead of the trail.                                                     *)
LEMMA BeadHush ==
  ASSUME NEW s, Plain(s), NEW of
  PROVE  Hush(s, push_bead(s, of)) /\ Hush(s, TrailToolStarted(s, of))
<1>1. DOMAIN s = Fields BY DEF Plain, Listed
<1> DEFINE t == push_bead(s, of)
<1>2. \E x, y : t = [s EXCEPT !.beads = x, !.by_tool = y] BY DEF push_bead
<1>3. PICK x, y : t = [s EXCEPT !.beads = x, !.by_tool = y] BY <1>2
<1> HIDE DEF t
<1>4. DOMAIN t = Fields /\ t.entries = s.entries /\ t.next_id = s.next_id /\ SameText(s, t)
  BY <1>1, <1>3 DEF Fields, SameText
<1> DEFINE z == With(t.by_tool, of, Len(t.beads))
           u == [t EXCEPT !.by_tool = z]
<1>5. TrailToolStarted(s, of) = u BY DEF TrailToolStarted, t
<1> HIDE DEF z
<1>6. DOMAIN u = Fields /\ u.entries = s.entries /\ u.next_id = s.next_id /\ SameText(s, u)
  BY <1>4 DEF Fields, SameText
<1> HIDE DEF u
<1>7. Hush(s, t) /\ Hush(s, u) BY <1>4, <1>6, FieldsHush
<1> QED BY <1>5, <1>7 DEF t

(* The tool is named in the maps, and its row in the plan or as the group.  *)
LEMMA NamedHush ==
  ASSUME NEW s, Plain(s), NEW tid, NEW id, NEW i
  PROVE  /\ Hush(s, At(s, tid, id, i))
         /\ \A rows : Hush(s, [At(s, tid, id, i) EXCEPT !.plan_rows = rows])
         /\ \A g : Hush(s, [At(s, tid, id, i) EXCEPT !.open_group = g])
<1> DEFINE x == With(s.tools, tid, [entry |-> id, at |-> i])
           t == [s EXCEPT !.tools = x]
<1>1. DOMAIN s = Fields BY DEF Plain, Listed
<1>2. At(s, tid, id, i) = t BY DEF At
<1> HIDE DEF x
<1>3. DOMAIN t = Fields /\ t.entries = s.entries /\ t.next_id = s.next_id /\ SameText(s, t)
  BY <1>1 DEF Fields, SameText
<1> HIDE DEF t
<1>4. Hush(s, t) BY <1>3, FieldsHush
<1>5. ASSUME NEW rows PROVE Hush(s, [t EXCEPT !.plan_rows = rows])
  <2> DEFINE u == [t EXCEPT !.plan_rows = rows]
  <2>1. DOMAIN u = Fields /\ u.entries = s.entries /\ u.next_id = s.next_id /\ SameText(s, u)
    BY <1>3 DEF Fields, SameText
  <2> HIDE DEF u
  <2> QED BY <2>1, FieldsHush DEF u
<1>6. ASSUME NEW g PROVE Hush(s, [t EXCEPT !.open_group = g])
  <2> DEFINE u == [t EXCEPT !.open_group = g]
  <2>1. DOMAIN u = Fields /\ u.entries = s.entries /\ u.next_id = s.next_id /\ SameText(s, u)
    BY <1>3 DEF Fields, SameText
  <2> HIDE DEF u
  <2>2. Hush(s, u) BY <2>1, FieldsHush
  <2> QED BY <2>2 DEF u
<1> QED BY <1>2, <1>4, <1>5, <1>6

(* A tool starts: a row, a group or one more status of a group.             *)
LEMMA ToolStartedHush ==
  ASSUME NEW s, Plain(s), NEW tid, NEW kind \in ToolKinds
  PROVE  Hush(s, ToolStarted(s, tid, kind))
<1> DEFINE b == became_busy(s)
           r == TrailToolStarted(b, tid)
           og == r.open_group
           e == [EntryOf(r, og) EXCEPT !.block.run = Append(@, "running")]
           grown == Change(r, og, e)
           alone == close_group(r)
           group == [Block("group") EXCEPT !.run = <<"running">>, !.label = Label(kind)]
           row   == push_quiet(b, Tool(<<"running">>), FALSE)
           plain == push(r, Tool(<<"running">>), FALSE)
           first == push(alone, group, FALSE)
           t == ToolStarted(s, tid, kind)
<1>1. \/ t = [At(row, tid, b.next_id, 1) EXCEPT !.plan_rows = row.plan_rows \cup {b.next_id}]
      \/ t = At(plain, tid, r.next_id, 1)
      \/ t = At(grown, tid, og, Len(EntryOf(grown, og).block.run))
      \/ t = [At(first, tid, alone.next_id, 1) EXCEPT !.open_group = alone.next_id]
  BY ToolStartedIs
<1> HIDE DEF t
<1>2. Hush(s, b) BY BusyHush
<1>3. Plain(b) BY <1>2 DEF Hush
<1> HIDE DEF b
<1>4. Hush(b, r) BY <1>3, BeadHush
<1>5. Plain(r) BY <1>4 DEF Hush
<1>6. Hush(s, r) BY <1>2, <1>4, HushTwice
<1> HIDE DEF r, og
<1>7. /\ IsBlock(Tool(<<"running">>)) /\ Tool(<<"running">>).kind # "reply"
      /\ IsBlock(group) /\ group.kind # "reply"
  BY DEF IsBlock, Tool, Block
<1> HIDE DEF group
<1>8. Hush(b, row) /\ Hush(r, plain) BY <1>3, <1>5, <1>7, PushQuietHush, PushHush
<1>9. Hush(r, alone) BY <1>5, CloseGroupHush
<1>10. Hush(alone, first)
  <2>1. Plain(alone) BY <1>9 DEF Hush
  <2> HIDE DEF alone
  <2> QED BY <2>1, <1>7, PushHush
<1>11. Hush(r, grown)
  <2> DEFINE run == Append(EntryOf(r, og).block.run, "running")
  <2>1. e = [EntryOf(r, og) EXCEPT !.block.run = run] OBVIOUS
  <2> HIDE DEF run, e
  <2>2. Index(r, og) # 0 => Alike(EntryOf(r, og), e) BY <1>5, <2>1, PlainEntry, AlikeParts
  <2> QED BY <1>5, <2>2, ChangeHush
<1> HIDE DEF row, plain, first, grown, alone
<1>12. Hush(s, row) /\ Hush(s, plain) /\ Hush(s, first) /\ Hush(s, grown)
  BY <1>2, <1>6, <1>8, <1>9, <1>10, <1>11, HushTwice
<1>13. Plain(row) /\ Plain(plain) /\ Plain(first) /\ Plain(grown) BY <1>12 DEF Hush
<1>14. t = [At(row, tid, b.next_id, 1) EXCEPT !.plan_rows = row.plan_rows \cup {b.next_id}]
       => Hush(s, t)
  BY <1>12, <1>13, NamedHush, HushTwice
<1>15. t = At(plain, tid, r.next_id, 1) => Hush(s, t) BY <1>12, <1>13, NamedHush, HushTwice
<1>16. t = At(grown, tid, og, Len(EntryOf(grown, og).block.run)) => Hush(s, t)
  BY <1>12, <1>13, NamedHush, HushTwice
<1>17. t = [At(first, tid, alone.next_id, 1) EXCEPT !.open_group = alone.next_id]
       => Hush(s, t)
  BY <1>12, <1>13, NamedHush, HushTwice
<1>18. Hush(s, t) BY <1>1, <1>14, <1>15, <1>16, <1>17
<1> QED BY <1>18 DEF t

(* The status of a tool.                                                    *)
LEMMA SetHush ==
  ASSUME NEW s, Plain(s), NEW tid, NEW status
  PROVE  Hush(s, SetOf(s, tid, status))
<1> DEFINE id    == s.tools[tid].entry
           at    == s.tools[tid].at
           less  == Without(s.tools, {tid})
           known == [s EXCEPT !.tools = less]
           run   == [EntryOf(known, id).block.run EXCEPT ![at] = status]
           e     == [EntryOf(known, id) EXCEPT !.block.run = run]
           g     == Change(known, id, e)
           b     == Without(g.by_tool, {tid})
           v     == [g EXCEPT !.by_tool = b]
<1>1. DOMAIN s = Fields BY DEF Plain, Listed
<1>2. SetOf(s, tid, status) = v BY DEF SetOf, TrailToolFinished
<1> HIDE DEF less, run, b
<1>3. DOMAIN known = Fields /\ known.entries = s.entries /\ known.next_id = s.next_id
      /\ SameText(s, known)
  BY <1>1 DEF Fields, SameText
<1> HIDE DEF known, id
<1>4. Hush(s, known) BY <1>3, FieldsHush
<1>5. Plain(known) BY <1>4 DEF Hush
<1>6. Index(known, id) # 0 => Alike(EntryOf(known, id), e) BY <1>5, PlainEntry, AlikeParts
<1> HIDE DEF e
<1>7. Hush(known, g) BY <1>5, <1>6, ChangeHush
<1>8. Plain(g) BY <1>7 DEF Hush
<1> HIDE DEF g
<1>9. DOMAIN g = Fields BY <1>8 DEF Plain, Listed
<1>10. DOMAIN v = Fields /\ v.entries = g.entries /\ v.next_id = g.next_id /\ SameText(g, v)
  BY <1>9 DEF Fields, SameText
<1> HIDE DEF v
<1>11. Hush(g, v) BY <1>8, <1>10, FieldsHush
<1>12. Hush(s, v) BY <1>4, <1>7, <1>11, HushTwice
<1> QED BY <1>2, <1>12

(* What is silent after a sound session has no reply among its plan rows.   *)
LEMMA RowsNoReply ==
  ASSUME NEW s, Sound(s), NEW t, Quiet(s, t), NEW e \in Entries(t), e.id \in s.plan_rows
  PROVE  ~IsReply(e)
<1> SUFFICES ASSUME IsReply(e) PROVE FALSE OBVIOUS
<1>1. PICK d \in Entries(s) : SameReply(d, e) BY DEF Quiet
<1>2. d.block.kind = "reply" /\ d.id = e.id BY <1>1 DEF SameReply, IsReply
<1>3. RowsAreTools(Entries(s), s.plan_rows) BY DEF Sound, Owned, Owners
<1>4. d.block.kind = "tool" BY <1>2, <1>3 DEF RowsAreTools
<1> QED BY <1>2, <1>4

(* A tool ends: its row goes, or is done, or closes its group.              *)
LEMMA ToolFinishedHush ==
  ASSUME NEW s, Sound(s), NEW tid, NEW status
  PROVE  Hush(s, ToolFinished(s, tid, status))
<1> DEFINE id    == s.tools[tid].entry
           v     == SetOf(s, tid, status)
           row   == id \in s.plan_rows /\ s.plan_seen /\ status # "error"
           w     == IF row THEN Drop(v, {id}) ELSE v
           rows  == w.plan_rows \ {id}
           k     == [w EXCEPT !.plan_rows = rows]
           t     == ToolFinished(s, tid, status)
           group == Index(k, id) # 0 /\ k.entries[Index(k, id)].block.kind = "group"
<1>1. t = IF group THEN finish_group_if_done(k, id) ELSE finish(k, id) BY DEF ToolFinished, SetOf
<1> HIDE DEF t, group
<1>2. Plain(s) BY SoundPlain
<1>3. Hush(s, v) BY <1>2, SetHush
<1>4. Plain(v) /\ Quiet(s, v) BY <1>3 DEF Hush
<1> HIDE DEF v
<1>5. Hush(s, w)
  <2>1. CASE row
    <3>1. \A e \in Entries(v) : e.id \in {id} => ~IsReply(e) BY <1>4, <2>1, RowsNoReply
    <3> HIDE DEF id
    <3>2. Hush(v, Drop(v, {id})) BY <1>4, <3>1, DropHush
    <3>3. Hush(s, Drop(v, {id})) BY <1>3, <3>2, HushTwice
    <3> QED BY <2>1, <3>3
  <2>2. CASE ~row BY <1>3, <2>2
  <2> QED BY <2>1, <2>2
<1>6. Plain(w) /\ DOMAIN w = Fields BY <1>5 DEF Hush, Plain, Listed
<1> HIDE DEF w, rows, id
<1>7. DOMAIN k = Fields /\ k.entries = w.entries /\ k.next_id = w.next_id /\ SameText(w, k)
  BY <1>6 DEF Fields, SameText
<1> HIDE DEF k
<1>8. Hush(w, k) BY <1>6, <1>7, FieldsHush
<1>9. Plain(k) BY <1>8 DEF Hush
<1>10. Hush(k, t) BY <1>1, <1>9, FinishHush, GroupDoneHush
<1>11. Hush(s, t) BY <1>5, <1>8, <1>10, HushTwice
<1> QED BY <1>11 DEF t

(* Stop leaves an entry like it was.                                        *)
LEMMA StopAlike ==
  ASSUME NEW n, NEW e, IsPlain(e, n)
  PROVE  Alike(e, Stop(e)) /\ IsPlain(Stop(e), n)
<1> DEFINE run == StoppedRun(e.block.run)
           closed == e.block.kind = "group"
           f == [e EXCEPT !.done = TRUE, !.block.closed = closed, !.block.run = run]
<1>1. Stop(e) = f BY DEF Stop, StoppedRun
<1> HIDE DEF run, closed
<1>2. DOMAIN f = DOMAIN e /\ f.id = e.id /\ f.of = e.of /\ f.done = TRUE BY DEF IsPlain
<1>3. DOMAIN f.block = DOMAIN e.block /\ f.block.kind = e.block.kind
      /\ f.block.text = e.block.text
  BY DEF IsPlain
<1> HIDE DEF f
<1>4. Alike(e, f) BY <1>2, <1>3 DEF Alike
<1>5. IsPlain(f, n) BY <1>2, <1>3 DEF IsPlain
<1> QED BY <1>1, <1>4, <1>5

(* Everything is stopped, with the text it had.                             *)
LEMMA StilledHush ==
  ASSUME NEW r, Plain(r)
  PROVE  Hush(r, Stilled(r))
<1> DEFINE q == [i \in DOMAIN r.entries |-> Stop(r.entries[i])]
           t == Stilled(r)
           E == Entries(r)
           n == r.next_id
<1>1. /\ DOMAIN r = Fields /\ IsList(r.entries) /\ IdsApart(r.entries)
      /\ n \in Nat \ {0} /\ \A e \in E : IsPlain(e, n)
  BY DEF Plain, Listed
<1>2. t = [r EXCEPT !.entries = q, !.plan_rows = {}, !.open_group = NoGroup,
                    !.streams = <<>>, !.tools = <<>>, !.phase_busy = FALSE,
                    !.plan = "none", !.beads = <<>>, !.by_tool = <<>>, !.busy_since = FALSE]
  BY DEF Stilled
<1>3. \A e \in E : Alike(e, Stop(e)) /\ IsPlain(Stop(e), n) BY <1>1, StopAlike
<1>4. \A e \in Range(r.entries) : Stop(e).id = e.id BY <1>3 DEF Alike, Entries
<1>5. IsList(q) /\ IdsApart(q) /\ Range(q) = {Stop(e) : e \in Range(r.entries)}
  BY <1>1, <1>4, StopList
<1> HIDE DEF q, t
<1>6. DOMAIN t = Fields /\ t.entries = q /\ t.next_id = n /\ SameText(r, t)
  <2>1. DOMAIN t = Fields /\ t.entries = q BY <1>1, <1>2 DEF Fields
  <2>2. t.next_id = n BY <1>1, <1>2 DEF Fields
  <2>3. t.said = r.said /\ t.printed = r.printed /\ t.printed_prefix = r.printed_prefix
    BY <1>1, <1>2 DEF Fields
  <2> QED BY <2>1, <2>2, <2>3 DEF SameText
<1>7. Listed(t) /\ Entries(t) = {Stop(e) : e \in E} BY <1>5, <1>6 DEF Listed, Entries
<1> HIDE DEF E, n
<1>8. Plain(t) BY <1>1, <1>3, <1>6, <1>7 DEF Plain
<1>9. ASSUME NEW e \in Entries(t), IsReply(e) PROVE \E d \in E : SameReply(d, e)
  <2>1. PICK d \in E : e = Stop(d) BY <1>7
  <2>2. Alike(d, e) BY <1>3, <2>1
  <2>3. SameReply(d, e) BY <1>9, <2>2 DEF Alike, SameReply, IsReply
  <2> QED BY <2>3
<1>10. ASSUME NEW d \in E, IsReply(d) PROVE \E e \in Entries(t) : IsReply(e) /\ e.id = d.id
  <2>1. Stop(d) \in Entries(t) /\ Alike(d, Stop(d)) BY <1>3, <1>7
  <2>2. IsReply(Stop(d)) /\ Stop(d).id = d.id BY <1>10, <2>1 DEF Alike, IsReply
  <2> QED BY <2>1, <2>2
<1>11. ASSUME \A d \in E : d.of = d.id, NEW e \in Entries(t) PROVE e.of = e.id
  <2>1. PICK d \in E : e = Stop(d) BY <1>7
  <2>2. Alike(d, e) BY <1>3, <2>1
  <2> QED BY <1>11, <2>2 DEF Alike
<1>12. n \in Nat /\ n <= t.next_id /\ t.next_id \in Nat BY <1>1, <1>6
<1>13. Quiet(r, t) BY <1>6, <1>9, <1>10, <1>11, <1>12 DEF Quiet, E, n
<1>14. Hush(r, t) BY <1>8, <1>13 DEF Hush
<1> QED BY <1>14 DEF t

(* The end of a turn, or its interruption.                                  *)
LEMMA SettleHush ==
  ASSUME NEW s, Sound(s), NEW interrupted
  PROVE  Hush(s, settle(s, interrupted))
<1> DEFINE r == Drop(s, s.plan_rows)
           still == Stilled(r)
           row  == push(still, Block("plan"), TRUE)
           plan == IF interrupted /\ s.plan = "unfinished" THEN row ELSE still
<1>0. settle(s, interrupted) = IF interrupted /\ is_busy(s) THEN Notice(plan) ELSE plan
  BY DEF settle, Stilled
<1>1. Plain(s) BY SoundPlain
<1>2. \A e \in Entries(s) : e.id \in s.plan_rows => ~IsReply(e)
  <2>1. RowsAreTools(Entries(s), s.plan_rows) BY DEF Sound, Owned, Owners
  <2> QED BY <2>1 DEF RowsAreTools, IsReply
<1>3. Hush(s, r) BY <1>1, <1>2, DropHush
<1>4. Plain(r) BY <1>3 DEF Hush
<1> HIDE DEF r
<1>5. Hush(r, still) BY <1>4, StilledHush
<1>6. Hush(s, still) /\ Plain(still) BY <1>3, <1>5, HushTwice DEF Hush
<1> HIDE DEF still
<1>7. /\ IsBlock(Block("plan")) /\ Block("plan").kind # "reply"
      /\ IsBlock(Block("notice")) /\ Block("notice").kind # "reply"
  BY DEF Block, IsBlock
<1>8. Hush(still, row) BY <1>6, <1>7, PushHush
<1> HIDE DEF row
<1>9. Hush(s, plan) BY <1>6, <1>8, HushTwice
<1>10. Plain(plan) BY <1>9 DEF Hush
<1> HIDE DEF plan
<1>11. Hush(plan, Notice(plan)) BY <1>7, <1>10, PushHush DEF Notice
<1>12. Hush(s, Notice(plan)) BY <1>9, <1>11, HushTwice
<1> QED BY <1>0, <1>9, <1>12

(* Reasoning is put in.                                                     *)
LEMMA ReasoningHush ==
  ASSUME NEW s, Plain(s), NEW sid, NEW at \in 1..(Len(s.entries) + 1)
  PROVE  Hush(s, [s EXCEPT !.entries = InsertAt(@, at, NewEntry(s, Block("reasoning"), FALSE)),
                           !.next_id = @ + 1,
                           !.reasoning = With(@, sid, s.next_id)])
<1> DEFINE e == NewEntry(s, Block("reasoning"), FALSE)
           q == InsertAt(s.entries, at, e)
           x == With(s.reasoning, sid, s.next_id)
           n == s.next_id + 1
           t == [s EXCEPT !.entries = q, !.next_id = n, !.reasoning = x]
<1>1. DOMAIN s = Fields /\ IsList(s.entries) /\ IdsApart(s.entries) BY DEF Plain, Listed
<1>2. /\ DOMAIN e = {"id", "of", "done", "block"} /\ e.block = Block("reasoning")
      /\ e.id = s.next_id /\ e.of = e.id
  BY DEF NewEntry
<1>3. DOMAIN Block("reasoning") = {"kind", "text", "run", "closed", "label"}
      /\ Block("reasoning").kind = "reasoning"
  BY DEF Block
<1>4. s.next_id \in Nat \ {0} /\ \A d \in Entries(s) : d.id \in 1..(s.next_id - 1)
  BY DEF Plain, IsPlain
<1> HIDE DEF e
<1>5. \A d \in Range(s.entries) : d.id # e.id
  <2>1. s.next_id \notin 1..(s.next_id - 1) BY <1>4
  <2> QED BY <1>2, <1>4, <2>1 DEF Entries
<1>6. IsList(q) /\ IdsApart(q) /\ Range(q) = Range(s.entries) \cup {e} BY <1>1, <1>5, InsertList
<1> HIDE DEF q, x, n
<1>7. DOMAIN t = Fields /\ t.entries = q /\ t.next_id = n /\ SameText(s, t)
  BY <1>1 DEF Fields, SameText
<1> HIDE DEF t
<1>8. Listed(t) /\ Entries(t) = Entries(s) \cup {e} BY <1>6, <1>7 DEF Listed, Entries
<1>9. IsPlain(e, s.next_id + 1) /\ ~IsReply(e) BY <1>2, <1>3, <1>4 DEF IsPlain, IsReply
<1>10. Hush(s, t) BY <1>2, <1>7, <1>8, <1>9, AddHush DEF n
<1> QED BY <1>10 DEF t, q, x, n, e

(* A reply is opened: nothing is said, printed or held of it yet.           *)
LEMMA OpenSpoken ==
  ASSUME NEW s, Plain(s), Spoken(s), NEW sid
  PROVE  Plain(OpenReply(s, sid)) /\ Spoken(OpenReply(s, sid))
<1> DEFINE n == s.next_id
           e == NewEntry(s, Block("reply"), FALSE)
           q == s.entries
           r == Append(q, e)
           m == n + 1
           p == push(s, Block("reply"), FALSE)
           x == With(p.streams, sid, n)
           y == With(p.said, n, <<>>)
           t == [p EXCEPT !.streams = x, !.said = y]
           E == Entries(s)
<1>1. DOMAIN s = Fields /\ IsList(q) /\ IdsApart(q) BY DEF Plain, Listed
<1>2. p = [s EXCEPT !.entries = r, !.next_id = m] BY DEF push, push_quiet, Block
<1>3. OpenReply(s, sid) = t BY DEF OpenReply
<1>4. /\ DOMAIN e = {"id", "of", "done", "block"} /\ e.block = Block("reply")
      /\ e.id = n /\ e.of = n /\ ~e.done
  BY DEF NewEntry
<1>5. /\ DOMAIN Block("reply") = {"kind", "text", "run", "closed", "label"}
      /\ Block("reply").kind = "reply" /\ Block("reply").text = <<>>
  BY DEF Block
<1>6. n \in Nat \ {0} /\ \A d \in E : d.id \in 1..(n - 1) /\ IsPlain(d, n)
  BY DEF Plain, IsPlain
<1>7. n \notin 1..(n - 1) /\ n \in 1..(m - 1) /\ 1..(n - 1) \subseteq 1..(m - 1) /\ m \in Nat \ {0}
  BY <1>6
<1> HIDE DEF e
<1>8. \A d \in Range(q) : d.id # e.id BY <1>4, <1>6, <1>7 DEF Entries
<1>9. IsList(r) /\ Range(r) = Range(q) \cup {e} /\ IdsApart(r)
  BY <1>1, <1>8, AppendList, AppendApart
<1> HIDE DEF r, m
<1>10. DOMAIN p = Fields /\ p.entries = r /\ p.next_id = m /\ SameText(s, p)
  BY <1>1, <1>2 DEF Fields, SameText
<1> HIDE DEF p, x
<1>11. y = With(s.said, n, <<>>) BY <1>10 DEF SameText
<1> HIDE DEF y
<1>12. /\ DOMAIN t = Fields /\ t.entries = r /\ t.next_id = m /\ t.said = y
       /\ t.printed = s.printed /\ t.printed_prefix = s.printed_prefix
  BY <1>10 DEF Fields, SameText
<1> HIDE DEF t
<1>13. Listed(t) /\ Entries(t) = E \cup {e} BY <1>9, <1>12 DEF Listed, Entries
<1> HIDE DEF E
<1>14. Plain(t)
  <2>1. IsPlain(e, m) BY <1>4, <1>5, <1>7 DEF IsPlain
  <2>2. \A d \in E : IsPlain(d, m) BY <1>6, <1>7 DEF IsPlain
  <2> QED BY <1>7, <1>12, <1>13, <2>1, <2>2 DEF Plain
<1>15. /\ DOMAIN y = DOMAIN s.said \cup {n} /\ y[n] = <<>>
       /\ \A id \in DOMAIN s.said : id # n /\ y[id] = s.said[id]
  <2>1. DOMAIN s.said \subseteq 1..(n - 1) BY DEF Spoken, Texted, IsText
  <2> QED BY <1>7, <1>11, <2>1 DEF With
<1>16. <<>> \in Seq(Marks) BY EmptySeq
<1>17. \A id : Pre(t, id) = Pre(s, id) /\ Has(t, id) = Has(s, id) BY <1>12 DEF Pre, Has
<1>18. Pre(t, n) = <<>> /\ Has(t, n) = <<>>
  <2>1. n \notin DOMAIN s.printed /\ n \notin DOMAIN s.printed_prefix
    BY <1>7 DEF Spoken, Texted, IsText
  <2> QED BY <1>17, <2>1 DEF Pre, Has, Look
<1>19. Shown(<<>>) = <<>>
  <2>1. Blank(<<>>) BY DEF Blank, Range
  <2> QED BY <1>16, <2>1, ShownBlank
<1>20. <<>> \o <<>> = <<>> BY <1>16, ConcatEmptySeq
<1>21. IsReply(e) /\ e.block.text = <<>> BY <1>4, <1>5 DEF IsReply
<1>22. Texted(t)
  <2>1. \A f : IsText(f, n) => IsText(f, m) BY <1>7 DEF IsText
  <2>2. IsText(y, m) BY <1>7, <1>15, <1>16 DEF Spoken, Texted, IsText
  <2>3. IsText(t.printed, m) /\ IsText(t.printed_prefix, m)
    BY <1>12, <2>1 DEF Spoken, Texted
  <2>4. \A d \in E : d.of = d.id /\ (IsReply(d) => d.block.text \in Seq(Marks))
    BY DEF Spoken, Texted, E
  <2> QED BY <1>4, <1>12, <1>13, <1>16, <1>21, <2>2, <2>3, <2>4 DEF Texted
<1>23. \A d \in E : d.id # n BY <1>6, <1>7 DEF E
<1>24. OpenSays(t)
  <2> SUFFICES ASSUME NEW c \in Entries(t), IsReply(c), ~c.done
               PROVE  /\ c.id \in DOMAIN t.said /\ t.said[c.id] = Pre(t, c.id) \o c.block.text
                      /\ Has(t, c.id) = Shown(Pre(t, c.id))
    BY DEF OpenSays
  <2>1. CASE c = e
    <3>1. c.id = n /\ c.block.text = <<>> BY <1>4, <1>21, <2>1
    <3> QED BY <3>1, <1>12, <1>15, <1>18, <1>19, <1>20
  <2>2. CASE c \in E
    <3>1. /\ c.id \in DOMAIN s.said /\ s.said[c.id] = Pre(s, c.id) \o c.block.text
          /\ Has(s, c.id) = Shown(Pre(s, c.id))
      BY <2>2 DEF Spoken, OpenSays, E
    <3>2. y[c.id] = s.said[c.id] /\ c.id \in DOMAIN y BY <1>15, <3>1
    <3>3. Pre(t, c.id) = Pre(s, c.id) /\ Has(t, c.id) = Has(s, c.id) BY <1>17
    <3> QED BY <3>1, <3>2, <3>3, <1>12
  <2> QED BY <1>13, <2>1, <2>2
<1>25. HeldSays(t)
  <2> SUFFICES ASSUME NEW c \in Entries(t), IsReply(c), c.id \in DOMAIN t.said
               PROVE  Has(t, c.id) \o Shown(c.block.text) = Shown(t.said[c.id])
    BY DEF HeldSays
  <2>1. CASE c = e
    <3>1. c.id = n /\ c.block.text = <<>> BY <1>4, <1>21, <2>1
    <3> QED BY <3>1, <1>12, <1>15, <1>18, <1>19, <1>20
  <2>2. CASE c \in E
    <3>1. c.id \in DOMAIN s.said BY <1>12, <1>15, <1>23, <2>2
    <3>2. Has(s, c.id) \o Shown(c.block.text) = Shown(s.said[c.id])
      BY <2>2, <3>1 DEF Spoken, HeldSays, E
    <3>3. t.said[c.id] = s.said[c.id] BY <1>12, <1>15, <3>1
    <3>4. Has(t, c.id) = Has(s, c.id) BY <1>17
    <3> QED BY <3>2, <3>3, <3>4
  <2> QED BY <1>13, <2>1, <2>2
<1>26. GoneSays(t)
  <2> SUFFICES ASSUME NEW id \in DOMAIN t.said, \A c \in Entries(t) : IsReply(c) => c.id # id
               PROVE  Has(t, id) = Shown(t.said[id])
    BY DEF GoneSays
  <2>1. id # n BY <1>4, <1>13, <1>21
  <2>2. id \in DOMAIN s.said BY <1>12, <1>15, <2>1
  <2>3. \A c \in E : IsReply(c) => c.id # id BY <1>13
  <2>4. Has(s, id) = Shown(s.said[id]) BY <2>2, <2>3 DEF Spoken, GoneSays, E
  <2>5. Has(t, id) = Has(s, id) /\ t.said[id] = s.said[id] BY <1>12, <1>15, <1>17, <2>2
  <2> QED BY <2>4, <2>5
<1> QED BY <1>3, <1>14, <1>22, <1>24, <1>25, <1>26 DEF Spoken

(* The text of an open reply becomes another, and what is said, printed or  *)
(* held of it follows.                                                      *)
Follows(s, t, d, e) ==
  /\ IsReply(e) /\ e.id = d.id /\ e.of = d.of /\ e.block.text \in Seq(Marks)
  /\ Entries(t) = (Entries(s) \ {d}) \cup {e}
  /\ s.next_id \in Nat /\ t.next_id \in Nat /\ s.next_id <= t.next_id
  /\ IsText(t.said, s.next_id) /\ IsText(t.printed, s.next_id)
  /\ IsText(t.printed_prefix, s.next_id)
  /\ DOMAIN t.said = DOMAIN s.said
  /\ \A id : id # d.id => /\ id \in DOMAIN s.said => t.said[id] = s.said[id]
                          /\ Pre(t, id) = Pre(s, id) /\ Has(t, id) = Has(s, id)
  /\ Has(t, d.id) \o Shown(e.block.text) = Shown(t.said[d.id])
  /\ ~e.done => /\ t.said[d.id] = Pre(t, d.id) \o e.block.text
                /\ Has(t, d.id) = Shown(Pre(t, d.id))

(* Then the texts still agree.                                              *)
LEMMA FollowsSpoken ==
  ASSUME NEW s, NEW t, Spoken(s), OneId(Entries(s)), NEW d \in Entries(s), IsReply(d), ~d.done,
         NEW e, Follows(s, t, d, e)
  PROVE  Spoken(t)
<1>1. /\ IsReply(e) /\ e.id = d.id /\ e.of = d.of /\ e.block.text \in Seq(Marks)
      /\ Entries(t) = (Entries(s) \ {d}) \cup {e}
      /\ DOMAIN t.said = DOMAIN s.said
  BY DEF Follows
<1>2. \A id : id # d.id => /\ id \in DOMAIN s.said => t.said[id] = s.said[id]
                          /\ Pre(t, id) = Pre(s, id) /\ Has(t, id) = Has(s, id)
  BY DEF Follows
<1>3. Has(t, d.id) \o Shown(e.block.text) = Shown(t.said[d.id]) BY DEF Follows
<1>4. ~e.done => t.said[d.id] = Pre(t, d.id) \o e.block.text /\ Has(t, d.id) = Shown(Pre(t, d.id))
  BY DEF Follows
<1>5. d.id \in DOMAIN s.said BY DEF Spoken, OpenSays
<1>6. \A c \in Entries(s) \ {d} : c.id # d.id BY DEF OneId
<1>7. Texted(t)
  <2>1. s.next_id \in Nat /\ t.next_id \in Nat /\ s.next_id <= t.next_id BY DEF Follows
  <2>2. 1..(s.next_id - 1) \subseteq 1..(t.next_id - 1) BY <2>1
  <2>3. IsText(t.said, t.next_id) /\ IsText(t.printed, t.next_id)
        /\ IsText(t.printed_prefix, t.next_id)
    BY <2>2 DEF Follows, IsText
  <2>4. \A c \in Entries(s) : c.of = c.id /\ (IsReply(c) => c.block.text \in Seq(Marks))
    BY DEF Spoken, Texted
  <2> QED BY <1>1, <2>3, <2>4 DEF Texted
<1>8. OpenSays(t)
  <2> SUFFICES ASSUME NEW c \in Entries(t), IsReply(c), ~c.done
               PROVE  /\ c.id \in DOMAIN t.said /\ t.said[c.id] = Pre(t, c.id) \o c.block.text
                      /\ Has(t, c.id) = Shown(Pre(t, c.id))
    BY DEF OpenSays
  <2>1. CASE c = e BY <1>1, <1>4, <1>5, <2>1
  <2>2. CASE c \in Entries(s) \ {d}
    <3>1. /\ c.id \in DOMAIN s.said /\ s.said[c.id] = Pre(s, c.id) \o c.block.text
          /\ Has(s, c.id) = Shown(Pre(s, c.id))
      BY <2>2 DEF Spoken, OpenSays
    <3>2. c.id # d.id BY <1>6, <2>2
    <3>3. t.said[c.id] = s.said[c.id] /\ Pre(t, c.id) = Pre(s, c.id) /\ Has(t, c.id) = Has(s, c.id)
      BY <1>2, <3>1, <3>2
    <3> QED BY <1>1, <3>1, <3>3
  <2> QED BY <1>1, <2>1, <2>2
<1>9. HeldSays(t)
  <2> SUFFICES ASSUME NEW c \in Entries(t), IsReply(c), c.id \in DOMAIN t.said
               PROVE  Has(t, c.id) \o Shown(c.block.text) = Shown(t.said[c.id])
    BY DEF HeldSays
  <2>1. CASE c = e
    <3>1. c.id = d.id /\ c.block.text = e.block.text BY <1>1, <2>1
    <3> QED BY <1>3, <3>1
  <2>2. CASE c \in Entries(s) \ {d}
    <3>1. c.id # d.id /\ c.id \in DOMAIN s.said BY <1>1, <1>6, <2>2
    <3>2. Has(s, c.id) \o Shown(c.block.text) = Shown(s.said[c.id])
      BY <2>2, <3>1 DEF Spoken, HeldSays
    <3>3. t.said[c.id] = s.said[c.id] /\ Has(t, c.id) = Has(s, c.id) BY <1>2, <3>1
    <3> QED BY <3>2, <3>3
  <2> QED BY <1>1, <2>1, <2>2
<1>10. GoneSays(t)
  <2> SUFFICES ASSUME NEW id \in DOMAIN t.said, \A c \in Entries(t) : IsReply(c) => c.id # id
               PROVE  Has(t, id) = Shown(t.said[id])
    BY DEF GoneSays
  <2>1. id # d.id /\ id \in DOMAIN s.said BY <1>1
  <2>2. \A c \in Entries(s) : IsReply(c) => c.id # id BY <1>1, <2>1
  <2>3. Has(s, id) = Shown(s.said[id]) BY <2>1, <2>2 DEF Spoken, GoneSays
  <2>4. t.said[id] = s.said[id] /\ Has(t, id) = Has(s, id) BY <1>2, <2>1
  <2> QED BY <2>3, <2>4
<1> QED BY <1>7, <1>8, <1>9, <1>10 DEF Spoken

(* The reply of a stream: there, open, and what Change finds.               *)
LEMMA StreamReply ==
  ASSUME NEW s, Sound(s), NEW sid \in DOMAIN s.streams
  PROVE  \E d \in Entries(s) : /\ d.id = s.streams[sid] /\ ~d.done /\ IsReply(d)
                               /\ EntryOf(s, d.id) = d /\ IsPlain(d, s.next_id)
<1>1. PICK d \in Entries(s) : d.id = s.streams[sid] /\ ~d.done /\ d.block.kind = "reply"
  BY DEF Sound, Owned, Owners, StreamsOpen
<1>2. Plain(s) BY SoundPlain
<1>3. EntryOf(s, d.id) = d /\ IsPlain(d, s.next_id) BY <1>2, Found DEF Plain
<1> QED BY <1>1, <1>3 DEF IsReply

(* A token is added to what its reply holds, and to what was said.          *)
Tell(s, id, token) ==
  [Change(s, id, [EntryOf(s, id) EXCEPT !.block.text = @ \o token]) EXCEPT !.said[id] = @ \o token]

(* The texts still agree.                                                   *)
LEMMA TellSpoken ==
  ASSUME NEW s, Sound(s), Spoken(s), NEW sid \in DOMAIN s.streams, NEW token \in Seq(Marks)
  PROVE  Spoken(Tell(s, s.streams[sid], token))
<1> DEFINE id == s.streams[sid]
<1>1. PICK d \in Entries(s) : /\ d.id = id /\ ~d.done /\ IsReply(d)
                              /\ EntryOf(s, d.id) = d /\ IsPlain(d, s.next_id)
  BY StreamReply
<1> DEFINE text == d.block.text \o token
           e == [d EXCEPT !.block.text = text]
           u == Change(s, d.id, e)
           v == [u.said EXCEPT ![d.id] = u.said[d.id] \o token]
           t == [u EXCEPT !.said = v]
<1>2. Tell(s, id, token) = t BY <1>1 DEF Tell
<1>3. Listed(s) /\ DOMAIN s = Fields /\ OneId(Entries(s)) /\ s.next_id \in Nat BY SoundParts
<1> HIDE DEF text
<1>4. /\ e.id = d.id /\ e.of = d.of /\ e.done = d.done /\ e.block.kind = d.block.kind
      /\ e.block.text = text
  BY <1>1 DEF IsPlain
<1> DEFINE k == Index(s, d.id)
           q == [s.entries EXCEPT ![k] = e]
<1> HIDE DEF e
<1>5. Listed(u) /\ SameRest(s, u) /\ Entries(u) = (Entries(s) \ {d}) \cup {e}
  BY <1>3, <1>4, Changed
<1>6. u = [s EXCEPT !.entries = q]
  <2>1. Index(s, d.id) # 0 BY <1>3, Found
  <2> QED BY <2>1 DEF Change
<1> HIDE DEF u, q
<1>7. DOMAIN u = Fields /\ SameText(s, u) BY <1>3, <1>6 DEF Fields, SameText
<1>8. v = [s.said EXCEPT ![d.id] = s.said[d.id] \o token] BY <1>7 DEF SameText
<1> HIDE DEF v
<1>9. /\ t.said = v /\ t.printed = s.printed /\ t.printed_prefix = s.printed_prefix
      /\ t.entries = u.entries /\ t.next_id = s.next_id
  BY <1>5, <1>7 DEF Fields, SameText, SameRest
<1> HIDE DEF t
<1>10. /\ d.id \in DOMAIN s.said /\ s.said[d.id] = Pre(s, d.id) \o d.block.text
       /\ Has(s, d.id) = Shown(Pre(s, d.id))
  BY <1>1 DEF Spoken, OpenSays
<1>11. Pre(s, d.id) \in Seq(Marks) BY LookText DEF Spoken, Texted, Pre
<1>12. d.block.text \in Seq(Marks) BY <1>1 DEF Spoken, Texted
<1>13. text \in Seq(Marks) BY <1>12 DEF text
<1>14. v[d.id] = Pre(s, d.id) \o text
  <2> DEFINE a == Pre(s, d.id)
             b == d.block.text
  <2>1. a \in Seq(Marks) /\ b \in Seq(Marks) BY <1>11, <1>12
  <2>2. v[d.id] = (a \o b) \o token BY <1>8, <1>10
  <2> HIDE DEF a, b
  <2>3. (a \o b) \o token = a \o (b \o token) BY <2>1, ConcatAssociative
  <2> QED BY <2>2, <2>3 DEF a, b, text
<1>15. \A j : Pre(t, j) = Pre(s, j) /\ Has(t, j) = Has(s, j) BY <1>9 DEF Pre, Has
<1>16. DOMAIN v = DOMAIN s.said /\ \A j \in DOMAIN s.said : j # d.id => v[j] = s.said[j]
  BY <1>8
<1>17. IsText(v, s.next_id)
  <2>1. v[d.id] \in Seq(Marks) BY <1>11, <1>13, <1>14
  <2>2. IsText(s.said, s.next_id) BY DEF Spoken, Texted
  <2> QED BY <1>16, <2>1, <2>2 DEF IsText
<1>18. Texted(t)
  <2>1. IsReply(e) /\ e.block.text \in Seq(Marks) /\ e.of = e.id
    BY <1>1, <1>4, <1>13 DEF IsReply, Spoken, Texted
  <2>2. Entries(t) = (Entries(s) \ {d}) \cup {e} BY <1>5, <1>9 DEF Entries
  <2> QED BY <1>9, <1>17, <2>1, <2>2 DEF Spoken, Texted
<1>19. t.said[e.id] = Pre(t, e.id) \o e.block.text /\ Has(t, e.id) = Shown(Pre(t, e.id))
  BY <1>4, <1>9, <1>10, <1>14, <1>15
<1>20. Has(t, e.id) \o Shown(e.block.text) = Shown(t.said[e.id])
  BY <1>4, <1>13, <1>18, <1>19, OpenHeld
<1>21. Follows(s, t, d, e)
  <2>1. IsReply(e) /\ e.id = d.id /\ e.of = d.of /\ e.block.text \in Seq(Marks)
    BY <1>1, <1>4, <1>13 DEF IsReply
  <2>2. Entries(t) = (Entries(s) \ {d}) \cup {e} BY <1>5, <1>9 DEF Entries
  <2>3. s.next_id \in Nat /\ t.next_id \in Nat /\ s.next_id <= t.next_id BY <1>3, <1>9
  <2>4. IsText(t.said, s.next_id) /\ IsText(t.printed, s.next_id)
        /\ IsText(t.printed_prefix, s.next_id) /\ DOMAIN t.said = DOMAIN s.said
    BY <1>9, <1>16, <1>17 DEF Spoken, Texted
  <2>5. \A j : j # d.id => /\ j \in DOMAIN s.said => t.said[j] = s.said[j]
                           /\ Pre(t, j) = Pre(s, j) /\ Has(t, j) = Has(s, j)
    BY <1>9, <1>15, <1>16
  <2> QED BY <2>1, <2>2, <2>3, <2>4, <2>5, <1>19, <1>20 DEF Follows
<1>22. Spoken(t) BY <1>1, <1>3, <1>21, FollowsSpoken
<1> QED BY <1>2, <1>22

(* AssistantTokenDelta: the texts still agree.                              *)
LEMMA ToldSpoken ==
  ASSUME NEW s, Sound(s), Trailed(s), Spoken(s), NEW sid \in StreamIds, NEW token \in Seq(Marks)
  PROVE  Spoken(Told(s, sid, token))
<1> DEFINE b     == became_busy(s)
           busy  == IF Blank(token) THEN s ELSE close_group(b)
           ready == finish_reasoning(busy, sid)
           open  == IF sid \in DOMAIN ready.streams THEN ready ELSE OpenReply(ready, sid)
           w     == Told(s, sid, token)
<1>1. w = Tell(open, open.streams[sid], token) BY DEF Told, Tell
<1> HIDE DEF w
<1>2. Sound(b) /\ Spoken(b) BY BusySound, SoundPlain, BusyHush, QuietSpoken DEF Hush
<1> HIDE DEF b
<1>3. Sound(busy) /\ Spoken(busy)
  <2>1. Sound(close_group(b)) BY <1>2, CloseGroupSound
  <2>2. Spoken(close_group(b)) BY <1>2, SoundPlain, CloseGroupHush, QuietSpoken DEF Hush
  <2> QED BY <2>1, <2>2
<1> HIDE DEF busy
<1>4. Sound(ready) /\ Spoken(ready)
  <2>1. Sound(ready) BY <1>3, ThoughtSound
  <2>2. Spoken(ready) BY <1>3, SoundPlain, ThoughtHush, QuietSpoken DEF Hush
  <2> QED BY <2>1, <2>2
<1> HIDE DEF ready
<1>5. Sound(open) /\ Spoken(open) /\ sid \in DOMAIN open.streams
  <2>1. CASE sid \in DOMAIN ready.streams BY <1>4, <2>1
  <2>2. CASE sid \notin DOMAIN ready.streams
    <3>1. Sound(OpenReply(ready, sid)) /\ sid \in DOMAIN OpenReply(ready, sid).streams
      BY <1>4, <2>2, OpenReplySound
    <3>2. Spoken(OpenReply(ready, sid)) BY <1>4, SoundPlain, OpenSpoken
    <3> QED BY <2>2, <3>1, <3>2
  <2> QED BY <2>1, <2>2
<1> HIDE DEF open
<1>6. Spoken(Tell(open, open.streams[sid], token)) BY <1>5, TellSpoken
<1>7. Spoken(w) BY <1>1, <1>6
<1> QED BY <1>7 DEF w

(* What the final text leaves of an open reply d, and of what was said.     *)
IsFinal(s, f, d, e) ==
  /\ Plain(f) /\ f.next_id = s.next_id /\ Entries(f) = (Entries(s) \ {d}) \cup {e}
  /\ f.printed = s.printed /\ f.printed_prefix = s.printed_prefix
  /\ IsText(f.said, s.next_id) /\ DOMAIN f.said = DOMAIN s.said
  /\ \A j \in DOMAIN s.said : j # d.id => f.said[j] = s.said[j]
  /\ IsReply(e) /\ e.id = d.id /\ e.of = d.of /\ e.block.text \in Seq(Marks)
  /\ Has(s, d.id) \o Shown(e.block.text) = Shown(f.said[d.id])

(* Without a final text, or with one that rewrote what was printed, the     *)
(* reply stays as it is.                                                    *)
LEMMA FinalSame ==
  ASSUME NEW s, Sound(s), Spoken(s), NEW d \in Entries(s), IsReply(d), ~d.done
  PROVE  IsFinal(s, s, d, d)
<1>1. Plain(s) BY SoundPlain
<1>2. d.block.text \in Seq(Marks) BY DEF Spoken, Texted
<1>3. d.id \in DOMAIN s.said BY DEF Spoken, OpenSays
<1>4. Has(s, d.id) \o Shown(d.block.text) = Shown(s.said[d.id]) BY <1>3 DEF Spoken, HeldSays
<1>5. IsText(s.said, s.next_id) BY DEF Spoken, Texted
<1> QED BY <1>1, <1>2, <1>4, <1>5 DEF IsFinal

(* Finalize: what was printed and the rest of the final text are that text. *)
LEMMA FinalizeSays ==
  ASSUME NEW s, Sound(s), Spoken(s), NEW d \in Entries(s), IsReply(d), ~d.done,
         EntryOf(s, d.id) = d, NEW text \in Seq(Marks)
  PROVE  \E e : IsFinal(s, Finalize(s, d.id, text), d, e)
<1> DEFINE p == Look(s.printed_prefix, d.id, <<>>)
           R == SubSeq(text, Len(p) + 1, Len(text))
           rest == Trimmed(R)
           e == [d EXCEPT !.block.text = rest]
           u == Change(s, d.id, e)
           v == [u.said EXCEPT ![d.id] = text]
           t == [u EXCEPT !.said = v]
<1>1. CASE ~IsPrefix(p, text)
  <2>1. Finalize(s, d.id, text) = s BY <1>1 DEF Finalize
  <2> HIDE DEF p
  <2> QED BY <2>1, FinalSame
<1>2. CASE IsPrefix(p, text)
  <2>1. Finalize(s, d.id, text) = t BY <1>2 DEF Finalize
  <2>2. p \in Seq(Marks) BY LookText DEF Spoken, Texted
  <2>3. p = Pre(s, d.id) BY DEF Pre
  <2> HIDE DEF p
  <2>4. Len(p) <= Len(text) /\ SubSeq(p, 1, Len(p)) = SubSeq(text, 1, Len(p)) BY <1>2 DEF IsPrefix
  <2>5. Len(p) \in 0..Len(text) BY <2>2, <2>4
  <2>6. R \in Seq(Marks) /\ text = SubSeq(text, 1, Len(p)) \o R BY <2>5, CutText
  <2>7. p = SubSeq(p, 1, Len(p)) BY <2>2, SubSeqFull
  <2>8. text = p \o R BY <2>4, <2>6, <2>7
  <2> HIDE DEF R
  <2>9. rest \in Seq(Marks) /\ Shown(rest) = Shown(R) BY <2>6, TrimmedShows
  <2>10. Shown(text) = Shown(p) \o Shown(rest)
    <3>1. Shown(p \o R) = Shown(p) \o Shown(R) BY <2>2, <2>6, ShownJoin
    <3> QED BY <3>1, <2>8, <2>9
  <2> HIDE DEF rest
  <2>11. Plain(s) BY SoundPlain
  <2>12. Listed(s) /\ DOMAIN s = Fields /\ s.next_id \in Nat \ {0} /\ IsPlain(d, s.next_id)
    BY <2>11 DEF Plain, Listed
  <2>13. /\ e.id = d.id /\ e.of = d.of /\ e.done = d.done /\ e.block.kind = d.block.kind
         /\ e.block.text = rest /\ IsPlain(e, s.next_id)
    BY <2>12 DEF IsPlain
  <2> DEFINE k == Index(s, d.id)
             q == [s.entries EXCEPT ![k] = e]
  <2> HIDE DEF e
  <2>14. Listed(u) /\ SameRest(s, u) /\ Entries(u) = (Entries(s) \ {d}) \cup {e}
    BY <2>12, <2>13, Changed
  <2>15. u = [s EXCEPT !.entries = q]
    <3>1. k # 0 BY <2>12, Found
    <3> QED BY <3>1 DEF Change
  <2> HIDE DEF u, q
  <2>16. DOMAIN u = Fields /\ SameText(s, u) BY <2>12, <2>15 DEF Fields, SameText
  <2>17. v = [s.said EXCEPT ![d.id] = text] BY <2>16 DEF SameText
  <2> HIDE DEF v
  <2>18. /\ t.said = v /\ t.printed = s.printed /\ t.printed_prefix = s.printed_prefix
         /\ t.entries = u.entries /\ t.next_id = s.next_id /\ DOMAIN t = Fields
    BY <2>14, <2>16 DEF Fields, SameText, SameRest
  <2> HIDE DEF t
  <2>19. Listed(t) /\ Entries(t) = (Entries(s) \ {d}) \cup {e}
    BY <2>14, <2>18 DEF Listed, Entries
  <2>20. Plain(t) BY <2>11, <2>13, <2>12, <2>18, <2>19 DEF Plain
  <2>21. d.id \in DOMAIN s.said /\ Has(s, d.id) = Shown(p)
    BY <2>3 DEF Spoken, OpenSays
  <2>22. DOMAIN v = DOMAIN s.said /\ v[d.id] = text
         /\ \A j \in DOMAIN s.said : j # d.id => v[j] = s.said[j]
    BY <2>17, <2>21
  <2>23. IsText(v, s.next_id) BY <2>22 DEF Spoken, Texted, IsText
  <2>24. IsReply(e) BY <2>13 DEF IsReply
  <2>25. Has(s, d.id) \o Shown(e.block.text) = Shown(v[d.id]) BY <2>10, <2>13, <2>21, <2>22
  <2>26. IsFinal(s, t, d, e)
    BY <2>9, <2>13, <2>18, <2>19, <2>20, <2>22, <2>23, <2>24, <2>25 DEF IsFinal
  <2> QED BY <2>1, <2>26
<1> QED BY <1>1, <1>2

(* The reply is done, and its stream and its prefix are let go.             *)
LEMMA EndSpoken ==
  ASSUME NEW s, Sound(s), Spoken(s), NEW d \in Entries(s), IsReply(d), ~d.done,
         NEW f, NEW e, IsFinal(s, f, d, e), NEW streams
  PROVE  Spoken(finish([f EXCEPT !.streams = streams,
                                 !.printed_prefix = Without(f.printed_prefix, {d.id})], d.id))
<1> DEFINE prefix == Without(f.printed_prefix, {d.id})
           g == [f EXCEPT !.streams = streams, !.printed_prefix = prefix]
           t == finish(g, d.id)
           a == [e EXCEPT !.done = TRUE]
<1>1. /\ Plain(f) /\ f.next_id = s.next_id /\ Entries(f) = (Entries(s) \ {d}) \cup {e}
      /\ f.printed = s.printed /\ f.printed_prefix = s.printed_prefix
      /\ IsText(f.said, s.next_id) /\ DOMAIN f.said = DOMAIN s.said
      /\ \A j \in DOMAIN s.said : j # d.id => f.said[j] = s.said[j]
      /\ IsReply(e) /\ e.id = d.id /\ e.of = d.of /\ e.block.text \in Seq(Marks)
      /\ Has(s, d.id) \o Shown(e.block.text) = Shown(f.said[d.id])
  BY DEF IsFinal
<1>2. DOMAIN f = Fields /\ Listed(f) /\ IsPlain(e, s.next_id) BY <1>1 DEF Plain, Listed
<1>3. /\ DOMAIN prefix \subseteq DOMAIN s.printed_prefix
      /\ \A j \in DOMAIN prefix : prefix[j] = s.printed_prefix[j]
      /\ \A j \in DOMAIN s.printed_prefix : j # d.id => j \in DOMAIN prefix
  BY <1>1 DEF Without, Restrict
<1> HIDE DEF prefix
<1>4. /\ DOMAIN g = Fields /\ g.entries = f.entries /\ g.next_id = s.next_id
      /\ g.said = f.said /\ g.printed = s.printed /\ g.printed_prefix = prefix
  BY <1>1, <1>2 DEF Fields
<1> HIDE DEF g
<1>5. Listed(g) /\ Entries(g) = (Entries(s) \ {d}) \cup {e}
  BY <1>1, <1>2, <1>4 DEF Listed, Entries
<1>6. EntryOf(g, d.id) = e /\ Index(g, d.id) # 0 BY <1>1, <1>5, Found
<1>7. t = Change(g, e.id, a) BY <1>1, <1>6 DEF finish
<1>8. a.id = e.id /\ a.of = e.of /\ a.block = e.block /\ a.done BY <1>2 DEF IsPlain
<1> DEFINE k == Index(g, e.id)
           q == [g.entries EXCEPT ![k] = a]
<1> HIDE DEF a, t
<1>9. Listed(t) /\ SameRest(g, t) /\ Entries(t) = (Entries(g) \ {e}) \cup {a}
  BY <1>5, <1>7, <1>8, Changed
<1>10. t = [g EXCEPT !.entries = q] BY <1>1, <1>6, <1>7 DEF Change
<1> HIDE DEF q
<1>11. SameText(g, t) /\ t.next_id = s.next_id BY <1>4, <1>10 DEF Fields, SameText
<1>12. OneId(Entries(s)) /\ s.next_id \in Nat BY SoundParts
<1>13. Entries(t) = (Entries(s) \ {d}) \cup {a}
  <2>1. \A c \in Entries(s) : c # d => c.id # d.id BY <1>12 DEF OneId
  <2>2. \A c \in Entries(s) : c # d => c # e BY <1>1, <2>1
  <2>3. (Entries(g) \ {e}) \cup {a} = (Entries(s) \ {d}) \cup {a} BY <1>5, <2>2
  <2> QED BY <1>9, <2>3
<1>14. \A j : Has(t, j) = Has(s, j) BY <1>4, <1>11 DEF SameText, Has
<1>15. \A j : j # d.id => Pre(t, j) = Pre(s, j)
  BY <1>3, <1>4, <1>11 DEF SameText, Pre, Look
<1>16. Follows(s, t, d, a)
  <2>1. IsReply(a) /\ a.id = d.id /\ a.of = d.of /\ a.block.text \in Seq(Marks)
    BY <1>1, <1>8 DEF IsReply
  <2>2. s.next_id <= t.next_id BY <1>11, <1>12
  <2>3. IsText(t.said, s.next_id) /\ IsText(t.printed, s.next_id)
        /\ IsText(t.printed_prefix, s.next_id) /\ DOMAIN t.said = DOMAIN s.said
    <3>1. IsText(prefix, s.next_id)
      <4>1. IsText(s.printed_prefix, s.next_id) BY DEF Spoken, Texted
      <4> QED BY <1>3, <4>1 DEF IsText
    <3>2. IsText(s.printed, s.next_id) BY DEF Spoken, Texted
    <3> QED BY <1>1, <1>4, <1>11, <3>1, <3>2 DEF SameText
  <2>4. \A j : j # d.id => /\ j \in DOMAIN s.said => t.said[j] = s.said[j]
                           /\ Pre(t, j) = Pre(s, j) /\ Has(t, j) = Has(s, j)
    BY <1>1, <1>4, <1>11, <1>14, <1>15 DEF SameText
  <2>5. Has(t, d.id) \o Shown(a.block.text) = Shown(t.said[d.id])
    BY <1>1, <1>4, <1>8, <1>11, <1>14 DEF SameText
  <2> QED BY <2>1, <2>2, <2>3, <2>4, <2>5, <1>8, <1>11, <1>12, <1>13 DEF Follows
<1>17. Spoken(t) BY <1>12, <1>16, FollowsSpoken
<1> QED BY <1>17 DEF t, g, prefix

(* Complete: the texts agree, whatever the text the reply ends with.        *)
LEMMA CompleteSpoken ==
  ASSUME NEW s, Sound(s), Spoken(s), NEW sid, NEW texts, texts \subseteq Seq(Marks)
  PROVE  Spoken(Complete(s, sid, texts))
<1> DEFINE r == finish_reasoning(s, sid)
           id == r.streams[sid]
           x == CHOOSE t \in texts : TRUE
           f == IF texts = {} THEN r ELSE Finalize(r, id, x)
           streams == Without(f.streams, {sid})
           g == finish([f EXCEPT !.streams = streams,
                                 !.printed_prefix = Without(f.printed_prefix, {id})], id)
<1>1. Complete(s, sid, texts) = IF sid \notin DOMAIN r.streams THEN r ELSE g BY DEF Complete
<1>2. Sound(r) /\ Spoken(r)
  <2>1. Sound(r) BY ThoughtSound
  <2>2. Spoken(r) BY SoundPlain, ThoughtHush, QuietSpoken DEF Hush
  <2> QED BY <2>1, <2>2
<1>3. texts # {} => x \in Seq(Marks) OBVIOUS
<1> HIDE DEF r, x
<1>4. CASE sid \notin DOMAIN r.streams BY <1>1, <1>2, <1>4
<1>5. CASE sid \in DOMAIN r.streams
  <2>1. PICK d \in Entries(r) : /\ d.id = id /\ ~d.done /\ IsReply(d)
                                /\ EntryOf(r, d.id) = d /\ IsPlain(d, r.next_id)
    BY <1>2, <1>5, StreamReply
  <2>2. \E e : IsFinal(r, f, d, e)
    <3>1. CASE texts = {} BY <1>2, <2>1, <3>1, FinalSame
    <3>2. CASE texts # {} BY <1>2, <1>3, <2>1, <3>2, FinalizeSays
    <3> QED BY <3>1, <3>2
  <2>3. PICK e : IsFinal(r, f, d, e) BY <2>2
  <2> HIDE DEF f, streams
  <2>4. Spoken(g) BY <1>2, <2>1, <2>3, EndSpoken
  <2> QED BY <1>1, <1>5, <2>4
<1> QED BY <1>4, <1>5

-----------------------------------------------------------------------------
(* What is printed. What a list shows of a reply is a text: that of its one *)
(* paragraph, or nothing.                                                   *)
LEMMA ShownTexts ==
  ASSUME NEW q, IsList(q), NEW id, SaidOnce(q, id),
         \A e \in Range(q) : IsReply(e) => e.block.text \in Seq(Marks)
  PROVE  /\ ShownOf(q, id) \in Seq(Marks)
         /\ (\A e \in Range(q) : Says(e, id) => Blank(e.block.text)) => ShownOf(q, id) = <<>>
<1>1. CASE \A e \in Range(q) : ~Says(e, id)
  <2>1. ShownOf(q, id) = <<>> BY <1>1, ShownNone
  <2>2. <<>> \in Seq(Marks) BY EmptySeq
  <2> QED BY <2>1, <2>2
<1>2. CASE \E e \in Range(q) : Says(e, id)
  <2>1. PICK e \in Range(q) : Says(e, id) BY <1>2
  <2>2. e.block.text \in Seq(Marks) BY <2>1 DEF Says
  <2>3. ShownOf(q, id) = Shown(e.block.text) BY <2>1, <2>2, ShownOne
  <2>4. Blank(e.block.text) => Shown(e.block.text) = <<>> BY <2>2, ShownBlank
  <2> QED BY <2>1, <2>2, <2>3, <2>4, ShownText
<1> QED BY <1>1, <1>2

(* PrintEntries adds to what history has of each reply what the entries     *)
(* show of it.                                                              *)
LEMMA PrintedHas ==
  ASSUME NEW p, NEW m, IsText(p, m), NEW q, IsList(q), \A id : SaidOnce(q, id),
         \A e \in Range(q) : IsReply(e) => e.of \in 1..(m - 1) /\ e.block.text \in Seq(Marks)
  PROVE  /\ IsText(PrintEntries(p, q), m)
         /\ \A id : Look(PrintEntries(p, q), id, <<>>) = Look(p, id, <<>>) \o ShownOf(q, id)
<1> DEFINE R == {e \in Range(q) : e.block.kind = "reply" /\ ~Blank(e.block.text)}
           D == DOMAIN p \cup {e.of : e \in R}
           g == [id \in D |-> Look(p, id, <<>>) \o ShownOf(q, id)]
<1>1. PrintEntries(p, q) = g BY DEF PrintEntries
<1>2. \A id : Look(p, id, <<>>) \in Seq(Marks) /\ ShownOf(q, id) \in Seq(Marks)
  BY LookText, ShownTexts
<1>3. DOMAIN g = D /\ \A id \in D : g[id] = Look(p, id, <<>>) \o ShownOf(q, id) OBVIOUS
<1> HIDE DEF g
<1>4. D \subseteq 1..(m - 1) BY DEF IsText, IsReply
<1>5. \A id \in D : g[id] \in Seq(Marks)
  <2> SUFFICES ASSUME NEW id \in D PROVE g[id] \in Seq(Marks) OBVIOUS
  <2> DEFINE x == Look(p, id, <<>>)
             y == ShownOf(q, id)
  <2>1. x \in Seq(Marks) /\ y \in Seq(Marks) /\ g[id] = x \o y BY <1>2, <1>3
  <2> HIDE DEF x, y
  <2> QED BY <2>1
<1>6. ASSUME NEW id PROVE Look(g, id, <<>>) = Look(p, id, <<>>) \o ShownOf(q, id)
  <2>1. CASE id \in D BY <1>3, <2>1 DEF Look
  <2>2. CASE id \notin D
    <3>1. \A e \in Range(q) : Says(e, id) => Blank(e.block.text) BY <2>2 DEF Says, IsReply
    <3>2. ShownOf(q, id) = <<>> BY <3>1, ShownTexts
    <3>3. Look(p, id, <<>>) = <<>> /\ Look(g, id, <<>>) = <<>> BY <1>3, <2>2 DEF Look
    <3>4. <<>> \o <<>> = <<>> BY EmptySeq, ConcatEmptySeq
    <3> QED BY <3>2, <3>3, <3>4
  <2> QED BY <2>1, <2>2
<1> QED BY <1>1, <1>3, <1>4, <1>5, <1>6 DEF IsText

(* The first entries of a list.                                             *)
LEMMA FrontList ==
  ASSUME NEW q, IsList(q), NEW n \in 0..Len(q)
  PROVE  /\ IsList(SubSeq(q, 1, n)) /\ DOMAIN SubSeq(q, 1, n) = 1..n
         /\ \A i \in 1..n : SubSeq(q, 1, n)[i] = q[i]
         /\ Range(SubSeq(q, 1, n)) = {q[i] : i \in 1..n}
<1> DEFINE r == SubSeq(q, 1, n)
<1>1. q \in Seq(Range(q)) BY DEF IsList
<1>2. r \in Seq(Range(q)) /\ Len(r) = n /\ \A i \in 1..n : r[i] = q[i] BY <1>1, CutText
<1>3. DOMAIN r = 1..n BY <1>2
<1>4. IsList(r) BY <1>2, SeqList
<1> HIDE DEF r
<1>5. Range(r) = {q[i] : i \in 1..n} BY <1>2, <1>3 DEF Range
<1> QED BY <1>2, <1>3, <1>4, <1>5 DEF r

(* A list of paragraphs that are each of a reply of their own.              *)
LEMMA ApartSaid ==
  ASSUME NEW q, IdsApart(q), \A e \in Range(q) : e.of = e.id, NEW id
  PROVE  SaidOnce(q, id)
<1> SUFFICES ASSUME NEW i \in DOMAIN q, NEW j \in DOMAIN q, Says(q[i], id), Says(q[j], id)
             PROVE  i = j
  BY DEF SaidOnce
<1>1. q[i] \in Range(q) /\ q[j] \in Range(q) BY DEF Range
<1>2. q[i].id = q[j].id BY <1>1 DEF Says
<1> QED BY <1>2 DEF IdsApart

(* Entries that are done are printed and dropped: what history has of their *)
(* replies grows by what they showed.                                       *)
LEMMA LeaveSpoken ==
  ASSUME NEW s, Plain(s), Spoken(s), NEW n \in 0..Len(s.entries),
         \A i \in 1..n : s.entries[i].done,
         NEW t, t.entries = SubSeq(s.entries, n + 1, Len(s.entries)),
         t.printed = PrintEntries(s.printed, SubSeq(s.entries, 1, n)),
         t.next_id = s.next_id, t.said = s.said, t.printed_prefix = s.printed_prefix
  PROVE  Spoken(t)
<1> DEFINE q == s.entries
           a == SubSeq(q, 1, n)
           b == SubSeq(q, n + 1, Len(q))
           m == s.next_id
<1>1. IsList(q) /\ IdsApart(q) /\ Len(q) \in Nat /\ DOMAIN q = 1..Len(q)
  BY ListIs DEF Plain, Listed
<1>2. /\ IsList(a) /\ DOMAIN a = 1..n /\ Range(a) = {q[i] : i \in 1..n}
      /\ \A i \in 1..n : a[i] = q[i]
  BY <1>1, FrontList
<1>3. IsList(b) /\ IdsApart(b) /\ Range(b) = {q[i] : i \in (n + 1)..Len(q)}
  BY <1>1, RestList
<1> HIDE DEF a, b
<1>4. Entries(t) = Range(b) BY DEF Entries, b
<1>5. \A i \in 1..n : i \in DOMAIN q BY <1>1
<1>6. \A i \in (n + 1)..Len(q) : i \in DOMAIN q BY <1>1
<1>7. Range(a) \subseteq Entries(s) /\ Range(b) \subseteq Entries(s)
  BY <1>2, <1>3, <1>5, <1>6 DEF Entries, Range
<1>8. Entries(s) \subseteq Range(a) \cup Range(b)
  <2> SUFFICES ASSUME NEW i \in DOMAIN q PROVE q[i] \in Range(a) \cup Range(b)
    BY DEF Entries, Range
  <2>1. i \in 1..n \/ i \in (n + 1)..Len(q) BY <1>1
  <2> QED BY <2>1, <1>2, <1>3
<1>9. \A d \in Range(a) : d.done BY <1>2
<1>10. \A d \in Range(a), e \in Range(b) : d.id # e.id
  <2> SUFFICES ASSUME NEW i \in 1..n, NEW j \in (n + 1)..Len(q) PROVE q[i].id # q[j].id
    BY <1>2, <1>3
  <2>1. i # j BY <1>1
  <2> QED BY <1>1, <1>5, <1>6, <2>1 DEF IdsApart
<1>11. IdsApart(a) BY <1>1, <1>2, <1>5 DEF IdsApart
<1>12. \A e \in Entries(s) : e.of = e.id /\ (IsReply(e) => e.block.text \in Seq(Marks))
  BY DEF Spoken, Texted
<1>13. \A id : SaidOnce(a, id) BY <1>7, <1>11, <1>12, ApartSaid
<1>14. \A e \in Range(a) : IsReply(e) => e.of \in 1..(m - 1) /\ e.block.text \in Seq(Marks)
  BY <1>7, <1>12 DEF Plain, IsPlain
<1>15. IsText(s.printed, m) BY DEF Spoken, Texted
<1>16. /\ IsText(t.printed, m)
       /\ \A id : Has(t, id) = Has(s, id) \o ShownOf(a, id)
  BY <1>2, <1>13, <1>14, <1>15, PrintedHas DEF Has, a
<1>17. \A id : Pre(t, id) = Pre(s, id) /\ Has(s, id) \in Seq(Marks)
  BY <1>15, LookText DEF Pre, Has
<1>18. ASSUME NEW id, \A e \in Range(a) : IsReply(e) => e.id # id
       PROVE  Has(t, id) = Has(s, id)
  <2>1. \A e \in Range(a) : ~Says(e, id) BY <1>7, <1>12, <1>18 DEF Says
  <2>2. ShownOf(a, id) = <<>> BY <1>2, <2>1, ShownNone
  <2>3. Has(s, id) \o <<>> = Has(s, id) BY <1>17, ConcatEmptySeq
  <2> QED BY <1>16, <2>2, <2>3
<1>19. Texted(t)
  <2>1. IsText(t.said, m) /\ IsText(t.printed_prefix, m) BY DEF Spoken, Texted
  <2> QED BY <1>4, <1>7, <1>12, <1>16, <2>1 DEF Texted
<1>20. OpenSays(t)
  <2> SUFFICES ASSUME NEW e \in Range(b), IsReply(e), ~e.done
               PROVE  /\ e.id \in DOMAIN t.said /\ t.said[e.id] = Pre(t, e.id) \o e.block.text
                      /\ Has(t, e.id) = Shown(Pre(t, e.id))
    BY <1>4 DEF OpenSays
  <2>1. Has(t, e.id) = Has(s, e.id) BY <1>10, <1>18
  <2> QED BY <1>7, <1>17, <2>1 DEF Spoken, OpenSays
<1>21. HeldSays(t)
  <2> SUFFICES ASSUME NEW e \in Range(b), IsReply(e), e.id \in DOMAIN t.said
               PROVE  Has(t, e.id) \o Shown(e.block.text) = Shown(t.said[e.id])
    BY <1>4 DEF HeldSays
  <2>1. Has(t, e.id) = Has(s, e.id) BY <1>10, <1>18
  <2> QED BY <1>7, <2>1 DEF Spoken, HeldSays
<1>22. GoneSays(t)
  <2> SUFFICES ASSUME NEW id \in DOMAIN s.said, \A e \in Range(b) : IsReply(e) => e.id # id
               PROVE  Has(t, id) = Shown(s.said[id])
    BY <1>4 DEF GoneSays
  <2>1. CASE \A e \in Range(a) : IsReply(e) => e.id # id
    <3>1. \A e \in Entries(s) : IsReply(e) => e.id # id BY <1>8, <2>1
    <3>2. Has(s, id) = Shown(s.said[id]) BY <3>1 DEF Spoken, GoneSays
    <3> QED BY <1>18, <2>1, <3>2
  <2>2. CASE \E e \in Range(a) : IsReply(e) /\ e.id = id
    <3>1. PICK e \in Range(a) : IsReply(e) /\ e.id = id BY <2>2
    <3>2. Says(e, id) /\ e.block.text \in Seq(Marks) BY <1>7, <1>12, <3>1 DEF Says
    <3>3. ShownOf(a, id) = Shown(e.block.text) BY <1>2, <1>13, <3>2, ShownOne
    <3>4. Has(s, id) \o Shown(e.block.text) = Shown(s.said[id])
      BY <1>7, <3>1 DEF Spoken, HeldSays
    <3> QED BY <1>16, <3>3, <3>4
  <2> QED BY <2>1, <2>2
<1> QED BY <1>19, <1>20, <1>21, <1>22 DEF Spoken

(* A greatest element: what Max finds is there.                             *)
LEMMA MaxIn ==
  ASSUME NEW n \in Nat, NEW B, B \subseteq 1..n, B # {}
  PROVE  Max(B) \in B
<1> DEFINE C == {n - x : x \in B}
<1>1. C \in SUBSET Nat
  <2>1. \A x \in B : n - x \in Nat OBVIOUS
  <2> QED BY <2>1
<1>2. C # {} OBVIOUS
<1>3. \E c \in C : \A x \in C : c <= x
  <2> HIDE DEF C
  <2> QED BY <1>1, <1>2, MinOf
<1>4. PICK m \in B : \A x \in B : n - m <= n - x BY <1>3
<1>5. \A x \in B : m >= x BY <1>4
<1> QED BY <1>4, <1>5 DEF Max

(* The front of two texts joined.                                           *)
LEMMA FrontOf ==
  ASSUME NEW S, NEW x \in Seq(S), NEW y \in Seq(S)
  PROVE  SubSeq(x \o y, 1, Len(x)) = x
<1> DEFINE z == x \o y
           c == SubSeq(z, 1, Len(x))
<1>1. /\ z \in Seq(S) /\ Len(z) = Len(x) + Len(y) /\ Len(x) \in Nat /\ Len(y) \in Nat
      /\ \A i \in 1..Len(x) : z[i] = x[i]
  BY Joined
<1> HIDE DEF z
<1>2. Len(x) \in 0..Len(z) BY <1>1
<1>3. c \in Seq(S) /\ Len(c) = Len(x) /\ \A i \in 1..Len(x) : c[i] = z[i] BY <1>1, <1>2, CutText
<1> HIDE DEF c
<1>4. \A i \in 1..Len(c) : c[i] = x[i] BY <1>1, <1>3
<1>5. c = x BY <1>3, <1>4, SeqEqual
<1> QED BY <1>5 DEF c, z

(* Texts joined in either order.                                            *)
LEMMA Regroup ==
  ASSUME NEW a \in Seq(Marks), NEW b \in Seq(Marks), NEW c \in Seq(Marks)
  PROVE  a \o (b \o c) = (a \o b) \o c
<1>1. \A S : \A s1, s2, s3 \in Seq(S) : (s1 \o s2) \o s3 = s1 \o (s2 \o s3) BY ConcatAssociative
<1> QED BY <1>1

(* A text is split: what is taken off is the head and blank lines, and with *)
(* the tail it is the text.                                                 *)
LEMMA SplitText ==
  ASSUME NEW text \in Seq(Marks), Splits(text) # {}
  PROVE  LET at       == paragraph_split(text)
             head     == SubSeq(text, 1, at)
             tail     == Trimmed(SubSeq(text, at + 1, Len(text)))
             consumed == SubSeq(text, 1, Len(text) - Len(tail))
         IN /\ head \in Seq(Marks) /\ tail \in Seq(Marks) /\ consumed \in Seq(Marks)
            /\ text = consumed \o tail /\ Shown(consumed) = Shown(head)
<1> DEFINE l == Len(text)
           at == paragraph_split(text)
           head == SubSeq(text, 1, at)
           R == SubSeq(text, at + 1, l)
           tail == Trimmed(R)
           consumed == SubSeq(text, 1, l - Len(tail))
<1>1. l \in Nat /\ DOMAIN text = 1..l OBVIOUS
<1>2. at \in 0..l
  <2> DEFINE B == Splits(text)
  <2>1. B \subseteq 1..l BY <1>1 DEF Splits
  <2>2. at = Max(B) BY DEF paragraph_split
  <2> HIDE DEF B, at
  <2>3. B # {} BY DEF B
  <2>4. Max(B) \in B
    <3> HIDE DEF l
    <3> QED BY <1>1, <2>1, <2>3, MaxIn
  <2>5. at \in 1..l BY <2>1, <2>2, <2>4
  <2> QED BY <1>1, <2>5
<1> HIDE DEF at
<1>3. head \in Seq(Marks) /\ R \in Seq(Marks) /\ text = head \o R /\ Len(head) = at
  BY <1>2, CutText
<1> HIDE DEF R, head
<1>4. tail \in Seq(Marks) /\ \E k \in 0..Len(R) : /\ tail = SubSeq(R, k + 1, Len(R))
                                                  /\ Blank(SubSeq(R, 1, k))
  BY <1>3, TrimmedShows
<1> HIDE DEF tail
<1>5. PICK k \in 0..Len(R) : tail = SubSeq(R, k + 1, Len(R)) /\ Blank(SubSeq(R, 1, k))
  BY <1>4
<1> DEFINE c == SubSeq(R, 1, k)
           x == head \o c
<1>6. c \in Seq(Marks) /\ R = c \o tail BY <1>3, <1>5, CutText
<1>7. Shown(c) = <<>>
  <2>1. Blank(c) BY <1>5
  <2> HIDE DEF c
  <2> QED BY <1>6, <2>1, ShownBlank
<1> HIDE DEF c
<1>8. x \in Seq(Marks) BY <1>3, <1>6
<1>9. Shown(x) = Shown(head)
  <2>1. Shown(x) = Shown(head) \o Shown(c) BY <1>3, <1>6, ShownJoin
  <2>2. Shown(head) \in Seq(Marks) BY <1>3, ShownText
  <2>3. Shown(head) \o <<>> = Shown(head) BY <2>2, ConcatEmptySeq
  <2> QED BY <1>7, <2>1, <2>3
<1>10. text = x \o tail
  <2> HIDE DEF x, consumed, l
  <2>1. head \o (c \o tail) = (head \o c) \o tail
    <3>1. head \in Seq(Marks) /\ c \in Seq(Marks) /\ tail \in Seq(Marks) BY <1>3, <1>4, <1>6
    <3> QED BY <3>1, Regroup
  <2> QED BY <1>3, <1>6, <2>1 DEF x
<1> HIDE DEF x
<1>11. l - Len(tail) = Len(x)
  <2>1. Len(x \o tail) = Len(x) + Len(tail) /\ Len(x) \in Nat /\ Len(tail) \in Nat
    BY <1>4, <1>8, Joined
  <2>2. l = Len(x) + Len(tail) BY <1>10, <2>1
  <2> HIDE DEF l
  <2> QED BY <2>1, <2>2
<1>12. consumed = x
  <2>1. SubSeq(x \o tail, 1, Len(x)) = x BY <1>4, <1>8, FrontOf
  <2> HIDE DEF l
  <2> QED BY <1>10, <1>11, <2>1
<1> HIDE DEF consumed
<1>13. /\ head \in Seq(Marks) /\ tail \in Seq(Marks) /\ consumed \in Seq(Marks)
       /\ text = consumed \o tail /\ Shown(consumed) = Shown(head)
  BY <1>3, <1>4, <1>8, <1>9, <1>10, <1>12
<1> QED BY <1>13 DEF consumed, tail, R, head, at

(* A list whose first entry is done and whose second is not: one is ready   *)
(* to be printed, and the rest is the list without it.                      *)
LEMMA OneReady ==
  ASSUME NEW q, IsList(q), IdsApart(q), Len(q) >= 2, q[1].done, ~q[2].done
  PROVE  LET undone == {i \in DOMAIN q : ~q[i].done}
             ready == IF undone = {} THEN Len(q) ELSE Min(undone) - 1
         IN /\ ready = 1
            /\ IsList(SubSeq(q, 1, 1)) /\ DOMAIN SubSeq(q, 1, 1) = 1..1
            /\ SubSeq(q, 1, 1)[1] = q[1] /\ Range(SubSeq(q, 1, 1)) = {q[1]}
            /\ IsList(SubSeq(q, 2, Len(q))) /\ IdsApart(SubSeq(q, 2, Len(q)))
            /\ Range(SubSeq(q, 2, Len(q))) = Range(q) \ {q[1]}
<1> DEFINE undone == {i \in DOMAIN q : ~q[i].done}
           ready == IF undone = {} THEN Len(q) ELSE Min(undone) - 1
<1>1. Len(q) \in Nat /\ DOMAIN q = 1..Len(q) BY ListIs
<1>2. undone \in SUBSET Nat /\ 2 \in undone /\ \A i \in undone : i # 1 BY <1>1
<1>3. ready = 1
  <2>1. ready = Min(undone) - 1 BY <1>2
  <2> HIDE DEF undone, ready
  <2>2. \E m \in undone : \A x \in undone : m <= x BY <1>2, MinOf
  <2>3. Min(undone) \in undone /\ \A x \in undone : Min(undone) <= x BY <2>2 DEF Min
  <2> DEFINE m == Min(undone)
  <2> HIDE DEF m
  <2>4. m \in Nat /\ m <= 2 /\ m # 1 BY <1>2, <2>3 DEF m
  <2>5. m # 0
    <3>1. 0 \notin undone BY <1>1 DEF undone
    <3> QED BY <2>3, <3>1 DEF m
  <2>6. m = 2 BY <2>4, <2>5
  <2> QED BY <2>1, <2>6 DEF m
<1> DEFINE a == SubSeq(q, 1, 1)
           b == SubSeq(q, 2, Len(q))
<1>4. 1 \in 0..Len(q) BY <1>1
<1>5. /\ IsList(a) /\ DOMAIN a = 1..1 /\ Range(a) = {q[i] : i \in 1..1}
      /\ \A i \in 1..1 : a[i] = q[i]
  BY <1>4, FrontList
<1>6. IsList(b) /\ IdsApart(b) /\ Range(b) = {q[i] : i \in 2..Len(q)}
  <2>1. 1 + 1 = 2 OBVIOUS
  <2> HIDE DEF b
  <2>2. LET r == SubSeq(q, 1 + 1, Len(q)) IN
        IsList(r) /\ IdsApart(r) /\ Range(r) = {q[i] : i \in (1 + 1)..Len(q)}
    BY <1>4, RestList
  <2> QED BY <2>1, <2>2 DEF b
<1> HIDE DEF a, b, undone, ready
<1>7. a[1] = q[1] /\ Range(a) = {q[1]} BY <1>5
<1>8. Range(b) = Range(q) \ {q[1]}
  <2>1. \A i \in 2..Len(q) : i \in DOMAIN q /\ q[i] # q[1]
    <3> SUFFICES ASSUME NEW i \in 2..Len(q) PROVE i \in DOMAIN q /\ q[i] # q[1] OBVIOUS
    <3>1. i \in DOMAIN q /\ 1 \in DOMAIN q /\ i # 1 BY <1>1
    <3> QED BY <3>1 DEF IdsApart
  <2>2. \A i \in DOMAIN q : i = 1 \/ i \in 2..Len(q) BY <1>1
  <2>3. Range(b) \subseteq Range(q) \ {q[1]} BY <1>6, <2>1 DEF Range
  <2>4. Range(q) \ {q[1]} \subseteq Range(b) BY <1>6, <2>2 DEF Range
  <2> QED BY <2>3, <2>4
<1>9. /\ ready = 1 /\ IsList(a) /\ DOMAIN a = 1..1 /\ a[1] = q[1] /\ Range(a) = {q[1]}
      /\ IsList(b) /\ IdsApart(b) /\ Range(b) = Range(q) \ {q[1]}
  BY <1>3, <1>5, <1>6, <1>7, <1>8
<1> QED BY <1>9 DEF a, b, ready, undone

(* The reply d is split: its head, a, is printed alone, and its tail, b,    *)
(* stays in its place.                                                      *)
IsSplit(s, t, d, a, b, consumed, r) ==
  /\ IsReply(d) /\ ~d.done /\ IsReply(a) /\ a.of = d.id
  /\ IsTail(b, d, s.next_id) /\ b.of = d.of
  /\ consumed \in Seq(Marks) /\ a.block.text \in Seq(Marks) /\ b.block.text \in Seq(Marks)
  /\ d.block.text = consumed \o b.block.text /\ Shown(consumed) = Shown(a.block.text)
  /\ IsList(r) /\ DOMAIN r = 1..1 /\ r[1] = a /\ Range(r) = {a}
  /\ Entries(t) = (Entries(s) \ {d}) \cup {b}
  /\ t.next_id = s.next_id + 1 /\ t.said = s.said
  /\ t.printed = PrintEntries(s.printed, r)
  /\ t.printed_prefix = With(s.printed_prefix, d.id,
                              Look(s.printed_prefix, d.id, <<>>) \o consumed)

(* Then history has of the reply what was taken off.                        *)
LEMMA SplitSpoken ==
  ASSUME NEW s, Sound(s), Spoken(s), NEW t, NEW d \in Entries(s), NEW a, NEW b, NEW consumed,
         NEW r, IsSplit(s, t, d, a, b, consumed, r)
  PROVE  Spoken(t)
<1>0. /\ IsReply(d) /\ ~d.done /\ IsReply(a) /\ a.of = d.id
      /\ IsTail(b, d, s.next_id) /\ b.of = d.of
      /\ consumed \in Seq(Marks) /\ a.block.text \in Seq(Marks) /\ b.block.text \in Seq(Marks)
      /\ d.block.text = consumed \o b.block.text /\ Shown(consumed) = Shown(a.block.text)
      /\ IsList(r) /\ DOMAIN r = 1..1 /\ r[1] = a /\ Range(r) = {a}
      /\ Entries(t) = (Entries(s) \ {d}) \cup {b}
      /\ t.next_id = s.next_id + 1 /\ t.said = s.said
      /\ t.printed = PrintEntries(s.printed, r)
      /\ t.printed_prefix = With(s.printed_prefix, d.id,
                                  Look(s.printed_prefix, d.id, <<>>) \o consumed)
  BY DEF IsSplit
<1> DEFINE n == s.next_id
           head == a.block.text
           tail == b.block.text
           pre == Look(s.printed_prefix, d.id, <<>>)
           x == pre \o consumed
           prefix == With(s.printed_prefix, d.id, x)
<1>1. OneId(Entries(s)) /\ n \in Nat \ {0} /\ IsEntry(d, n) BY <1>0, SoundParts DEF Sound, Numbered
<1>2. d.id \in 1..(n - 1) BY <1>0, <1>1 DEF IsEntry
<1>3. IsText(s.printed, n) /\ IsText(s.printed_prefix, n) /\ IsText(s.said, n)
  BY <1>0 DEF Spoken, Texted
<1>4. \A id : SaidOnce(r, id) BY <1>0 DEF SaidOnce
<1>5. /\ IsText(t.printed, n)
      /\ \A id : Has(t, id) = Has(s, id) \o ShownOf(r, id)
  <2>1. \A e \in Range(r) : IsReply(e) => e.of \in 1..(n - 1) /\ e.block.text \in Seq(Marks)
    BY <1>0, <1>2
  <2> HIDE DEF n
  <2> DEFINE p == s.printed
  <2>2. IsText(p, n) BY <1>0, <1>3
  <2> HIDE DEF p
  <2>3. /\ IsText(PrintEntries(p, r), n)
        /\ \A id : Look(PrintEntries(p, r), id, <<>>) = Look(p, id, <<>>) \o ShownOf(r, id)
    BY <1>0, <1>4, <2>1, <2>2, PrintedHas
  <2>4. t.printed = PrintEntries(p, r) BY <1>0 DEF p
  <2> QED BY <1>0, <2>3, <2>4 DEF Has, p
<1>6. ShownOf(r, d.id) = Shown(head)
  <2>1. Says(a, d.id) /\ a \in Range(r) BY <1>0 DEF Says
  <2> QED BY <1>0, <1>4, <2>1, ShownOne
<1>7. \A id : Has(s, id) \in Seq(Marks) BY <1>0, <1>3, LookText DEF Has
<1>8. ASSUME NEW id, id # d.id PROVE Has(t, id) = Has(s, id)
  <2>1. \A e \in Range(r) : ~Says(e, id) BY <1>0, <1>8 DEF Says
  <2>2. ShownOf(r, id) = <<>> BY <1>0, <2>1, ShownNone
  <2>3. Has(s, id) \o <<>> = Has(s, id) BY <1>0, <1>7, ConcatEmptySeq
  <2> QED BY <1>0, <1>5, <2>2, <2>3
<1>9. pre \in Seq(Marks) /\ pre = Pre(s, d.id) BY <1>0, <1>3, LookText, Zenon DEF Pre
<1> HIDE DEF pre
<1>10. x \in Seq(Marks) /\ Shown(x) = Shown(pre) \o Shown(consumed)
  <2>1. pre \in Seq(Marks) BY <1>0, <1>9
  <2>2. pre \o consumed \in Seq(Marks) BY <1>0, <2>1
  <2>3. Shown(pre \o consumed) = Shown(pre) \o Shown(consumed) BY <1>0, <2>1, ShownJoin
  <2> QED BY <1>0, <2>2, <2>3
<1>11. pre \o (consumed \o tail) = x \o tail BY <1>0, <1>9, Regroup
<1>12. /\ d.id \in DOMAIN s.said /\ s.said[d.id] = pre \o d.block.text
       /\ Has(s, d.id) = Shown(pre)
  BY <1>0, <1>9 DEF Spoken, OpenSays
<1>13. s.said[d.id] = x \o tail BY <1>0, <1>11, <1>12
<1>14. Has(t, d.id) = Shown(x) BY <1>0, <1>5, <1>6, <1>10, <1>12
<1> HIDE DEF x
<1>15. Shown(x \o tail) = Shown(x) \o Shown(tail) BY <1>0, <1>10, ShownJoin
<1>16. t.printed_prefix = prefix BY <1>0 DEF prefix, x, pre
<1>17. DOMAIN prefix = DOMAIN s.printed_prefix \cup {d.id} /\ prefix[d.id] = x
       /\ \A id \in DOMAIN s.printed_prefix : id # d.id => prefix[id] = s.printed_prefix[id]
  BY <1>0 DEF With
<1> HIDE DEF prefix
<1>18. Pre(t, d.id) = x BY <1>0, <1>16, <1>17 DEF Pre, Look
<1>19. \A id : id # d.id => Pre(t, id) = Pre(s, id) BY <1>0, <1>16, <1>17 DEF Pre, Look
<1>20. IsText(t.printed_prefix, n) BY <1>0, <1>2, <1>3, <1>10, <1>16, <1>17 DEF IsText
<1>21. b.id = d.id /\ IsReply(b) BY <1>0 DEF IsTail, IsReply
<1>22. Follows(s, t, d, b)
  <2>1. s.next_id \in Nat /\ t.next_id \in Nat /\ s.next_id <= t.next_id BY <1>0, <1>1
  <2>2. IsText(t.said, n) /\ DOMAIN t.said = DOMAIN s.said BY <1>0, <1>3
  <2>3. Has(t, d.id) \o Shown(tail) = Shown(t.said[d.id]) BY <1>0, <1>13, <1>14, <1>15
  <2>4. t.said[d.id] = Pre(t, d.id) \o tail /\ Has(t, d.id) = Shown(Pre(t, d.id))
    BY <1>0, <1>13, <1>14, <1>18
  <2> HIDE DEF tail
  <2> QED BY <1>0, <1>5, <1>8, <1>19, <1>20, <1>21, <2>1, <2>2, <2>3, <2>4 DEF Follows, tail
<1> QED BY <1>0, <1>1, <1>22, FollowsSpoken

(* take_history: what is printed of a reply, and what is still held, is     *)
(* what was said of it.                                                     *)
LEMMA TakeSpoken ==
  ASSUME NEW s, Sound(s), Spoken(s)
  PROVE  Spoken(take_history(s))
<1> DEFINE u == split_streaming_paragraphs(s)
           q == u.entries
           undone == {i \in DOMAIN q : ~q[i].done}
           ready == IF undone = {} THEN Len(q) ELSE Min(undone) - 1
           printed == PrintEntries(u.printed, SubSeq(q, 1, ready))
           rest == SubSeq(q, ready + 1, Len(q))
           t == [u EXCEPT !.printed = printed, !.entries = rest]
<1>1. take_history(s) = t BY DEF take_history
<1>2. Sound(u) BY SplitSound DEF SameSession
<1>3. DOMAIN u = Fields /\ IsList(q) /\ IdsApart(q) BY <1>2, SoundParts DEF Listed
<1>4. ready \in 0..Len(q) /\ \A i \in 1..ready : q[i].done BY <1>3, ReadyIs
<1>5. /\ t.entries = rest /\ t.printed = printed /\ t.next_id = u.next_id
      /\ t.said = u.said /\ t.printed_prefix = u.printed_prefix
  <2> HIDE DEF rest, printed, u
  <2> QED BY <1>3 DEF Fields
<1>6. CASE u = s
  <2>1. Plain(s) BY SoundPlain
  <2> HIDE DEF ready, t, u
  <2>2. q = s.entries BY <1>6
  <2>3. Spoken(t) BY <1>4, <1>5, <1>6, <2>1, LeaveSpoken
  <2> QED BY <1>1, <2>3
<1>7. CASE u # s
  <2> DEFINE d    == Head(s.entries)
             text == d.block.text
             at   == paragraph_split(text)
             head == SubSeq(text, 1, at)
             tail == Trimmed(SubSeq(text, at + 1, Len(text)))
             consumed == SubSeq(text, 1, Len(text) - Len(tail))
             prefix == With(s.printed_prefix, d.id,
                            Look(s.printed_prefix, d.id, <<>>) \o consumed)
             a == [id |-> s.next_id, of |-> d.id, done |-> TRUE,
                   block |-> [d.block EXCEPT !.text = head]]
             b == [d EXCEPT !.block.text = tail]
             r == <<a, b>> \o Tail(s.entries)
             m == s.next_id + 1
  <2>1. /\ s.entries # <<>> /\ ~d.done /\ d.block.kind = "reply" /\ Splits(text) # {}
        /\ u = [s EXCEPT !.entries = r, !.next_id = m, !.printed_prefix = prefix]
    BY <1>7 DEF split_streaming_paragraphs
  <2>2. DOMAIN s = Fields /\ Listed(s) /\ \A e \in Entries(s) : IsEntry(e, s.next_id)
    BY SoundParts
  <2>3. d \in Entries(s) /\ d = s.entries[1] /\ IsEntry(d, s.next_id)
    <3>1. IsList(s.entries) BY <2>2 DEF Listed
    <3>2. Len(s.entries) \in Nat /\ \A i \in 1..Len(s.entries) : s.entries[i] \in Range(s.entries)
      BY <3>1, ListIs
    <3>3. Len(s.entries) # 0 BY <2>1, <3>1 DEF IsList
    <3>4. 1 \in 1..Len(s.entries) BY <3>2, <3>3
    <3>5. d = s.entries[1] OBVIOUS
    <3> QED BY <2>2, <3>2, <3>4, <3>5 DEF Entries
  <2>4. IsReply(d) BY <2>1 DEF IsReply
  <2>5. text \in Seq(Marks) BY <2>3, <2>4 DEF Spoken, Texted
  <2>6. /\ head \in Seq(Marks) /\ tail \in Seq(Marks) /\ consumed \in Seq(Marks)
        /\ text = consumed \o tail /\ Shown(consumed) = Shown(head)
    <3> HIDE DEF d
    <3> QED BY <2>1, <2>5, SplitText
  <2> HIDE DEF u, consumed, tail, head, d
  <2>7. /\ IsReply(a) /\ a.of = d.id /\ a.id = s.next_id /\ a.done /\ a.block.text = head
    <3> DEFINE block == [d.block EXCEPT !.text = head]
    <3>1. block.kind = "reply" /\ block.text = head BY <2>1, <2>3 DEF IsEntry
    <3> HIDE DEF block
    <3>2. a = [id |-> s.next_id, of |-> d.id, done |-> TRUE, block |-> block] BY DEF block
    <3> HIDE DEF a
    <3> QED BY <3>1, <3>2 DEF IsReply
  <2>8. IsTail(b, d, s.next_id) BY <2>3, RewordedEntry DEF IsTail
  <2>9. b.of = d.of /\ b.block.text = tail /\ ~b.done /\ b.id = d.id BY <2>1, <2>3 DEF IsEntry
  <2> HIDE DEF a, b
  <2>10. \A c \in Entries(s) : c.id # a.id
    <3>1. s.next_id \notin 1..(s.next_id - 1) BY DEF Sound, Numbered
    <3> QED BY <2>2, <2>7, <3>1 DEF IsEntry
  <2>11. /\ IsList(r) /\ IdsApart(r) /\ Len(r) = Len(s.entries) + 1
         /\ Range(r) = (Entries(s) \ {d}) \cup {a, b}
    <3>1. IsList(s.entries) /\ IdsApart(s.entries) BY <2>2 DEF Listed
    <3>2. b.id = s.entries[1].id BY <2>3, <2>9
    <3>3. \A c \in Range(s.entries) : c.id # a.id BY <2>10 DEF Entries
    <3>4. /\ IsList(r) /\ IdsApart(r) /\ Len(r) = Len(s.entries) + 1
          /\ Range(r) = (Range(s.entries) \ {s.entries[1]}) \cup {a, b}
      BY <2>1, <3>1, <3>2, <3>3, SplitList
    <3> QED BY <2>3, <3>4 DEF Entries
  <2>12. r[1] = a /\ r[2] = b /\ Len(r) >= 2
    <3> DEFINE T == Tail(s.entries)
    <3>1. s.entries \in Seq(Entries(s)) BY <2>2 DEF Listed, IsList, Entries
    <3>2. T \in Seq(Entries(s) \cup {a, b}) BY <2>1, <3>1
    <3> HIDE DEF T
    <3>3. LET p == <<a, b>> \o T IN
          /\ p \in Seq(Entries(s) \cup {a, b}) /\ Len(p) = Len(T) + 2 /\ p[1] = a /\ p[2] = b
      BY <3>2, PairList
    <3>4. Len(T) \in Nat BY <3>2
    <3> QED BY <3>3, <3>4 DEF T
  <2> HIDE DEF r, m, prefix
  <2>13. /\ q = r /\ u.next_id = m /\ u.printed_prefix = prefix
         /\ u.said = s.said /\ u.printed = s.printed
    BY <2>1, <2>2 DEF Fields
  <2> DEFINE front == SubSeq(q, 1, 1)
  <2>14. /\ ready = 1 /\ IsList(front) /\ DOMAIN front = 1..1 /\ front[1] = q[1]
         /\ Range(front) = {q[1]} /\ Range(SubSeq(q, 2, Len(q))) = Range(q) \ {q[1]}
    <3>1. q[1].done /\ ~q[2].done /\ Len(q) >= 2 BY <2>7, <2>9, <2>12, <2>13
    <3> HIDE DEF q
    <3> QED BY <1>3, <3>1, OneReady
  <2>15. /\ IsList(front) /\ DOMAIN front = 1..1 /\ front[1] = a /\ Range(front) = {a}
         /\ t.printed = PrintEntries(s.printed, front)
         /\ t.entries = SubSeq(q, 2, Len(q))
    <3>1. 1 + 1 = 2 OBVIOUS
    <3> HIDE DEF q, t, ready
    <3> QED BY <1>5, <2>12, <2>13, <2>14, <3>1
  <2>16. Entries(t) = (Entries(s) \ {d}) \cup {b}
    <3>1. Entries(t) = Range(r) \ {a} BY <2>12, <2>13, <2>14, <2>15 DEF Entries
    <3>2. b # a BY <2>7, <2>9
    <3>3. a \notin Entries(s) BY <2>10
    <3> QED BY <2>11, <3>1, <3>2, <3>3
  <2> HIDE DEF t, q, front
  <2>17. t.next_id = s.next_id + 1 /\ t.said = s.said BY <1>5, <2>13 DEF m
  <2>18. t.printed_prefix = With(s.printed_prefix, d.id,
                                 Look(s.printed_prefix, d.id, <<>>) \o consumed)
    BY <1>5, <2>13 DEF prefix
  <2>19. /\ consumed \in Seq(Marks) /\ a.block.text \in Seq(Marks)
         /\ b.block.text \in Seq(Marks) /\ d.block.text = consumed \o b.block.text
         /\ Shown(consumed) = Shown(a.block.text)
    BY <2>6, <2>7, <2>9
  <2>20. ~d.done /\ IsReply(a) /\ a.of = d.id /\ b.of = d.of BY <2>1, <2>7, <2>9
  <2>21. /\ IsList(front) /\ DOMAIN front = 1..1 /\ front[1] = a /\ Range(front) = {a}
         /\ t.printed = PrintEntries(s.printed, front)
    BY <2>15
  <2> HIDE DEF text
  <2>22. IsSplit(s, t, d, a, b, consumed, front)
    BY <2>4, <2>8, <2>16, <2>17, <2>18, <2>19, <2>20, <2>21 DEF IsSplit
  <2>23. Spoken(t) BY <2>3, <2>22, SplitSpoken
  <2> QED BY <1>1, <2>23
<1> QED BY <1>6, <1>7

(* TranscriptCleared: what is done goes, with all that was said and printed *)
(* of it.                                                                   *)
LEMMA ClearedSpoken ==
  ASSUME NEW s, Plain(s), Spoken(s), NEW gone,
         gone = {s.entries[i].of : i \in {j \in DOMAIN s.entries : s.entries[j].done}},
         NEW t,
         t = [s EXCEPT !.entries = Keeping(s.entries, {e \in Range(s.entries) : ~e.done}),
                       !.plan = "none", !.said = Without(s.said, gone),
                       !.printed = Without(s.printed, gone)]
  PROVE  Spoken(t)
<1> DEFINE K == {e \in Range(s.entries) : ~e.done}
           q == Keeping(s.entries, K)
           x == Without(s.said, gone)
           y == Without(s.printed, gone)
           E == Entries(s)
<1>1. DOMAIN s = Fields /\ IsList(s.entries) /\ IdsApart(s.entries) BY DEF Plain, Listed
<1>2. t = [s EXCEPT !.entries = q, !.plan = "none", !.said = x, !.printed = y] OBVIOUS
<1>3. \A e \in Range(s.entries) : e \in K <=> ~e.done OBVIOUS
<1> HIDE DEF K
<1>4. Range(q) = Range(s.entries) \cap K BY <1>1, KeepList
<1>5. /\ DOMAIN x = DOMAIN s.said \ gone /\ \A id \in DOMAIN x : x[id] = s.said[id]
      /\ DOMAIN y = DOMAIN s.printed \ gone /\ \A id \in DOMAIN y : y[id] = s.printed[id]
  BY DEF Without, Restrict
<1> HIDE DEF q, x, y
<1>6. /\ t.entries = q /\ t.next_id = s.next_id /\ t.said = x /\ t.printed = y
      /\ t.printed_prefix = s.printed_prefix
  BY <1>1, <1>2 DEF Fields
<1>7. Entries(t) \subseteq E /\ \A e \in E : e \in Entries(t) <=> ~e.done
  BY <1>3, <1>4, <1>6 DEF Entries
<1>8. \A e \in E : e.of = e.id /\ (IsReply(e) => e.block.text \in Seq(Marks))
  BY DEF Spoken, Texted
<1>9. \A e \in E : e.done => e.id \in gone
  <2> SUFFICES ASSUME NEW i \in DOMAIN s.entries, s.entries[i].done
               PROVE  s.entries[i].id \in gone
    BY DEF Entries, Range
  <2>1. s.entries[i] \in E BY DEF Entries, Range
  <2> QED BY <1>8, <2>1
<1>10. \A e \in Entries(t) : e.id \notin gone
  <2> SUFFICES ASSUME NEW e \in Entries(t), e.id \in gone PROVE FALSE OBVIOUS
  <2>1. PICK i \in DOMAIN s.entries : s.entries[i].done /\ s.entries[i].of = e.id OBVIOUS
  <2>2. s.entries[i] \in E BY DEF Entries, Range
  <2>3. s.entries[i].id = e.id BY <1>8, <2>1, <2>2
  <2>4. e \in Range(s.entries) /\ ~e.done BY <1>7 DEF Entries
  <2>5. PICK j \in DOMAIN s.entries : s.entries[j] = e BY <2>4 DEF Range
  <2>6. i = j BY <1>1, <2>3, <2>5 DEF IdsApart
  <2> QED BY <2>1, <2>4, <2>5, <2>6
<1> HIDE DEF E
<1>11. ASSUME NEW id, id \notin gone
       PROVE  /\ Has(t, id) = Has(s, id) /\ Pre(t, id) = Pre(s, id)
              /\ id \in DOMAIN t.said <=> id \in DOMAIN s.said
              /\ id \in DOMAIN s.said => t.said[id] = s.said[id]
  BY <1>5, <1>6, <1>11 DEF Has, Pre, Look
<1>12. Texted(t)
  <2>1. IsText(x, s.next_id) /\ IsText(y, s.next_id) BY <1>5 DEF Spoken, Texted, IsText
  <2>2. IsText(s.printed_prefix, s.next_id) BY DEF Spoken, Texted
  <2> QED BY <1>6, <1>7, <1>8, <2>1, <2>2 DEF Texted
<1>13. OpenSays(t)
  <2> SUFFICES ASSUME NEW e \in Entries(t), IsReply(e), ~e.done
               PROVE  /\ e.id \in DOMAIN t.said /\ t.said[e.id] = Pre(t, e.id) \o e.block.text
                      /\ Has(t, e.id) = Shown(Pre(t, e.id))
    BY DEF OpenSays
  <2>1. /\ e.id \in DOMAIN s.said /\ s.said[e.id] = Pre(s, e.id) \o e.block.text
        /\ Has(s, e.id) = Shown(Pre(s, e.id))
    BY <1>7 DEF Spoken, OpenSays, E
  <2> QED BY <1>10, <1>11, <2>1
<1>14. HeldSays(t)
  <2> SUFFICES ASSUME NEW e \in Entries(t), IsReply(e), e.id \in DOMAIN t.said
               PROVE  Has(t, e.id) \o Shown(e.block.text) = Shown(t.said[e.id])
    BY DEF HeldSays
  <2>1. e.id \in DOMAIN s.said BY <1>10, <1>11
  <2>2. Has(s, e.id) \o Shown(e.block.text) = Shown(s.said[e.id])
    BY <1>7, <2>1 DEF Spoken, HeldSays, E
  <2> QED BY <1>10, <1>11, <2>1, <2>2
<1>15. GoneSays(t)
  <2> SUFFICES ASSUME NEW id \in DOMAIN t.said, \A e \in Entries(t) : IsReply(e) => e.id # id
               PROVE  Has(t, id) = Shown(t.said[id])
    BY DEF GoneSays
  <2>1. id \notin gone /\ id \in DOMAIN s.said BY <1>5, <1>6
  <2>2. \A e \in E : IsReply(e) => e.id # id BY <1>7, <1>9, <2>1
  <2>3. Has(s, id) = Shown(s.said[id]) BY <2>1, <2>2 DEF Spoken, GoneSays, E
  <2> QED BY <1>11, <2>1, <2>3
<1> QED BY <1>12, <1>13, <1>14, <1>15 DEF Spoken

(* Nothing has been said of a new session.                                  *)
LEMMA InitSpoken == TurnInit => Spoken(ses)
<1> SUFFICES ASSUME TurnInit PROVE Spoken(ses) OBVIOUS
<1>1. /\ ses.entries = <<>> /\ ses.said = <<>> /\ ses.printed = <<>> /\ ses.printed_prefix = <<>>
  BY DEF TurnInit
<1>2. DOMAIN <<>> = {} /\ Range(<<>>) = {} BY DEF Range
<1>3. Entries(ses) = {} /\ DOMAIN ses.said = {} BY <1>1, <1>2 DEF Entries
<1>4. Texted(ses) BY <1>1, <1>2, <1>3 DEF Texted, IsText
<1> QED BY <1>3, <1>4 DEF Spoken, OpenSays, HeldSays, GoneSays

-----------------------------------------------------------------------------
(* Every step keeps what the texts say. Events that are silent:             *)
LEMMA SilentStep ==
  ASSUME Spoken(ses), Hush(ses, ses')
  PROVE  Spoken(ses')
BY QuietSpoken DEF Hush

(* AssistantReasoningDelta.                                                 *)
LEMMA ReasoningSilent ==
  ASSUME TurnInv, NEW sid, AssistantReasoningDelta(sid)
  PROVE  Hush(ses, ses')
<1> DEFINE at == IF sid \in DOMAIN ses.streams THEN Index(ses, ses.streams[sid])
                                                ELSE Len(ses.entries) + 1
           late == sid \in DOMAIN ses.streams
                     /\ (at = 0 \/ ses.entries[at].block.text # <<>>)
           t == [ses EXCEPT
                  !.entries = InsertAt(@, at, NewEntry(ses, Block("reasoning"), FALSE)),
                  !.next_id = @ + 1,
                  !.reasoning = With(@, sid, ses.next_id)]
<1>1. Sound(ses) /\ Plain(ses) BY SoundPlain DEF TurnInv, Sane
<1>2. ses' = IF sid \in DOMAIN ses.reasoning \/ late THEN ses ELSE became_busy(t)
  BY DEF AssistantReasoningDelta, Event
<1>3. CASE sid \in DOMAIN ses.reasoning \/ late
  <2>1. ses' = ses BY <1>2, <1>3
  <2> QED BY <1>1, <2>1, HushSelf
<1>4. CASE ~(sid \in DOMAIN ses.reasoning \/ late)
  <2>1. Listed(ses) BY <1>1, SoundParts
  <2>2. Len(ses.entries) \in Nat BY <2>1, ListIs DEF Listed
  <2>3. at \in 1..(Len(ses.entries) + 1)
    <3>1. CASE sid \in DOMAIN ses.streams
      <4>1. at # 0 /\ at = Index(ses, ses.streams[sid]) BY <1>4, <3>1
      <4>2. at \in 0..Len(ses.entries) BY <2>1, <4>1, IndexIs DEF Listed
      <4> QED BY <2>2, <4>1, <4>2
    <3>2. CASE sid \notin DOMAIN ses.streams BY <2>2, <3>2
    <3> QED BY <3>1, <3>2
  <2> HIDE DEF at
  <2>4. Hush(ses, t) BY <1>1, <2>3, ReasoningHush
  <2>5. ses' = became_busy(t) BY <1>2, <1>4
  <2> HIDE DEF t
  <2>6. Hush(t, became_busy(t)) BY <2>4, BusyHush DEF Hush
  <2> QED BY <2>4, <2>5, <2>6, HushTwice
<1> QED BY <1>3, <1>4

(* TodoListUpdate and BlockPrinted.                                         *)
LEMMA PrintedSilent ==
  ASSUME TurnInv
  PROVE  /\ BlockPrinted => Hush(ses, ses')
         /\ \A plan : TodoListUpdate(plan) => Hush(ses, ses')
<1>1. Plain(ses) /\ DOMAIN ses = Fields BY SoundPlain DEF TurnInv, Sane, Plain, Listed
<1>2. ASSUME BlockPrinted PROVE Hush(ses, ses')
  <2>1. PICK kind \in {"notice", "table"} : ses' = push(ses, Block(kind), TRUE)
    BY <1>2 DEF BlockPrinted, Event
  <2>2. IsBlock(Block(kind)) /\ Block(kind).kind # "reply" BY DEF IsBlock, Block
  <2> QED BY <1>1, <2>1, <2>2, PushHush
<1>3. ASSUME NEW plan, TodoListUpdate(plan) PROVE Hush(ses, ses')
  <2> DEFINE seen == ses.plan_seen \/ plan # "none"
  <2>1. ses' = [ses EXCEPT !.plan = plan, !.plan_seen = seen] BY <1>3 DEF TodoListUpdate, Event
  <2> HIDE DEF seen
  <2>2. DOMAIN ses' = Fields /\ ses'.entries = ses.entries /\ ses'.next_id = ses.next_id
        /\ SameText(ses, ses')
    BY <1>1, <2>1 DEF Fields, SameText
  <2> QED BY <1>1, <2>2, FieldsHush
<1> QED BY <1>2, <1>3

(* StatusUpdate.                                                            *)
LEMMA StatusSilent ==
  ASSUME TurnInv, NEW segment, StatusUpdate(segment)
  PROVE  Hush(ses, ses')
<1> DEFINE phase == IF segment = "other" THEN ses.phase ELSE segment
           s == [ses EXCEPT !.phase = phase]
           b == [s EXCEPT !.phase_busy = TRUE]
           i == [s EXCEPT !.phase_busy = FALSE]
<1>1. Sound(ses) /\ Plain(ses) /\ DOMAIN ses = Fields
  BY SoundPlain DEF TurnInv, Sane, Plain, Listed
<1>2. ses' = IF s.phase = "busy" THEN became_busy(b)
             ELSE IF s.phase_busy THEN settle(i, FALSE) ELSE s
  BY DEF StatusUpdate, Event
<1> HIDE DEF phase
<1>3. /\ DOMAIN s = Fields /\ s.entries = ses.entries /\ s.next_id = ses.next_id
      /\ SameText(ses, s) /\ SameMaps(ses, s)
  BY <1>1 DEF Fields, SameText, SameMaps
<1> HIDE DEF s
<1>4. Hush(ses, s) /\ Sound(s) BY <1>1, <1>3, FieldsHush, SameSound
<1>5. /\ DOMAIN b = Fields /\ b.entries = s.entries /\ b.next_id = s.next_id /\ SameText(s, b)
      /\ DOMAIN i = Fields /\ i.entries = s.entries /\ i.next_id = s.next_id /\ SameText(s, i)
      /\ SameMaps(s, i)
  BY <1>3 DEF Fields, SameText, SameMaps
<1> HIDE DEF b, i
<1>6. Plain(s) BY <1>4 DEF Hush
<1>7. Hush(s, b) /\ Hush(s, i) BY <1>5, <1>6, FieldsHush
<1>8. Sound(i) BY <1>3, <1>4, <1>5, SameSound
<1>9. Hush(b, became_busy(b)) BY <1>7, BusyHush DEF Hush
<1>10. Hush(i, settle(i, FALSE)) BY <1>8, SettleHush
<1>11. Hush(s, became_busy(b)) /\ Hush(s, settle(i, FALSE)) BY <1>7, <1>9, <1>10, HushTwice
<1>12. Hush(ses, became_busy(b)) /\ Hush(ses, settle(i, FALSE)) BY <1>4, <1>11, HushTwice
<1> QED BY <1>2, <1>4, <1>12

(* Events of tools, and the end of a turn.                                  *)
LEMMA ToolSilent ==
  ASSUME TurnInv, ToolStep
  PROVE  Hush(ses, ses')
<1>1. Sound(ses) /\ Plain(ses) BY SoundPlain DEF TurnInv, Sane
<1>2. ASSUME NEW tid, NEW kind \in ToolKinds, ToolExecutionStarted(tid, kind)
      PROVE  Hush(ses, ses')
  BY <1>1, <1>2, ToolStartedHush DEF ToolExecutionStarted, Event
<1>3. ASSUME NEW tid, NEW status, ToolExecutionFinished(tid, status)
      PROVE  Hush(ses, ses')
  BY <1>1, <1>3, ToolFinishedHush, HushSelf DEF ToolExecutionFinished, Event
<1>4. AgentStarted => Hush(ses, ses') BY <1>1, BeadHush DEF AgentStarted, Event
<1> QED BY <1>2, <1>3, <1>4, PrintedSilent DEF ToolStep

(* The events that speak, and the loop that prints.                         *)
LEMMA ReplySpoken ==
  ASSUME TurnInv, Spoken(ses), ReplyStep
  PROVE  Spoken(ses')
<1>1. Sound(ses) /\ Trailed(ses) /\ Plain(ses) BY SoundPlain DEF TurnInv, Sane
<1>2. ASSUME NEW sid \in StreamIds, AssistantStreamStarted(sid) PROVE Spoken(ses')
  <2>1. ses' = became_busy(OpenReply(ses, sid)) BY <1>2 DEF AssistantStreamStarted, Event
  <2> DEFINE t == OpenReply(ses, sid)
  <2>2. Plain(t) /\ Spoken(t) BY <1>1, OpenSpoken
  <2> HIDE DEF t
  <2>3. Spoken(became_busy(t)) BY <2>2, BusyHush, QuietSpoken DEF Hush
  <2> QED BY <2>1, <2>3 DEF t
<1>3. ASSUME NEW sid \in StreamIds, NEW token \in Pieces, AssistantTokenDelta(sid, token)
      PROVE  Spoken(ses')
  <2>1. ses' = Told(ses, sid, token) BY <1>3 DEF AssistantTokenDelta, Event, Told
  <2>2. token \in Seq(Marks) BY TurnAssumption DEF Marks
  <2> QED BY <1>1, <2>1, <2>2, ToldSpoken
<1>4. ASSUME NEW sid \in StreamIds, AssistantReasoningDelta(sid) PROVE Spoken(ses')
  BY <1>4, ReasoningSilent, SilentStep
<1>5. ASSUME NEW sid \in StreamIds, AssistantMessageCompleted(sid) PROVE Spoken(ses')
  <2>1. PICK texts \in {{}} \cup {{text} : text \in Finals(ses, sid)} :
          ses' = Complete(ses, sid, texts)
    BY <1>5 DEF AssistantMessageCompleted, Event
  <2>2. Finals(ses, sid) \subseteq Seq(Marks)
    <3> DEFINE said == IF sid \in DOMAIN ses.streams THEN ses.said[ses.streams[sid]] ELSE <<>>
    <3>1. said \in Seq(Marks)
      <4>1. CASE sid \in DOMAIN ses.streams
        <5>1. PICK d \in Entries(ses) : d.id = ses.streams[sid] /\ ~d.done /\ IsReply(d)
          BY <1>1, <4>1, StreamReply
        <5>2. ses.streams[sid] \in DOMAIN ses.said BY <5>1 DEF Spoken, OpenSays
        <5> QED BY <4>1, <5>2 DEF Spoken, Texted, IsText
      <4>2. CASE sid \notin DOMAIN ses.streams BY <4>2, EmptySeq
      <4> QED BY <4>1, <4>2
    <3>2. Finals(ses, sid) = {said, said \o <<"b", "w">>, <<"f", "w", "f">>} BY DEF Finals
    <3> HIDE DEF said
    <3>3. <<"b", "w">> \in Seq(Marks) /\ <<"f", "w", "f">> \in Seq(Marks) BY DEF Marks
    <3>4. said \o <<"b", "w">> \in Seq(Marks) BY <3>1, <3>3
    <3> QED BY <3>1, <3>2, <3>3, <3>4
  <2>3. texts \subseteq Seq(Marks) BY <2>2
  <2> QED BY <1>1, <2>1, <2>3, CompleteSpoken
<1> QED BY <1>2, <1>3, <1>4, <1>5 DEF ReplyStep

(* Every step keeps what the texts say of each other.                       *)
LEMMA SpokenStep == TurnInv /\ Spoken(ses) /\ [TurnNext]_turnVars => Spoken(ses')
<1> SUFFICES ASSUME TurnInv, Spoken(ses), [TurnNext]_turnVars PROVE Spoken(ses') OBVIOUS
<1>1. Sound(ses) /\ Plain(ses) BY SoundPlain DEF TurnInv, Sane
<1>2. CASE UNCHANGED turnVars BY <1>2 DEF turnVars
<1>3. CASE ReplyStep BY <1>3, ReplySpoken
<1>4. CASE ToolStep BY <1>4, ToolSilent, SilentStep
<1>5. CASE OtherStep
  <2>1. BlockPrinted => Spoken(ses') BY PrintedSilent, SilentStep
  <2>2. ASSUME TranscriptCleared PROVE Spoken(ses')
    <3> DEFINE gone == {ses.entries[i].of : i \in {j \in DOMAIN ses.entries : ses.entries[j].done}}
    <3>1. ses' = [ses EXCEPT
            !.entries = Keeping(ses.entries, {e \in Range(ses.entries) : ~e.done}),
            !.plan = "none", !.said = Without(ses.said, gone),
            !.printed = Without(ses.printed, gone)]
      BY <2>2 DEF TranscriptCleared, Event
    <3> QED BY <1>1, <3>1, ClearedSpoken
  <2>3. ASSUME NEW segment, StatusUpdate(segment) PROVE Spoken(ses')
    BY <2>3, StatusSilent, SilentStep
  <2>4. Interrupt \/ CancelRequested => Spoken(ses')
    <3>1. Interrupt \/ CancelRequested => ses' = settle(ses, TRUE)
      BY DEF Interrupt, CancelRequested, Event
    <3>2. Hush(ses, settle(ses, TRUE)) BY <1>1, SettleHush
    <3> QED BY <3>1, <3>2, SilentStep
  <2> QED BY <1>5, <2>1, <2>2, <2>3, <2>4 DEF OtherStep
<1>6. CASE Draw
  <2>1. ses' = take_history(ses) BY <1>6 DEF Draw
  <2> QED BY <1>1, <2>1, TakeSpoken
<1> QED BY <1>2, <1>3, <1>4, <1>5, <1>6 DEF TurnNext

(* What the texts say of each other is that each word is shown once.        *)
LEMMA SpokenOnce == TurnInv /\ Spoken(ses) => TextPrintedOnce
<1> SUFFICES ASSUME TurnInv, Spoken(ses), NEW id \in DOMAIN ses.said
             PROVE  Look(ses.printed, id, <<>>) \o ShownOf(ses.entries, id) = Shown(ses.said[id])
  BY DEF TextPrintedOnce
<1> DEFINE q == ses.entries
<1>1. IsList(q) /\ IdsApart(q) /\ Entries(ses) = Range(q)
  BY SoundParts DEF TurnInv, Sane, Listed, Entries
<1>2. \A e \in Range(q) : e.of = e.id /\ (IsReply(e) => e.block.text \in Seq(Marks))
  BY <1>1 DEF Spoken, Texted
<1>3. Has(ses, id) = Look(ses.printed, id, <<>>) /\ Has(ses, id) \in Seq(Marks)
  BY LookText DEF Has, Spoken, Texted
<1> HIDE DEF q
<1>4. CASE \E e \in Range(q) : IsReply(e) /\ e.id = id
  <2>1. PICK e \in Range(q) : IsReply(e) /\ e.id = id BY <1>4
  <2>2. Says(e, id) /\ e.block.text \in Seq(Marks) BY <1>2, <2>1 DEF Says
  <2>3. SaidOnce(q, id) BY <1>1, <1>2, ApartSaid
  <2>4. ShownOf(q, id) = Shown(e.block.text) BY <1>1, <2>2, <2>3, ShownOne
  <2>5. Has(ses, id) \o Shown(e.block.text) = Shown(ses.said[id])
    BY <1>1, <2>1 DEF Spoken, HeldSays
  <2> QED BY <1>3, <2>4, <2>5 DEF q
<1>5. CASE \A e \in Range(q) : IsReply(e) => e.id # id
  <2>1. \A e \in Range(q) : ~Says(e, id) BY <1>2, <1>5 DEF Says
  <2>2. ShownOf(q, id) = <<>> BY <1>1, <2>1, ShownNone
  <2>3. Has(ses, id) = Shown(ses.said[id]) BY <1>1, <1>5 DEF Spoken, GoneSays
  <2>4. Has(ses, id) \o <<>> = Has(ses, id) BY <1>3, ConcatEmptySeq
  <2> QED BY <1>3, <2>2, <2>3, <2>4 DEF q
<1> QED BY <1>4, <1>5

(* Each word of a reply is shown once and in order: what history has of it, *)
(* followed by what the live area still holds, is what the host said, for   *)
(* any tokens, any splitting into paragraphs and any final text             *)
(* (split_streaming_paragraphs, take_history and the events of replies in   *)
(* session.rs).                                                             *)
THEOREM TextOnce == TurnSpec => []TextPrintedOnce
<1>1. TurnInit => TurnInv /\ Spoken(ses) BY TurnInitInv, InitSpoken
<1>2. (TurnInv /\ Spoken(ses)) /\ [TurnNext]_turnVars => (TurnInv /\ Spoken(ses))'
  BY TurnStepInv, SpokenStep
<1>3. TurnInv /\ Spoken(ses) => TextPrintedOnce BY SpokenOnce
<1> QED BY <1>1, <1>2, <1>3, PTL DEF TurnSpec
=============================================================================
