---------------------------- MODULE SessionProofs ----------------------------
(***************************************************************************)
(* Parts of the session, for every value of their constants.               *)
(*                                                                         *)
(* Clock: while the loop sleeps the screen shows the time as it is, and it *)
(* wakes only for a frame that differs. The invariant (ClockInv) says what *)
(* the loop went to sleep with: the shown frame and the deadline are those *)
(* of the last draw, so nothing the frame shows has ended since.           *)
(*                                                                         *)
(* Composer: a prompt is kept as it was written. The invariant             *)
(* (ComposerInv) is that every buffer to go back to holds known chips, the *)
(* newest mention query is the one for the buffer, and the echoes awaited  *)
(* end in what the host has yet to echo.                                   *)
(*                                                                         *)
(* Transcript: what a search jumped to is on the page until the page       *)
(* moves, and every match is a line that holds the query. The invariant    *)
(* (TranscriptInv) is that the lines are the recording laid out at the     *)
(* window's width, that a search's matches are of the lines it was run on, *)
(* and that the scroll starts on a page that is there.                     *)
(*                                                                         *)
(* Activity: the host knows the view on the screen. The invariant          *)
(* (ActivityInv) is that the list holds one item per id, that what was     *)
(* said to be active is listed and active, and that the one view open is   *)
(* of an item that is listed and is the one the host was told of.          *)
(***************************************************************************)
EXTENDS Clock, Composer, Transcript, Activity, TLAPS, SequenceTheorems,
        FiniteSetTheorems, WellFoundedInduction

-----------------------------------------------------------------------------
(* Sets of numbers.                                                        *)

(* A least and a greatest element: what CHOOSE and Min find is there.        *)
LEMMA MinOf ==
  ASSUME NEW S \in SUBSET Nat, S # {}
  PROVE  \E m \in S : \A x \in S : m <= x
<1> DEFINE R == OpToRel(<, Nat)
<1>1. IsWellFoundedOn(R, Nat) BY NatLessThanWellFounded
<1>2. PICK m \in S : \A y \in S : ~(<<y, m>> \in R) BY <1>1, WFMin, Zenon
<1>3. \A y \in S : m <= y
  <2> SUFFICES ASSUME NEW y \in S PROVE m <= y OBVIOUS
  <2>1. ~(<<y, m>> \in R) BY <1>2
  <2>2. ~(y < m) BY <2>1, Zenon DEF OpToRel
  <2> QED BY <2>2
<1> QED BY <1>3

(* The same from above, when the set is bounded.                            *)
LEMMA MaxOf ==
  ASSUME NEW n \in Nat, NEW S \in SUBSET (0..n), S # {}
  PROVE  \E m \in S : \A x \in S : x <= m
<1> DEFINE T == {n - x : x \in S}
<1>0. \A x \in S : n - x \in Nat OBVIOUS
<1>1. T \in SUBSET Nat /\ T # {} BY <1>0
<1>2. PICK t \in T : \A y \in T : t <= y BY <1>1, MinOf
<1>3. PICK m \in S : t = n - m BY <1>2
<1>4. \A x \in S : x <= m BY <1>2, <1>3
<1> QED BY <1>4

(* What stands below i in S, by the number f gives each.                    *)
Below(S, f, i) == {j \in S : f[j] < f[i]}

(* Below, member by member.                                                 *)
LEMMA BelowIs ==
  ASSUME NEW S, IsFiniteSet(S), NEW f
  PROVE  \A i \in S : /\ IsFiniteSet(Below(S, f, i))
                      /\ \A j : j \in Below(S, f, i) <=> j \in S /\ f[j] < f[i]
BY FS_Subset DEF Below

(* Of a finite set with a number of its own for each, an element stands      *)
(* above any smaller count of the others ...                                *)
LEMMA RankedBy ==
  ASSUME NEW S, IsFiniteSet(S), NEW f \in [S -> Nat], \A i, j \in S : f[i] = f[j] => i = j,
         NEW r \in Nat, r < Cardinality(S)
  PROVE  \E i \in S : Cardinality(Below(S, f, i)) = r
<1> DEFINE Bad == {m \in Nat : m < Cardinality(S) /\ ~\E i \in S : Cardinality(Below(S, f, i)) = m}
<1>0. Cardinality(S) \in Nat BY FS_CardinalityType
<1> SUFFICES ASSUME Bad # {} PROVE FALSE OBVIOUS
<1>1. PICK m \in Bad : \A x \in Bad : m <= x BY MinOf
<1>2. m \in Nat /\ m < Cardinality(S) /\ \A i \in S : Cardinality(Below(S, f, i)) # m BY <1>1
<1>3. \A i \in S : f[i] \in Nat OBVIOUS
<1>4. \A T \in SUBSET S : T # {} => \E i \in T : \A j \in T : f[i] <= f[j]
  <2> TAKE T \in SUBSET S
  <2> HAVE T # {}
  <2> DEFINE V == {f[j] : j \in T}
  <2>1. V \in SUBSET Nat /\ V # {} BY <1>3
  <2>2. PICK v \in V : \A w \in V : v <= w
    <3> HIDE DEF V
    <3> QED BY <2>1, MinOf
  <2> QED BY <2>2
<1>5. m # 0
  <2> SUFFICES ASSUME m = 0 PROVE FALSE OBVIOUS
  <2>1. S # {} BY <1>0, <1>2, FS_EmptySet
  <2>2. PICK i \in S : \A j \in S : f[i] <= f[j] BY <1>4, <2>1
  <2>3. \A j \in S : ~(f[j] < f[i]) BY <1>3, <2>2
  <2>4. Below(S, f, i) = {} BY <2>3 DEF Below
  <2>5. Cardinality(Below(S, f, i)) = 0 BY <2>4, FS_EmptySet
  <2> QED BY <1>2, <2>5
<1>6. m - 1 \in Nat /\ m - 1 < Cardinality(S) /\ m - 1 \notin Bad BY <1>0, <1>1, <1>5
<1>7. PICK i \in S : Cardinality(Below(S, f, i)) = m - 1 BY <1>6
<1>8. f[i] \in Nat BY <1>3
<1>9. i \notin Below(S, f, i) /\ IsFiniteSet(Below(S, f, i)) BY <1>8, BelowIs
<1>10. Cardinality(Below(S, f, i) \cup {i}) = m
  <2>1. Cardinality(Below(S, f, i) \cup {i}) = Cardinality(Below(S, f, i)) + 1
    BY <1>9, FS_AddElement
  <2> QED BY <1>2, <1>7, <2>1
<1> DEFINE Over == {j \in S : f[i] < f[j]}
<1>11. Over # {}
  <2> SUFFICES ASSUME Over = {} PROVE FALSE OBVIOUS
  <2>1. \A j \in S : ~(f[i] < f[j]) OBVIOUS
  <2>2. \A j \in S : f[j] < f[i] \/ j = i BY <1>3, <2>1
  <2>3. S = Below(S, f, i) \cup {i} BY <2>2, BelowIs
  <2> QED BY <1>0, <1>2, <1>10, <2>3
<1>12. PICK k \in Over : \A j \in Over : f[k] <= f[j]
  <2>1. Over \in SUBSET S OBVIOUS
  <2> HIDE DEF Over
  <2> QED BY <1>4, <1>11, <2>1
<1>13. k \in S /\ f[i] < f[k] /\ \A j \in S : f[i] < f[j] => f[k] <= f[j] BY <1>12
<1> HIDE DEF Over
<1>14. \A j \in S : f[j] < f[k] <=> (f[j] < f[i] \/ j = i)
  <2> TAKE j \in S
  <2>1. f[j] \in Nat /\ f[k] \in Nat BY <1>3, <1>13
  <2>2. f[i] < f[j] => f[k] <= f[j] BY <1>13
  <2>3. f[i] = f[j] => j = i OBVIOUS
  <2> QED BY <1>8, <1>13, <2>1, <2>2, <2>3
<1>15. Below(S, f, k) = Below(S, f, i) \cup {i} BY <1>13, <1>14, BelowIs
<1> QED BY <1>2, <1>10, <1>13, <1>15

(* ... and no two of them stand above the same count.                       *)
LEMMA RankedOnce ==
  ASSUME NEW S, IsFiniteSet(S), NEW f \in [S -> Nat], NEW i \in S, NEW j \in S, f[i] < f[j]
  PROVE  Cardinality(Below(S, f, i)) < Cardinality(Below(S, f, j))
<1>1. IsFiniteSet(Below(S, f, i)) /\ IsFiniteSet(Below(S, f, j)) BY BelowIs
<1>2. Cardinality(Below(S, f, i)) \in Nat /\ Cardinality(Below(S, f, j)) \in Nat
  BY <1>1, FS_CardinalityType
<1>3. \A k \in S : f[k] \in Nat OBVIOUS
<1>4. i \notin Below(S, f, i) BY <1>3 DEF Below
<1>5. Below(S, f, i) \cup {i} \subseteq Below(S, f, j) BY <1>3 DEF Below
<1>6. Cardinality(Below(S, f, i) \cup {i}) = Cardinality(Below(S, f, i)) + 1
  BY <1>1, <1>4, FS_AddElement
<1>7. Cardinality(Below(S, f, i) \cup {i}) <= Cardinality(Below(S, f, j))
  BY <1>1, <1>5, FS_Subset
<1> QED BY <1>2, <1>6, <1>7

(* A finite set of numbers has an element with any smaller count below it.  *)
LEMMA Ranked ==
  ASSUME NEW S \in SUBSET Nat, IsFiniteSet(S), NEW r \in Nat, r < Cardinality(S)
  PROVE  \E i \in S : Cardinality({j \in S : j < i}) = r
<1> DEFINE f == [i \in S |-> i]
<1>1. f \in [S -> Nat] /\ \A i, j \in S : f[i] = f[j] => i = j OBVIOUS
<1>2. \A i \in S : {j \in S : j < i} = Below(S, f, i) BY DEF Below
<1> HIDE DEF f
<1>3. \E i \in S : Cardinality(Below(S, f, i)) = r BY <1>1, RankedBy
<1> QED BY <1>2, <1>3

-----------------------------------------------------------------------------
(* The clock.                                                              *)

(* The session's times: each is unset or one time not too far ahead.        *)
TimedType ==
  [focused : BOOLEAN, phase_busy : BOOLEAN, open : BOOLEAN, busy_since : SUBSET Nat,
   tasks : BOOLEAN, prompt : BOOLEAN, browser : BOOLEAN, active : BOOLEAN,
   foot : SUBSET Nat, ctrl_c_at : SUBSET Nat, status_until : SUBSET Nat,
   latest : SUBSET Nat, running : SUBSET Nat, glimpse : SUBSET Nat]

OneBy(set, t) == set = {} \/ \E at \in 0..t : set = {at}

TimesOK(s, t) ==
  /\ OneBy(s.busy_since, t) /\ OneBy(s.ctrl_c_at, t)
  /\ OneBy(s.foot, t + ToastFor) /\ OneBy(s.status_until, t + ShowFor)
  /\ OneBy(s.latest, t) /\ OneBy(s.running, t) /\ OneBy(s.glimpse, t)

(* A session at time t: well typed, and one that is busy knows since when.  *)
SessionOK(s, t) ==
  s \in TimedType /\ TimesOK(s, t) /\ (is_busyNow(s) => s.busy_since # {})

(* The clock's constants are numbers, and a beat is not empty.              *)
LEMMA ConstantsAreNat ==
  /\ Gap \in Nat \ {0} /\ Frame \in Nat \ {0} /\ Second \in Nat \ {0} /\ Window \in Nat \ {0}
  /\ ToastFor \in Nat \ {0} /\ ShowFor \in Nat \ {0} /\ MaxTime \in Nat \ {0}
  /\ Gap <= Frame /\ Frame <= Second /\ Second <= ShowFor + ToastFor
  /\ MaxClockInputs \in Nat
BY ClockAssumption

-----------------------------------------------------------------------------
(* Division.                                                               *)

(* Division, by its quotient: the provers' own fact ...                     *)
LEMMA Quotient ==
  ASSUME NEW n \in Nat, NEW e \in Nat \ {0}
  PROVE  n \div e \in Nat /\ (n \div e) * e <= n /\ n < (n \div e + 1) * e
OBVIOUS

(* ... and as the proofs use it.                                            *)
LEMMA QuotientIs ==
  ASSUME NEW n \in Nat, NEW e \in Nat \ {0}, NEW q \in Nat, q * e <= n, n < (q + 1) * e
  PROVE  n \div e = q
OBVIOUS

(* Between a time and its next beat no whole period ends, and one does at   *)
(* the beat.                                                                *)
LEMMA BeatIs ==
  ASSUME NEW since \in Nat, NEW l \in Nat, since <= l, NEW e \in Nat \ {0}
  PROVE  /\ NextBeat(since, l, e) \in Nat
         /\ l < NextBeat(since, l, e) /\ NextBeat(since, l, e) <= l + e
         /\ \A t \in Nat : l <= t /\ t < NextBeat(since, l, e) =>
              Passed(t, since) \div e = Passed(l, since) \div e
         /\ Passed(NextBeat(since, l, e), since) \div e = Passed(l, since) \div e + 1
<1> DEFINE n == l - since
           q == n \div e
<1>1. n \in Nat /\ Passed(l, since) = n BY DEF Passed
<1>2. q \in Nat /\ q * e <= n /\ n < (q + 1) * e BY <1>1, Quotient
<1>3. NextBeat(since, l, e) = since + (q + 1) * e BY <1>1 DEF NextBeat
<1> HIDE DEF q
<1>4. (q + 1) * e = q * e + e BY <1>2
<1>5. q * e \in Nat /\ (q + 1) * e \in Nat BY <1>2
<1>6. /\ NextBeat(since, l, e) \in Nat
      /\ l < NextBeat(since, l, e) /\ NextBeat(since, l, e) <= l + e
  BY <1>2, <1>3, <1>4, <1>5
<1>7. ASSUME NEW t \in Nat, l <= t, t < NextBeat(since, l, e)
      PROVE  Passed(t, since) \div e = q
  <2>1. t - since \in Nat /\ Passed(t, since) = t - since BY <1>7 DEF Passed
  <2>2. q * e <= t - since /\ t - since < (q + 1) * e BY <1>2, <1>3, <1>5, <1>7
  <2> QED BY <1>2, <2>1, <2>2, QuotientIs
<1>8. Passed(NextBeat(since, l, e), since) \div e = q + 1
  <2>1. Passed(NextBeat(since, l, e), since) = (q + 1) * e BY <1>3, <1>5, <1>4, <1>2 DEF Passed
  <2>2. q + 1 \in Nat /\ (q + 1 + 1) * e = (q + 1) * e + e BY <1>2
  <2> QED BY <2>1, <2>2, <1>5, QuotientIs
<1> QED BY <1>1, <1>6, <1>7, <1>8 DEF q

-----------------------------------------------------------------------------
(* When a session wants to wake.                                           *)

(* Min of a set of times is in it and below the others.                     *)
LEMMA MinIs ==
  ASSUME NEW S \in SUBSET Nat, S # {}
  PROVE  Min(S) \in S /\ \A x \in S : Min(S) <= x
BY MinOf DEF Min

(* Of one time, it is that time.                                            *)
LEMMA MinOne == ASSUME NEW n \in Nat PROVE Min({n}) = n
BY MinIs

(* next_wakeup by the five reasons to wake.                                 *)
Since(s) == IF s.busy_since = {} THEN 0 ELSE Min(s.busy_since)
Every(s) == IF s.focused THEN Frame ELSE Second
Beats(s, l) == IF Animates(s) THEN {NextBeat(Since(s), l, Every(s))} ELSE {}
Ages(s, l)  == IF s.browser /\ s.active THEN {NextBeat(0, l, Second)} ELSE {}
Ends(s, l)  == {u \in s.status_until : u > l /\ ~is_busyNow(s)}
Toasts(s, l) == {u \in s.foot : u > l}
Hints(s, l) == {u \in {at + Window : at \in s.ctrl_c_at} : u > l}
Wants(s, l) == Beats(s, l) \cup Ages(s, l) \cup Ends(s, l) \cup Toasts(s, l) \cup Hints(s, l)

(* Wakeup, by the sets above.                                               *)
LEMMA WakeupIs ==
  ASSUME NEW s, NEW l
  PROVE  next_wakeup(s, l) = IF Wants(s, l) = {} THEN {} ELSE {Min(Wants(s, l))}
BY DEF next_wakeup, Wants, Beats, Ages, Ends, Toasts, Hints, Since, Every

(* A session's turn began by now, if there is one.                          *)
LEMMA SinceIs ==
  ASSUME NEW s, NEW l \in Nat, SessionOK(s, l)
  PROVE  /\ Since(s) \in 0..l /\ Every(s) \in Nat \ {0}
         /\ s.busy_since # {} => s.busy_since = {Since(s)}
<1>1. CASE s.busy_since = {} BY <1>1, ConstantsAreNat DEF Since, Every
<1>2. CASE s.busy_since # {}
  <2>1. PICK at \in 0..l : s.busy_since = {at} BY <1>2 DEF SessionOK, TimesOK, OneBy
  <2> QED BY <2>1, MinOne, ConstantsAreNat DEF Since, Every
<1> QED BY <1>1, <1>2

(* Everything a session waits for lies ahead.                               *)
LEMMA WantsAreLater ==
  ASSUME NEW s, NEW l \in Nat, SessionOK(s, l)
  PROVE  Wants(s, l) \subseteq Nat /\ \A w \in Wants(s, l) : l < w
<1>1. \A w \in Beats(s, l) : w \in Nat /\ l < w BY SinceIs, BeatIs DEF Beats
<1>2. \A w \in Ages(s, l) : w \in Nat /\ l < w BY BeatIs, ConstantsAreNat DEF Ages
<1>3. \A w \in Ends(s, l) : w \in Nat /\ l < w BY DEF Ends, SessionOK, TimedType
<1>4. \A w \in Toasts(s, l) : w \in Nat /\ l < w BY DEF Toasts, SessionOK, TimedType
<1>5. \A w \in Hints(s, l) : w \in Nat /\ l < w
  BY ConstantsAreNat DEF Hints, SessionOK, TimedType
<1> QED BY <1>1, <1>2, <1>3, <1>4, <1>5 DEF Wants

(* So does what it wakes for.                                               *)
LEMMA WakeupIsLater ==
  ASSUME NEW s, NEW l \in Nat, SessionOK(s, l)
  PROVE  \/ next_wakeup(s, l) = {} /\ Wants(s, l) = {}
         \/ \E d \in Wants(s, l) : /\ next_wakeup(s, l) = {d}
                                  /\ d \in Nat /\ l < d /\ \A w \in Wants(s, l) : d <= w
BY WantsAreLater, WakeupIs, MinIs

-----------------------------------------------------------------------------
(* Until then nothing on the screen changes but the seconds.               *)

(* A frame depends on the turn through its beat alone.                      *)
LEMMA FrameOfTurn ==
  ASSUME NEW s, NEW l \in Nat, SessionOK(s, l), NEW t \in Nat, l <= t
  PROVE  /\ s.focused => frame_at(s, t) = Passed(t, Since(s)) \div Frame
         /\ ~s.focused => frame_at(s, t) = 0
<1>1. t \div Frame = Passed(t, 0) \div Frame BY DEF Passed
<1> QED BY <1>1, SinceIs DEF frame_at, Since

(* Its seconds apart, which are at most a frame old.                        *)
LEMMA SpinnerStays ==
  ASSUME NEW s, NEW l \in Nat, SessionOK(s, l), NEW t \in Nat, l <= t,
         \A w \in Wants(s, l) : t < w, ~(is_busyNow(s) /\ s.prompt)
  PROVE  /\ spinner(s, l)[1] = spinner(s, t)[1] /\ spinner(s, l)[2] = spinner(s, t)[2]
         /\ is_busyNow(s) => t - l <= Every(s) - 1
         /\ ~is_busyNow(s) => spinner(s, l)[3] = spinner(s, t)[3]
<1>1. CASE Animates(s)
  <2> DEFINE b == NextBeat(Since(s), l, Every(s))
  <2>1. b \in Wants(s, l) BY <1>1 DEF Wants, Beats
  <2>2. t < b BY <2>1
  <2>3. Since(s) \in 0..l /\ Every(s) \in Nat \ {0} BY SinceIs
  <2>4. /\ b \in Nat /\ b <= l + Every(s)
        /\ Passed(t, Since(s)) \div Every(s) = Passed(l, Since(s)) \div Every(s)
    <3>1. Since(s) \in Nat /\ Since(s) <= l BY <2>3
    <3>2. /\ b \in Nat /\ b <= l + Every(s)
          /\ \A u \in Nat : l <= u /\ u < b =>
               Passed(u, Since(s)) \div Every(s) = Passed(l, Since(s)) \div Every(s)
      BY <2>3, <3>1, BeatIs, Zenon
    <3> QED BY <2>2, <3>2, Zenon
  <2>5. frame_at(s, t) = frame_at(s, l)
    BY <2>4, FrameOfTurn DEF Every
  <2>6. t - l <= Every(s) - 1 BY <2>2, <2>3, <2>4
  <2> QED BY <2>5, <2>6 DEF spinner
<1>2. CASE ~Animates(s)
  <2>1. ~is_busyNow(s) /\ ~s.tasks BY <1>2 DEF Animates
  <2> QED BY <2>1 DEF spinner
<1> QED BY <1>1, <1>2

(* The hint of Ctrl+C and the toast.                                        *)
LEMMA HintStays ==
  ASSUME NEW s, NEW l \in Nat, SessionOK(s, l), NEW t \in Nat, l <= t,
         \A w \in Wants(s, l) : t < w
  PROVE  footer_hint(s, t) = footer_hint(s, l)
<1>1. ASSUME NEW at \in s.ctrl_c_at
      PROVE  Passed(l, at) < Window <=> Passed(t, at) < Window
  <2>1. at \in 0..l BY DEF SessionOK, TimesOK, OneBy
  <2>2. Passed(l, at) = l - at /\ Passed(t, at) = t - at BY <2>1 DEF Passed
  <2>3. CASE at + Window > l
    <3>1. at + Window \in Wants(s, l) BY <2>3 DEF Wants, Hints
    <3> QED BY <3>1, <2>1, <2>2, <2>3, ConstantsAreNat
  <2>4. CASE ~(at + Window > l) BY <2>1, <2>2, <2>4, ConstantsAreNat
  <2> QED BY <2>3, <2>4
<1>2. Due(s.foot, l) <=> Due(s.foot, t)
  <2>1. s.foot \subseteq Nat BY DEF SessionOK, TimedType
  <2>2. ASSUME NEW u \in s.foot, u > l PROVE u > t
    <3>1. u \in Wants(s, l) BY <2>2 DEF Wants, Toasts
    <3> QED BY <3>1, <2>1
  <2>3. ASSUME NEW u \in s.foot, u > t PROVE u > l BY <2>1, <2>3
  <2> QED BY <2>2, <2>3 DEF Due
<1> QED BY <1>1, <1>2 DEF footer_hint

(* The ages in the browser apart, which are less than a second old.         *)
LEMMA BelowStays ==
  ASSUME NEW s, NEW l \in Nat, SessionOK(s, l), NEW t \in Nat, l <= t,
         \A w \in Wants(s, l) : t < w
  PROVE  /\ below(s, l)[1] = "input" => below(s, l) = below(s, t)
         /\ below(s, l) = below(s, t) \/ t - l <= Second - 1
<1>1. CASE s.prompt BY <1>1 DEF below
<1>2. CASE ~s.prompt /\ s.browser
  <2>1. CASE s.active
    <3>1. NextBeat(0, l, Second) \in Wants(s, l) BY <1>2, <2>1 DEF Wants, Ages
    <3>2. t - l <= Second - 1 BY <3>1, BeatIs, ConstantsAreNat
    <3> QED BY <3>2, <1>2 DEF below
  <2>2. CASE ~s.active BY <1>2, <2>2 DEF below
  <2> QED BY <2>1, <2>2
<1>3. CASE ~s.prompt /\ ~s.browser
  <2>1. (Due(s.status_until, l) /\ ~is_busyNow(s)) = (Due(s.status_until, t) /\ ~is_busyNow(s))
    <3>0. s.status_until \subseteq Nat BY DEF SessionOK, TimedType
    <3>1. ASSUME NEW u \in s.status_until, u > l, ~is_busyNow(s) PROVE u > t
      <4>1. u \in Wants(s, l) BY <3>1 DEF Wants, Ends
      <4> QED BY <4>1, <3>0
    <3>2. ASSUME NEW u \in s.status_until, u > t PROVE u > l BY <3>0, <3>2
    <3> QED BY <3>1, <3>2 DEF Due
  <2>2. below(s, l) = below(s, t) BY <1>3, <2>1, HintStays DEF below
  <2> QED BY <2>2
<1> QED BY <1>1, <1>2, <1>3

-----------------------------------------------------------------------------
(* And then something does.                                                *)

(* The earliest of the reasons changes the frame, where neither a prompt    *)
(* nor the browser hides it.                                                *)
LEMMA FrameChanges ==
  ASSUME NEW s, NEW l \in Nat, SessionOK(s, l), NEW d \in Wants(s, l),
         \A w \in Wants(s, l) : d <= w,
         s.ctrl_c_at = {}, ~s.prompt, ~s.browser, s.tasks => s.focused
  PROVE  /\ FrameAt(s, d) # FrameAt(s, l)
         /\ d <= l + Second \/ d <= l + ShowFor \/ d <= l + ToastFor
<1>0. d \in Nat /\ l < d BY WantsAreLater
<1>1. CASE d \in Beats(s, l)
  <2>1. Animates(s) /\ d = NextBeat(Since(s), l, Every(s)) BY <1>1 DEF Beats
  <2>2. Since(s) \in Nat /\ Since(s) <= l /\ Every(s) \in Nat \ {0} BY SinceIs
  <2>3. /\ d <= l + Every(s)
        /\ Passed(d, Since(s)) \div Every(s) = Passed(l, Since(s)) \div Every(s) + 1
    BY <2>1, <2>2, BeatIs, Zenon
  <2>4. Passed(l, Since(s)) \div Every(s) \in Nat
    <3>1. Passed(l, Since(s)) \in Nat BY <2>2 DEF Passed
    <3> QED BY <3>1, <2>2, Quotient
  <2>5. CASE s.focused
    <3>1. frame_at(s, d) # frame_at(s, l)
      BY <2>3, <2>4, <2>5, <1>0, FrameOfTurn DEF Every
    <3>2. spinner(s, d) # spinner(s, l) BY <3>1, <2>1 DEF spinner, Animates
    <3>3. FrameAt(s, d) # FrameAt(s, l) BY <3>2 DEF FrameAt
    <3>4. Every(s) <= Second BY <2>5, ConstantsAreNat DEF Every
    <3> QED BY <3>3, <3>4, <2>2, <2>3, <1>0, ConstantsAreNat
  <2>6. CASE ~s.focused
    <3>1. is_busyNow(s) BY <2>1, <2>6 DEF Animates
    <3>2. s.busy_since # {} BY <3>1 DEF SessionOK
    <3>3. spinner(s, d)[3] # spinner(s, l)[3]
      BY <3>1, <3>2, <2>3, <2>4, <2>6 DEF spinner, Since, Every
    <3>4. FrameAt(s, d) # FrameAt(s, l) BY <3>3 DEF FrameAt
    <3> QED BY <3>4, <2>3, <2>6 DEF Every
  <2> QED BY <2>5, <2>6
<1>2. CASE d \in Ends(s, l)
  <2>1. d \in s.status_until /\ ~is_busyNow(s) BY <1>2 DEF Ends
  <2>2. s.status_until = {d} /\ d <= l + ShowFor
    BY <2>1, ConstantsAreNat DEF SessionOK, TimesOK, OneBy
  <2>3. Due(s.status_until, l) /\ ~Due(s.status_until, d) BY <1>0, <2>2 DEF Due
  <2>4. below(s, l)[3] = TRUE /\ below(s, d)[3] = FALSE BY <2>1, <2>3 DEF below
  <2> QED BY <2>2, <2>4 DEF FrameAt
<1>3. CASE d \in Toasts(s, l)
  <2>1. d \in s.foot BY <1>3 DEF Toasts
  <2>2. s.foot = {d} /\ d <= l + ToastFor
    BY <2>1, ConstantsAreNat DEF SessionOK, TimesOK, OneBy
  <2>3. Due(s.foot, l) /\ ~Due(s.foot, d) BY <1>0, <2>2 DEF Due
  <2>4. below(s, l)[2] = "toast" /\ below(s, d)[2] = "plain" BY <2>3 DEF below, footer_hint
  <2> QED BY <2>2, <2>4 DEF FrameAt
<1>4. d \notin Ages(s, l) /\ d \notin Hints(s, l) BY DEF Ages, Hints
<1> QED BY <1>1, <1>2, <1>3, <1>4 DEF Wants

-----------------------------------------------------------------------------
(* A pass, and the time after it.                                          *)

GapOf(s) == IF s.focused THEN Gap ELSE Second

(* What the loop went to sleep with. A draw put off is due within the gap;  *)
(* else the screen and the deadline are those of the last draw, when the    *)
(* session was what it is now.                                              *)
Asleep ==
  /\ last_draw \in 0..clock
  /\ deadline = {} \/ \E d \in Nat : deadline = {d} /\ d >= clock
  /\ deferred => \E d \in Nat : deadline = {d} /\ d <= last_draw + GapOf(timed)
  /\ ~deferred => /\ shown = FrameAt(timed, last_draw)
                  /\ deadline = next_wakeup(timed, last_draw)
                  /\ SessionOK(timed, last_draw)

ClockTypes ==
  /\ clock \in 0..MaxTime /\ last_draw \in 0..clock
  /\ deferred \in BOOLEAN /\ unsettled \in BOOLEAN /\ turnAt \in Nat
  /\ clockInputs \in 0..MaxClockInputs

ClockInv == ClockTypes /\ SessionOK(timed, clock) /\ Asleep

(* A pass restores it, whatever the session became.                         *)
LEMMA PassSleeps ==
  ASSUME ClockInv, NEW s, SessionOK(s, clock), NEW urgent \in BOOLEAN, Pass(s, urgent)
  PROVE  /\ Asleep' /\ SessionOK(timed, clock)' /\ clock' = clock
         /\ last_draw' \in 0..clock /\ deferred' \in BOOLEAN /\ timed' = s
<1> DEFINE soon == ~urgent /\ clock - last_draw < GapOf(s)
<1>0. clock \in Nat /\ last_draw \in Nat /\ last_draw <= clock BY ConstantsAreNat DEF ClockInv, ClockTypes
<1>1. GapOf(s) \in Nat BY ConstantsAreNat DEF GapOf
<1>2. PICK later \in SUBSET Nat :
        /\ next_wakeup(s, clock) = later /\ \A u \in later : clock < u
        /\ later = {} \/ \E d \in Nat : later = {d}
  BY <1>0, WakeupIsLater
<1>3. /\ timed' = s /\ deferred' = soon /\ clock' = clock
      /\ last_draw' = IF soon THEN last_draw ELSE clock
      /\ shown' = IF soon THEN shown ELSE FrameAt(s, clock)
  BY DEF Pass, GapOf
<1>a. soon \in BOOLEAN /\ (soon => last_draw + GapOf(s) > clock) BY <1>0, <1>1
<1> DEFINE next == later \cup (IF soon THEN {last_draw + GapOf(s)} ELSE {})
<1>4. deadline' = IF next = {} THEN {} ELSE {Min(next)}
  BY <1>2, Zenon DEF Pass, GapOf
<1> HIDE DEF soon
<1>5. CASE soon
  <2>1. next \subseteq Nat /\ next # {} /\ last_draw + GapOf(s) \in next /\ \A u \in next : clock < u
    <3>1. next = later \cup {last_draw + GapOf(s)} BY <1>5
    <3>2. last_draw + GapOf(s) \in Nat /\ last_draw + GapOf(s) > clock
      BY <1>0, <1>1, <1>5, <1>a
    <3> HIDE DEF next
    <3> QED BY <3>1, <3>2, <1>2
  <2>2. Min(next) \in next /\ Min(next) <= last_draw + GapOf(s) BY <2>1, MinIs
  <2>3. deadline' = {Min(next)} /\ Min(next) \in Nat /\ Min(next) >= clock
    BY <1>0, <1>4, <2>1, <2>2
  <2>4. last_draw' = last_draw /\ deferred' = TRUE /\ timed' = s /\ clock' = clock
    BY <1>3, <1>5
  <2> HIDE DEF next
  <2>5. Asleep' BY <1>0, <2>2, <2>3, <2>4 DEF Asleep
  <2> QED BY <1>0, <2>4, <2>5
<1>6. CASE ~soon
  <2>1. next = later BY <1>6
  <2>2. deadline' = next_wakeup(s, clock)
    <3>1. CASE later = {} BY <1>2, <1>4, <2>1, <3>1
    <3>2. CASE \E d \in Nat : later = {d} BY <1>2, <1>4, <2>1, <3>2, MinOne
    <3> QED BY <1>2, <3>1, <3>2
  <2>3. deadline' = {} \/ \E d \in Nat : deadline' = {d} /\ d >= clock BY <1>0, <1>2, <2>2
  <2>4. /\ last_draw' = clock /\ deferred' = FALSE /\ timed' = s /\ clock' = clock
        /\ shown' = FrameAt(s, clock)
    BY <1>3, <1>6
  <2>5. /\ shown' = FrameAt(timed, last_draw)'
        /\ deadline' = next_wakeup(timed, last_draw)'
        /\ SessionOK(timed, last_draw)'
    BY <2>2, <2>4
  <2>6. Asleep' BY <1>0, <2>3, <2>4, <2>5 DEF Asleep
  <2>7. SessionOK(timed, clock)' BY <2>4
  <2>8. deferred' \in BOOLEAN BY <2>4, Zenon
  <2>9. last_draw' \in 0..clock BY <1>0, <2>4
  <2> QED BY <2>4, <2>6, <2>7, <2>8, <2>9
<1> QED BY <1>5, <1>6, <1>a

(* And it goes on holding while time passes.                                *)
LEMMA LaterIsFine ==
  ASSUME NEW s, NEW t \in Nat, NEW u \in Nat, t <= u, SessionOK(s, t)
  PROVE  SessionOK(s, u)
<1>1. ASSUME NEW set, NEW k \in Nat, OneBy(set, t + k) PROVE OneBy(set, u + k)
  BY <1>1 DEF OneBy
<1>2. ASSUME NEW set, OneBy(set, t) PROVE OneBy(set, u) BY <1>2 DEF OneBy
<1> QED BY <1>1, <1>2, ConstantsAreNat DEF SessionOK, TimesOK

(* Time passes while the loop sleeps: not past what it waits for.           *)
LEMMA TimeSleeps == ClockInv /\ TimePasses => ClockInv'
<1> SUFFICES ASSUME ClockInv, TimePasses PROVE ClockInv' OBVIOUS
<1> USE DEF ClockInv, TimePasses
<1>0. clock \in Nat /\ MaxTime \in Nat BY ConstantsAreNat DEF ClockTypes
<1>1. ClockTypes' BY <1>0 DEF ClockTypes
<1>2. SessionOK(timed, clock)' BY <1>0, LaterIsFine
<1>3. Asleep'
  <2>1. deadline' = {} \/ \E d \in Nat : deadline' = {d} /\ d >= clock' BY <1>0 DEF Asleep
  <2> QED BY <1>1, <2>1 DEF Asleep, ClockTypes
<1> QED BY <1>1, <1>2, <1>3

-----------------------------------------------------------------------------
(* What becomes of the session in one input.                               *)

(* A time set now is one time.                                              *)
LEMMA NowIsOne ==
  ASSUME NEW t \in Nat
  PROVE  /\ {t} \in SUBSET Nat /\ OneBy({t}, t) /\ OneBy({}, t)
         /\ \A k \in Nat : {t + k} \in SUBSET Nat /\ OneBy({t + k}, t + k)
BY DEF OneBy

(* A flag of the session changes: its times do not.                         *)
LEMMA ChangedFlag ==
  ASSUME NEW s, NEW t \in Nat, SessionOK(s, t), NEW b \in BOOLEAN
  PROVE  /\ SessionOK([s EXCEPT !.focused = b], t)
         /\ SessionOK([s EXCEPT !.tasks = b], t)
         /\ SessionOK([s EXCEPT !.prompt = b], t)
         /\ SessionOK([s EXCEPT !.browser = b], t)
         /\ SessionOK([s EXCEPT !.active = b], t)
         /\ SessionOK([s EXCEPT !.open = FALSE], t)
<1> USE DEF SessionOK, TimesOK, is_busyNow
<1>1. SessionOK([s EXCEPT !.focused = b], t) BY DEF TimedType
<1>2. SessionOK([s EXCEPT !.tasks = b], t) BY DEF TimedType
<1>3. SessionOK([s EXCEPT !.prompt = b], t) BY DEF TimedType
<1>4. SessionOK([s EXCEPT !.browser = b], t) BY DEF TimedType
<1>5. SessionOK([s EXCEPT !.active = b], t) BY DEF TimedType
<1>6. SessionOK([s EXCEPT !.open = FALSE], t) BY DEF TimedType
<1> QED BY <1>1, <1>2, <1>3, <1>4, <1>5, <1>6

(* A time of the session is set or unset: the others stay.                  *)
LEMMA ChangedTime ==
  ASSUME NEW s, NEW t \in Nat, SessionOK(s, t)
  PROVE  /\ SessionOK([s EXCEPT !.foot = {t + ToastFor}], t)
         /\ SessionOK([s EXCEPT !.status_until = {t + ShowFor}], t)
         /\ SessionOK([s EXCEPT !.ctrl_c_at = {t}], t)
         /\ SessionOK([s EXCEPT !.ctrl_c_at = {}], t)
         /\ SessionOK([s EXCEPT !.latest = {t}], t)
         /\ SessionOK([s EXCEPT !.running = {t}], t)
         /\ SessionOK([s EXCEPT !.running = {}], t)
         /\ SessionOK([s EXCEPT !.glimpse = {t}], t)
<1> USE NowIsOne, ConstantsAreNat DEF SessionOK, TimesOK, is_busyNow
<1>1. SessionOK([s EXCEPT !.foot = {t + ToastFor}], t) BY DEF TimedType
<1>2. SessionOK([s EXCEPT !.status_until = {t + ShowFor}], t) BY DEF TimedType
<1>3. SessionOK([s EXCEPT !.ctrl_c_at = {t}], t) BY DEF TimedType
<1>4. SessionOK([s EXCEPT !.ctrl_c_at = {}], t) BY DEF TimedType
<1>5. SessionOK([s EXCEPT !.latest = {t}], t) BY DEF TimedType
<1>6. SessionOK([s EXCEPT !.running = {t}], t) BY DEF TimedType
<1>7. SessionOK([s EXCEPT !.running = {}], t) BY DEF TimedType
<1>8. SessionOK([s EXCEPT !.glimpse = {t}], t) BY DEF TimedType
<1> QED BY <1>1, <1>2, <1>3, <1>4, <1>5, <1>6, <1>7, <1>8

(* What a turn did is forgotten: the rest stays.                            *)
LEMMA ClearedKeeps ==
  ASSUME NEW s \in TimedType, NEW t \in Nat, TimesOK(s, t)
  PROVE  /\ cleared(s) \in TimedType /\ TimesOK(cleared(s), t)
         /\ is_busyNow(cleared(s)) = is_busyNow(s)
         /\ cleared(s).busy_since = s.busy_since
<1> DEFINE a == [s EXCEPT !.latest = {}]
           b == [a EXCEPT !.running = {}]
           c == [b EXCEPT !.glimpse = {}]
<1>1. /\ a \in TimedType /\ TimesOK(a, t) /\ a.busy_since = s.busy_since
      /\ a.phase_busy = s.phase_busy /\ a.open = s.open
  BY NowIsOne DEF TimedType, TimesOK
<1> HIDE DEF a
<1>2. /\ b \in TimedType /\ TimesOK(b, t) /\ b.busy_since = s.busy_since
      /\ b.phase_busy = s.phase_busy /\ b.open = s.open
  BY <1>1, NowIsOne DEF TimedType, TimesOK
<1> HIDE DEF b
<1>3. /\ c \in TimedType /\ TimesOK(c, t) /\ c.busy_since = s.busy_since
      /\ c.phase_busy = s.phase_busy /\ c.open = s.open
  BY <1>2, NowIsOne DEF TimedType, TimesOK
<1> HIDE DEF c
<1>4. cleared(s) = c BY DEF cleared, a, b, c, TimedType
<1> QED BY <1>3, <1>4 DEF is_busyNow

(* A turn that begins, in either of its two ways, and one that is settled. *)
LEMMA TurnStarts ==
  ASSUME NEW s, NEW f \in {[timed EXCEPT !.phase_busy = TRUE], [timed EXCEPT !.open = TRUE]},
         clock \in Nat, SessionOK(timed, clock), s = became_busyNow(f)
  PROVE  /\ SessionOK(s, clock) /\ is_busyNow(s)
         /\ s.busy_since = IF timed.busy_since = {} THEN {clock} ELSE timed.busy_since
<1>1. /\ f \in TimedType /\ f.busy_since = timed.busy_since /\ is_busyNow(f)
      /\ TimesOK(f, clock)
  <2>1. CASE f = [timed EXCEPT !.phase_busy = TRUE]
    BY <2>1 DEF SessionOK, TimesOK, TimedType, is_busyNow
  <2>2. CASE f = [timed EXCEPT !.open = TRUE]
    BY <2>2 DEF SessionOK, TimesOK, TimedType, is_busyNow
  <2> QED BY <2>1, <2>2
<1>2. CASE f.busy_since # {}
  BY <1>1, <1>2 DEF became_busyNow, SessionOK
<1>3. CASE f.busy_since = {}
  <2> DEFINE c == cleared(f)
  <2>1. /\ c \in TimedType /\ TimesOK(c, clock) /\ is_busyNow(c)
    BY <1>1, ClearedKeeps
  <2>2. s = [c EXCEPT !.busy_since = {clock}] BY <1>3 DEF became_busyNow
  <2> HIDE DEF c
  <2>3. s \in TimedType /\ TimesOK(s, clock) /\ is_busyNow(s) /\ s.busy_since = {clock}
    BY <2>1, <2>2, NowIsOne DEF TimedType, TimesOK, is_busyNow
  <2> QED BY <1>1, <1>3, <2>3 DEF SessionOK
<1> QED BY <1>2, <1>3

(* A turn ends: nothing is busy and the toast has its time.                 *)
LEMMA TurnSettles ==
  ASSUME clock \in Nat, SessionOK(timed, clock)
  PROVE  /\ SessionOK(settled(timed), clock) /\ ~is_busyNow(settled(timed))
         /\ settled(timed).busy_since = {}
<1> DEFINE o == cleared(timed)
           a == [o EXCEPT !.phase_busy = FALSE]
           b == [a EXCEPT !.open = FALSE]
           c == [b EXCEPT !.busy_since = {}]
           d == [c EXCEPT !.prompt = FALSE]
<1>0. o \in TimedType /\ TimesOK(o, clock)
  BY ClearedKeeps DEF SessionOK
<1>5. settled(timed) = d
  <2> HIDE DEF o
  <2>1. settled(timed) = [o EXCEPT !.phase_busy = FALSE, !.open = FALSE, !.busy_since = {},
                                   !.prompt = FALSE]
    BY DEF settled, o
  <2> QED BY <1>0, <2>1 DEF TimedType
<1> HIDE DEF o
<1>1. a \in TimedType /\ TimesOK(a, clock) /\ ~a.phase_busy
  BY <1>0 DEF TimedType, TimesOK
<1> HIDE DEF a
<1>2. b \in TimedType /\ TimesOK(b, clock) /\ ~b.phase_busy /\ ~b.open
  BY <1>1 DEF TimedType, TimesOK
<1> HIDE DEF b
<1>3. /\ c \in TimedType /\ TimesOK(c, clock) /\ ~c.phase_busy /\ ~c.open
      /\ c.busy_since = {}
  BY <1>2, NowIsOne DEF TimedType, TimesOK
<1> HIDE DEF c
<1>4. /\ d \in TimedType /\ TimesOK(d, clock) /\ ~d.phase_busy /\ ~d.open
      /\ d.busy_since = {}
  BY <1>3 DEF TimedType, TimesOK
<1> HIDE DEF d
<1> QED BY <1>4, <1>5 DEF SessionOK, is_busyNow

(* The busy clock is that of the turn that runs, until one ends without     *)
(* settle().                                                                *)
TurnOwned ==
  ~unsettled => timed.busy_since = IF is_busyNow(timed) THEN {turnAt} ELSE {}

(* What an input that passes leaves behind.                                *)
LEMMA PassKeeps ==
  ASSUME ClockInv, NEW s, SessionOK(s, clock), NEW urgent \in BOOLEAN, Pass(s, urgent),
         turnAt' \in Nat, unsettled' \in BOOLEAN, clockInputs' \in 0..MaxClockInputs,
         ~unsettled' => s.busy_since = IF is_busyNow(s) THEN {turnAt'} ELSE {}
  PROVE  ClockInv' /\ TurnOwned'
<1>1. /\ Asleep' /\ SessionOK(timed, clock)' /\ clock' = clock
      /\ last_draw' \in 0..clock /\ deferred' \in BOOLEAN /\ timed' = s
  BY PassSleeps
<1>2. ClockTypes' BY <1>1 DEF ClockInv, ClockTypes
<1>3. TurnOwned' BY <1>1 DEF TurnOwned
<1> QED BY <1>1, <1>2, <1>3 DEF ClockInv

(* Every step keeps the invariant.                                          *)
LEMMA ClockStep == ClockInv /\ TurnOwned /\ [ClockNext]_clockVars => ClockInv' /\ TurnOwned'
<1> SUFFICES ASSUME ClockInv, TurnOwned, [ClockNext]_clockVars PROVE ClockInv' /\ TurnOwned'
  OBVIOUS
<1>0. /\ clock \in Nat /\ SessionOK(timed, clock) /\ turnAt \in Nat /\ unsettled \in BOOLEAN
      /\ clockInputs \in 0..MaxClockInputs
  BY ConstantsAreNat DEF ClockInv, ClockTypes
<1>a. timed \in TimedType BY <1>0 DEF SessionOK
<1>b. InputComes => clockInputs' \in 0..MaxClockInputs BY <1>0, ConstantsAreNat DEF InputComes
<1>1. CASE TimePasses
  BY <1>1, TimeSleeps DEF TimePasses, TurnOwned
<1>2. CASE WakeUp
  <2>1. Pass(timed, FALSE) /\ turnAt' = turnAt /\ unsettled' = unsettled /\ clockInputs' = clockInputs
    BY <1>2 DEF WakeUp
  <2> QED BY <1>0, <2>1, PassKeeps DEF TurnOwned
<1>3. CASE TurnBegins
  <2>1. PICK f \in {[timed EXCEPT !.phase_busy = TRUE], [timed EXCEPT !.open = TRUE]} :
          \/ Pass(became_busyNow(f), FALSE)
          \/ Pass([became_busyNow(f) EXCEPT !.latest = {clock}], FALSE)
    BY <1>3 DEF TurnBegins
  <2>a. PICK s \in {became_busyNow(f), [became_busyNow(f) EXCEPT !.latest = {clock}]} :
          Pass(s, FALSE)
    BY <2>1
  <2>2. /\ SessionOK(s, clock) /\ is_busyNow(s)
        /\ s.busy_since = IF timed.busy_since = {} THEN {clock} ELSE timed.busy_since
    <3> DEFINE o == became_busyNow(f)
    <3>1. /\ SessionOK(o, clock) /\ is_busyNow(o)
          /\ o.busy_since = IF timed.busy_since = {} THEN {clock} ELSE timed.busy_since
      BY <1>0, TurnStarts
    <3>2. s = o \/ s = [o EXCEPT !.latest = {clock}] BY <2>a
    <3> HIDE DEF o
    <3>3. SessionOK([o EXCEPT !.latest = {clock}], clock) BY <1>0, <3>1, ChangedTime
    <3>4. /\ is_busyNow([o EXCEPT !.latest = {clock}])
          /\ [o EXCEPT !.latest = {clock}].busy_since = o.busy_since
      BY <3>1 DEF SessionOK, TimedType, is_busyNow
    <3> QED BY <3>1, <3>2, <3>3, <3>4
  <2>3. turnAt' = (IF is_busyNow(timed) THEN turnAt ELSE clock) /\ unsettled' = unsettled
    BY <1>3 DEF TurnBegins
  <2>4. ~unsettled' => s.busy_since = {turnAt'}
    BY <2>2, <2>3 DEF TurnOwned
  <2> QED BY <1>0, <1>3, <1>b, <2>a, <2>2, <2>3, <2>4, PassKeeps DEF TurnBegins
<1>4. CASE TurnEnds
  <2>1. CASE timed.phase_busy /\ Pass(settled(timed), FALSE) /\ unsettled' = FALSE
    <3>1. turnAt' = turnAt BY <1>4 DEF TurnEnds
    <3> QED BY <1>0, <1>4, <1>b, <2>1, <3>1, TurnSettles, PassKeeps DEF TurnEnds
  <2>2. CASE /\ timed.open /\ Pass([timed EXCEPT !.open = FALSE], FALSE)
             /\ unsettled' = (unsettled \/ ~timed.phase_busy)
    <3> DEFINE s == [timed EXCEPT !.open = FALSE]
    <3>1. turnAt' = turnAt BY <1>4 DEF TurnEnds
    <3>2. SessionOK(s, clock) BY <1>0, ChangedFlag
    <3>3. s.busy_since = timed.busy_since /\ s.phase_busy = timed.phase_busy
      BY <1>a DEF TimedType
    <3>4. ~unsettled' => is_busyNow(timed) /\ is_busyNow(s) /\ ~unsettled
      BY <2>2, <3>3 DEF is_busyNow
    <3>5. ~unsettled' => s.busy_since = IF is_busyNow(s) THEN {turnAt'} ELSE {}
      BY <3>1, <3>3, <3>4 DEF TurnOwned
    <3>6. unsettled' \in BOOLEAN BY <1>0, <1>a, <2>2 DEF TimedType
    <3>7. Pass(s, FALSE) BY <2>2
    <3> HIDE DEF s
    <3> QED BY <1>0, <1>4, <1>b, <3>1, <3>2, <3>5, <3>6, <3>7, PassKeeps DEF TurnEnds
  <2> QED BY <1>4, <2>1, <2>2 DEF TurnEnds
<1>5. ASSUME NEW s, NEW urgent \in BOOLEAN, Pass(s, urgent), InputComes,
             SessionOK(s, clock), s.busy_since = timed.busy_since,
             is_busyNow(s) = is_busyNow(timed), UNCHANGED <<turnAt, unsettled>>
      PROVE  ClockInv' /\ TurnOwned'
  BY <1>0, <1>5, <1>b, PassKeeps DEF TurnOwned
<1>6. CASE HostShows
  <2>1. PICK s \in {[timed EXCEPT !.foot = {clock + ToastFor}],
               [timed EXCEPT !.status_until = {clock + ShowFor}],
               [timed EXCEPT !.tasks = ~@], [timed EXCEPT !.prompt = TRUE],
               [timed EXCEPT !.active = ~@], [timed EXCEPT !.browser = TRUE],
               [timed EXCEPT !.running = IF @ = {} THEN {clock} ELSE {}],
               [timed EXCEPT !.glimpse = {clock}]} : Pass(s, FALSE)
    BY <1>6 DEF HostShows
  <2>2. s.busy_since = timed.busy_since /\ is_busyNow(s) = is_busyNow(timed)
    BY <1>a DEF TimedType, is_busyNow
  <2>3. timed.tasks \in BOOLEAN /\ timed.active \in BOOLEAN BY <1>a DEF TimedType
  <2>4. SessionOK(s, clock)
    <3>1. /\ SessionOK([timed EXCEPT !.foot = {clock + ToastFor}], clock)
          /\ SessionOK([timed EXCEPT !.status_until = {clock + ShowFor}], clock)
          /\ SessionOK([timed EXCEPT !.glimpse = {clock}], clock)
      BY <1>0, ChangedTime
    <3>2. /\ SessionOK([timed EXCEPT !.tasks = ~timed.tasks], clock)
          /\ SessionOK([timed EXCEPT !.prompt = TRUE], clock)
          /\ SessionOK([timed EXCEPT !.active = ~timed.active], clock)
          /\ SessionOK([timed EXCEPT !.browser = TRUE], clock)
      BY <1>0, <2>3, ChangedFlag
    <3>3. SessionOK([timed EXCEPT !.running = IF timed.running = {} THEN {clock} ELSE {}], clock)
      <4>1. CASE timed.running = {} BY <1>0, <4>1, ChangedTime
      <4>2. CASE timed.running # {} BY <1>0, <4>2, ChangedTime
      <4> QED BY <4>1, <4>2
    <3> QED BY <3>1, <3>2, <3>3, Zenon
  <2> QED BY <1>5, <1>6, <2>1, <2>2, <2>4 DEF HostShows
<1>7. CASE CtrlCNow
  <2>0. turnAt' = turnAt /\ InputComes BY <1>7 DEF CtrlCNow
  <2>1. CASE Pass([timed EXCEPT !.prompt = FALSE], TRUE) /\ unsettled' = unsettled
    <3>1. SessionOK([timed EXCEPT !.prompt = FALSE], clock) BY <1>0, ChangedFlag
    <3>2. /\ [timed EXCEPT !.prompt = FALSE].busy_since = timed.busy_since
          /\ is_busyNow([timed EXCEPT !.prompt = FALSE]) = is_busyNow(timed)
      BY <1>a DEF TimedType, is_busyNow
    <3> QED BY <1>5, <2>0, <2>1, <3>1, <3>2
  <2>2. CASE Pass([timed EXCEPT !.browser = FALSE], TRUE) /\ unsettled' = unsettled
    <3>1. SessionOK([timed EXCEPT !.browser = FALSE], clock) BY <1>0, ChangedFlag
    <3>2. /\ [timed EXCEPT !.browser = FALSE].busy_since = timed.busy_since
          /\ is_busyNow([timed EXCEPT !.browser = FALSE]) = is_busyNow(timed)
      BY <1>a DEF TimedType, is_busyNow
    <3> QED BY <1>5, <2>0, <2>2, <3>1, <3>2
  <2>3. CASE Pass([settled(timed) EXCEPT !.ctrl_c_at = {clock}], TRUE) /\ unsettled' = FALSE
    <3> DEFINE s == [settled(timed) EXCEPT !.ctrl_c_at = {clock}]
    <3>1. SessionOK(settled(timed), clock) /\ ~is_busyNow(settled(timed)) /\ settled(timed).busy_since = {}
      BY <1>0, TurnSettles
    <3>2. SessionOK(s, clock) BY <1>0, <3>1, ChangedTime
    <3>3. s.busy_since = {} /\ ~is_busyNow(s)
      BY <3>1 DEF SessionOK, TimedType, is_busyNow
    <3>4. Pass(s, TRUE) BY <2>3
    <3> HIDE DEF s
    <3> QED BY <1>0, <1>b, <2>0, <2>3, <3>2, <3>3, <3>4, PassKeeps
  <2>4. CASE Pass([timed EXCEPT !.ctrl_c_at = {clock}], TRUE) /\ unsettled' = unsettled
    <3>1. SessionOK([timed EXCEPT !.ctrl_c_at = {clock}], clock) BY <1>0, ChangedTime
    <3>2. /\ [timed EXCEPT !.ctrl_c_at = {clock}].busy_since = timed.busy_since
          /\ is_busyNow([timed EXCEPT !.ctrl_c_at = {clock}]) = is_busyNow(timed)
      BY <1>a DEF TimedType, is_busyNow
    <3> QED BY <1>5, <2>0, <2>4, <3>1, <3>2
  <2> QED BY <1>7, <2>1, <2>2, <2>3, <2>4 DEF CtrlCNow
<1>8. CASE KeyPressed
  <2>1. PICK s \in {[timed EXCEPT !.prompt = FALSE], [timed EXCEPT !.ctrl_c_at = {}]} : Pass(s, TRUE)
    BY <1>8 DEF KeyPressed
  <2>2. s.busy_since = timed.busy_since /\ is_busyNow(s) = is_busyNow(timed)
    BY <1>a DEF TimedType, is_busyNow
  <2>3. SessionOK(s, clock)
    <3>1. SessionOK([timed EXCEPT !.prompt = FALSE], clock) BY <1>0, ChangedFlag
    <3>2. SessionOK([timed EXCEPT !.ctrl_c_at = {}], clock) BY <1>0, ChangedTime
    <3> QED BY <3>1, <3>2, Zenon
  <2> QED BY <1>5, <1>8, <2>1, <2>2, <2>3 DEF KeyPressed
<1>9. CASE FocusChanges
  <2> DEFINE s == [timed EXCEPT !.focused = ~@]
  <2>1. s.busy_since = timed.busy_since /\ is_busyNow(s) = is_busyNow(timed)
    BY <1>a DEF TimedType, is_busyNow
  <2>2. timed.focused \in BOOLEAN BY <1>a DEF TimedType
  <2>3. SessionOK(s, clock) BY <1>0, <2>2, ChangedFlag
  <2>4. Pass(s, TRUE) /\ InputComes /\ UNCHANGED <<turnAt, unsettled>>
    BY <1>9 DEF FocusChanges
  <2> HIDE DEF s
  <2> QED BY <1>5, <2>1, <2>3, <2>4
<1>10. CASE UNCHANGED clockVars
  <2>1. ClockInv'
    BY <1>10 DEF clockVars, ClockInv, ClockTypes, Asleep
  <2> QED BY <1>10, <2>1 DEF clockVars, TurnOwned
<1> QED BY <1>1, <1>2, <1>3, <1>4, <1>6, <1>7, <1>8, <1>9, <1>10 DEF ClockNext

-----------------------------------------------------------------------------
(* What the screen shows while the loop sleeps.                            *)

(* One time at most.                                                        *)
LEMMA OneOrNone == \A set, t : OneBy(set, t) => Cardinality(set) <= 1
BY FS_EmptySet, FS_Singleton DEF OneBy

(* The types follow from the invariant.                                     *)
LEMMA TypesFollow == ClockInv => ClockTypeOK
<1> SUFFICES ASSUME ClockInv PROVE ClockTypeOK OBVIOUS
<1>1. Cardinality(deadline) <= 1 /\ \A d \in deadline : d >= clock
  <2>1. deadline = {} \/ \E d \in Nat : deadline = {d} /\ d >= clock BY DEF ClockInv, Asleep
  <2>2. CASE deadline = {} BY <2>2, FS_EmptySet
  <2>3. ASSUME NEW d \in Nat, deadline = {d}, d >= clock
        PROVE  Cardinality(deadline) <= 1 /\ \A e \in deadline : e >= clock
    BY <2>3, FS_Singleton
  <2> QED BY <2>1, <2>2, <2>3
<1>2. \A set \in {timed.foot, timed.ctrl_c_at, timed.status_until, timed.busy_since,
                   timed.latest, timed.running, timed.glimpse} : Cardinality(set) <= 1
  BY OneOrNone DEF ClockInv, SessionOK, TimesOK
<1> QED BY <1>1, <1>2 DEF ClockInv, ClockTypes, ClockTypeOK

(* A deferred draw waits for the frame gap and no longer.                   *)
LEMMA SleepIsShort == ClockInv /\ deferred => clock - last_draw <= GapOf(timed)
<1> SUFFICES ASSUME ClockInv, deferred PROVE clock - last_draw <= GapOf(timed) OBVIOUS
<1>1. PICK d \in Nat : deadline = {d} /\ d <= last_draw + GapOf(timed)
  BY DEF ClockInv, Asleep
<1>2. d >= clock BY <1>1 DEF ClockInv, Asleep
<1>3. clock \in Nat /\ last_draw \in Nat /\ GapOf(timed) \in Nat
  BY ConstantsAreNat DEF ClockInv, ClockTypes, GapOf
<1> QED BY <1>1, <1>2, <1>3

(* The deadline of the last draw has not come.                             *)
LEMMA NothingDue ==
  ASSUME ClockInv, ~deferred, deadline # {clock}
  PROVE  \A w \in Wants(timed, last_draw) : clock < w
<1>1. /\ clock \in Nat /\ last_draw \in Nat /\ SessionOK(timed, last_draw)
      /\ deadline = next_wakeup(timed, last_draw)
  BY ConstantsAreNat DEF ClockInv, ClockTypes, Asleep
<1>2. CASE Wants(timed, last_draw) = {} BY <1>2
<1>3. CASE Wants(timed, last_draw) # {}
  <2>1. PICK d \in Wants(timed, last_draw) :
          deadline = {d} /\ d \in Nat /\ \A w \in Wants(timed, last_draw) : d <= w
    BY <1>1, <1>3, WakeupIsLater
  <2>2. d >= clock /\ d # clock BY <2>1 DEF ClockInv, Asleep
  <2>3. Wants(timed, last_draw) \subseteq Nat BY <1>1, WantsAreLater
  <2> QED BY <1>1, <2>1, <2>2, <2>3
<1> QED BY <1>2, <1>3

(* Awake or not, the frame on the screen is that of the last draw.          *)
LEMMA ShownLately ==
  ASSUME ClockInv, ~deferred, deadline # {clock}, ~(is_busyNow(timed) /\ timed.prompt)
  PROVE  Lately(timed, shown)
<1> DEFINE l == last_draw
           late == (IF timed.focused THEN Frame ELSE Second) - 1
           from(n) == IF clock > n THEN clock - n ELSE 0
<1>1. /\ clock \in Nat /\ l \in Nat /\ l <= clock /\ SessionOK(timed, l)
      /\ shown = FrameAt(timed, l)
  BY ConstantsAreNat DEF ClockInv, ClockTypes, Asleep
<1>2. \A w \in Wants(timed, l) : clock < w BY NothingDue
<1>3. late = Every(timed) - 1 /\ late \in Nat /\ Second - 1 \in Nat
  BY ConstantsAreNat DEF Every
<1> HIDE DEF l, late
<1>4. /\ spinner(timed, l)[1] = spinner(timed, clock)[1]
      /\ spinner(timed, l)[2] = spinner(timed, clock)[2]
      /\ is_busyNow(timed) => clock - l <= late
      /\ ~is_busyNow(timed) => spinner(timed, l)[3] = spinner(timed, clock)[3]
  BY <1>1, <1>2, <1>3, SpinnerStays
<1>5. /\ below(timed, l)[1] = "input" => below(timed, l) = below(timed, clock)
      /\ below(timed, l) = below(timed, clock) \/ clock - l <= Second - 1
  BY <1>1, <1>2, BelowStays
<1>6. shown.spinner = spinner(timed, l) /\ shown.below = below(timed, l)
  BY <1>1 DEF FrameAt
<1>7. \A n \in Nat : clock \in from(n) .. clock /\ (clock - l <= n => l \in from(n) .. clock)
  BY <1>1
<1>8. \E t \in from(late) .. clock : shown.spinner[3] = spinner(timed, t)[3]
  BY <1>3, <1>4, <1>6, <1>7
<1>9. \E t \in from(Second - 1) .. clock : shown.below = below(timed, t)
  BY <1>3, <1>5, <1>6, <1>7
<1>10. \E t \in from(late) .. clock : shown.rows = busy_rows(timed, t)
  <2>1. shown.rows = busy_rows(timed, l) BY <1>1 DEF FrameAt
  <2>2. ~is_busyNow(timed) => busy_rows(timed, l) = busy_rows(timed, clock) BY DEF busy_rows
  <2> QED BY <1>3, <1>4, <1>7, <2>1, <2>2
<1> QED BY <1>4, <1>5, <1>6, <1>8, <1>9, <1>10 DEF Lately, late

(* The loop wakes for something it waited for.                              *)
LEMMA SleepsForAReason ==
  ASSUME ClockInv, ~deferred, deadline # {}, timed.ctrl_c_at = {},
         ~timed.prompt, ~timed.browser, timed.tasks => timed.focused
  PROVE  \E t \in clock .. clock + ShowFor + ToastFor : FrameAt(timed, t) # shown
<1>1. /\ clock \in Nat /\ last_draw \in Nat /\ last_draw <= clock
      /\ SessionOK(timed, last_draw) /\ shown = FrameAt(timed, last_draw)
      /\ deadline = next_wakeup(timed, last_draw)
  BY ConstantsAreNat DEF ClockInv, ClockTypes, Asleep
<1>2. PICK d \in Wants(timed, last_draw) :
        deadline = {d} /\ d \in Nat /\ \A w \in Wants(timed, last_draw) : d <= w
  BY <1>1, WakeupIsLater
<1>3. /\ FrameAt(timed, d) # shown
      /\ d <= last_draw + Second \/ d <= last_draw + ShowFor \/ d <= last_draw + ToastFor
  BY <1>1, <1>2, FrameChanges
<1>4. d >= clock BY <1>2 DEF ClockInv, Asleep
<1>5. d \in clock .. clock + ShowFor + ToastFor BY <1>1, <1>2, <1>3, <1>4, ConstantsAreNat
<1> QED BY <1>3, <1>5

(* It holds at the start.                                                   *)
LEMMA ClockStarts == ClockInit => ClockInv /\ TurnOwned
<1> SUFFICES ASSUME ClockInit PROVE ClockInv /\ TurnOwned OBVIOUS
<1>1. clock = 0 /\ last_draw = 0 /\ deferred = FALSE /\ deadline = {} BY DEF ClockInit
<1>2. timed \in TimedType /\ TimesOK(timed, 0) /\ ~is_busyNow(timed) /\ timed.busy_since = {}
  BY DEF ClockInit, TimedType, TimesOK, OneBy, is_busyNow
<1>3. Wants(timed, 0) = {}
  BY DEF ClockInit, Wants, Beats, Ages, Ends, Toasts, Hints, Animates, is_busyNow
<1>4. next_wakeup(timed, 0) = {} BY <1>3, WakeupIs
<1>5. ClockTypes
  <2>1. unsettled \in BOOLEAN /\ deferred \in BOOLEAN BY Zenon DEF ClockInit
  <2>2. clock = 0 /\ last_draw = 0 /\ turnAt = 0 /\ clockInputs = MaxClockInputs
    BY Zenon DEF ClockInit
  <2> QED BY <2>1, <2>2, ConstantsAreNat DEF ClockTypes
<1>6. shown = FrameAt(timed, 0) BY DEF ClockInit
<1>7. SessionOK(timed, 0) BY <1>2 DEF SessionOK
<1>8. Asleep BY <1>1, <1>4, <1>6, <1>7 DEF Asleep
<1> QED BY <1>1, <1>2, <1>5, <1>7, <1>8 DEF ClockInv, TurnOwned

(* What the loop believes of time is well typed, and no deadline is past.  *)
THEOREM ClockTypeCorrect == ClockSpec => []ClockTypeOK
<1>1. ClockSpec => [](ClockInv /\ TurnOwned) BY ClockStarts, ClockStep, PTL DEF ClockSpec
<1> QED BY <1>1, TypesFollow, PTL

(* While the loop sleeps the screen shows the time as it is, but for what  *)
(* may be a beat late and for a turn that waits for the user; a draw is    *)
(* put off by no more than the gap; the loop wakes only for a frame that   *)
(* differs, where no prompt, browser or hint of Ctrl+C hides it: for every *)
(* length of the periods and windows of the code.                          *)
THEOREM KeepsTime == ClockSpec => []ScreenKeepsTime
<1>1. ClockSpec => [](ClockInv /\ TurnOwned) BY ClockStarts, ClockStep, PTL DEF ClockSpec
<1>2. ClockInv /\ TurnOwned => ScreenKeepsTime
  BY SleepIsShort, ShownLately, SleepsForAReason DEF ScreenKeepsTime, GapOf, TurnOwned
<1> QED BY <1>1, <1>2, PTL

-----------------------------------------------------------------------------
(* The prompt.                                                             *)

(* An editor over the atoms K: every buffer it may go back to, every cursor. *)
MarkType(K) == {m \in [buf : Seq(K), cur : Nat] : m.cur <= Len(m.buf)}

EditorType(K) ==
  [buf : Seq(K), cur : Nat, history : Seq(Seq(K)), hist_idx : SUBSET Nat,
   draft : Seq(K), pastes : Nat, undo : Seq(MarkType(K)), kill : Seq(K),
   typing : BOOLEAN]

EditorOK(e, K) ==
  /\ e \in EditorType(K) /\ e.cur <= Len(e.buf)
  /\ Len(e.history) <= MaxHistory /\ Len(e.undo) <= MaxUndo
  /\ e.hist_idx = {} \/ \E i \in 1..Len(e.history) : e.hist_idx = {i}

(* Nothing of the walk through history changes.                            *)
KeepsWalk(e, f) ==
  f.hist_idx = e.hist_idx /\ f.draft = e.draft /\ f.pastes = e.pastes

Pos(n) == n \in Nat \ {0}

(* The editor's bounds are numbers.                                         *)
LEMMA BoundsAreNat ==
  /\ Pos(MaxHistory) /\ Pos(MaxUndo) /\ Pos(EchoCap) /\ Pos(MaxLength)
  /\ MaxPastes \in Nat /\ DOMAIN Chips = 1..MaxPastes /\ MaxKeys \in Nat
BY ComposerAssumption DEF Pos, MaxPastes

-----------------------------------------------------------------------------
(* Sequences.                                                              *)

(* A sequence over a set is one over a larger set.                          *)
LEMMA SeqGrows ==
  ASSUME NEW S, NEW T, S \subseteq T PROVE Seq(S) \subseteq Seq(T)
<1> SUFFICES ASSUME NEW s \in Seq(S) PROVE s \in Seq(T) OBVIOUS
<1>1. s \in [1..Len(s) -> S] /\ Len(s) \in Nat BY LenProperties
<1>2. s \in [1..Len(s) -> T] BY <1>1
<1> QED BY <1>1, <1>2, SeqDef

(* What a prefix cut off leaves.                                            *)
LEMMA SuffixIs ==
  ASSUME NEW S, NEW s \in Seq(S), NEW gone \in 0..Len(s)
  PROVE  /\ SubSeq(s, gone + 1, Len(s)) \in Seq(S)
         /\ Len(SubSeq(s, gone + 1, Len(s))) = Len(s) - gone
         /\ \A i \in 1..Len(s) - gone : SubSeq(s, gone + 1, Len(s))[i] = s[gone + i]
<1> DEFINE n == Len(s)
           from == gone + 1
           t == SubSeq(s, from, n)
<1>1. n \in Nat /\ gone \in Nat /\ gone <= n BY LenProperties
<1>2. from \in Nat /\ from = gone + 1 BY <1>1
<1>3. \A i \in from .. n : s[i] \in S
  <2>1. \A i \in from .. n : i \in 1..n BY <1>1, <1>2
  <2> QED BY <2>1
<1> HIDE DEF n, from
<1>4. /\ t \in Seq(S)
      /\ Len(t) = IF from <= n THEN n - from + 1 ELSE 0
      /\ \A i \in 1..n - from + 1 : t[i] = s[from + i - 1]
  BY <1>1, <1>2, <1>3, SubSeqProperties
<1> HIDE DEF t
<1>5. Len(t) = n - gone
  <2>1. CASE from <= n BY <1>1, <1>2, <1>4, <2>1
  <2>2. CASE ~(from <= n)
    <3>1. n = gone BY <1>1, <1>2, <2>2
    <3>2. Len(t) = 0 BY <1>4, <2>2
    <3> QED BY <1>1, <3>1, <3>2
  <2> QED BY <2>1, <2>2
<1>6. ASSUME NEW i \in 1..n - gone PROVE t[i] = s[gone + i]
  <2>1. i \in 1..n - from + 1 /\ from + i - 1 = gone + i BY <1>1, <1>2
  <2>2. t[i] = s[from + i - 1] BY <1>4, <2>1
  <2> QED BY <2>1, <2>2
<1> QED BY <1>4, <1>5, <1>6 DEF t, n, from

(* The newest n keep their places counted from the end.                     *)
LEMMA NewestIs ==
  ASSUME NEW S, NEW s \in Seq(S), NEW n, Pos(n)
  PROVE  /\ Newest(s, n) \in Seq(S)
         /\ Len(Newest(s, n)) = IF Len(s) < n THEN Len(s) ELSE n
         /\ \A k \in 0..Len(Newest(s, n)) - 1 :
              Newest(s, n)[Len(Newest(s, n)) - k] = s[Len(s) - k]
<1> DEFINE m == IF Len(s) < n THEN Len(s) ELSE n
<1>1. Len(s) \in Nat /\ m \in Nat /\ m <= Len(s) BY DEF Pos
<1>2. Newest(s, n) = SubSeq(s, Len(s) - m + 1, Len(s)) BY DEF Newest
<1> HIDE DEF m
<1>4. /\ Newest(s, n) \in Seq(S) /\ Len(Newest(s, n)) = m
      /\ \A i \in 1..m : Newest(s, n)[i] = s[Len(s) - m + i]
  <2> DEFINE gone == Len(s) - m
  <2>1. gone \in 0..Len(s) /\ Len(s) - gone = m BY <1>1
  <2>2. Newest(s, n) = SubSeq(s, gone + 1, Len(s)) BY <1>2
  <2> HIDE DEF gone
  <2>3. /\ Newest(s, n) \in Seq(S) /\ Len(Newest(s, n)) = m
        /\ \A i \in 1..m : Newest(s, n)[i] = s[gone + i]
    BY <2>1, <2>2, SuffixIs
  <2> QED BY <2>3 DEF gone
<1>5. ASSUME NEW k \in 0..m - 1 PROVE Newest(s, n)[m - k] = s[Len(s) - k]
  <2>1. m - k \in 1..m /\ Len(s) - m + (m - k) = Len(s) - k BY <1>1
  <2> QED BY <1>4, <2>1
<1>6. Len(Newest(s, n)) = IF Len(s) < n THEN Len(s) ELSE n BY <1>4 DEF m
<1> QED BY <1>4, <1>5, <1>6

-----------------------------------------------------------------------------
(* The lines of the buffer.                                                *)

(* The start of the line is at or before the cursor ...                     *)
LEMMA LineStartIs ==
  ASSUME NEW e, e.cur \in Nat PROVE LineStart(e) \in 0..e.cur
<1> DEFINE nl == {i \in 1 .. e.cur : e.buf[i] = "newline"}
<1>1. CASE nl = {} BY <1>1 DEF LineStart
<1>2. CASE nl # {}
  <2>0. nl \in SUBSET (0..e.cur) OBVIOUS
  <2>1. LineStart(e) = CHOOSE i \in nl : \A j \in nl : j <= i BY <1>2 DEF LineStart
  <2> HIDE DEF nl
  <2>2. \E i \in nl : \A j \in nl : j <= i BY <1>2, <2>0, MaxOf
  <2>3. LineStart(e) \in nl BY <2>1, <2>2
  <2> QED BY <2>0, <2>3
<1> QED BY <1>1, <1>2

(* ... and its end at or after it.                                          *)
LEMMA LineEndIs ==
  ASSUME NEW e, e.cur \in Nat, Len(e.buf) \in Nat, e.cur <= Len(e.buf)
  PROVE  LineEnd(e) \in e.cur..Len(e.buf)
<1> DEFINE nl == {i \in e.cur + 1 .. Len(e.buf) : e.buf[i] = "newline"}
<1>1. CASE nl = {} BY <1>1 DEF LineEnd
<1>2. CASE nl # {}
  <2> DEFINE first == CHOOSE i \in nl : \A j \in nl : i <= j
  <2>0. nl \in SUBSET Nat /\ \A i \in nl : e.cur + 1 <= i /\ i <= Len(e.buf) OBVIOUS
  <2>1. LineEnd(e) = first - 1 BY <1>2 DEF LineEnd
  <2> HIDE DEF nl
  <2>2. \E i \in nl : \A j \in nl : i <= j BY <1>2, <2>0, MinOf
  <2>3. first \in nl BY <2>2
  <2> HIDE DEF first
  <2> QED BY <2>0, <2>1, <2>3
<1> QED BY <1>1, <1>2

-----------------------------------------------------------------------------
(* One edit.                                                               *)

(* Moving the cursor inside the buffer keeps the editor as it should be.    *)
LEMMA CursorMoves ==
  ASSUME NEW K, NEW e, EditorOK(e, K), NEW at \in 0..Len(e.buf)
  PROVE  /\ EditorOK([e EXCEPT !.cur = at], K)
         /\ EditorOK([e EXCEPT !.cur = at, !.typing = FALSE], K)
         /\ KeepsWalk(e, [e EXCEPT !.cur = at])
         /\ KeepsWalk(e, [e EXCEPT !.cur = at, !.typing = FALSE])
<1>1. Len(e.buf) \in Nat BY DEF EditorOK, EditorType
<1>2. at \in Nat /\ at <= Len(e.buf) BY <1>1
<1> DEFINE f == [e EXCEPT !.cur = at]
           g == [f EXCEPT !.typing = FALSE]
<1>3. EditorOK(f, K) /\ KeepsWalk(e, f) BY <1>2 DEF EditorOK, EditorType, KeepsWalk
<1> HIDE DEF f
<1>4. EditorOK(g, K) /\ KeepsWalk(f, g) BY <1>3 DEF EditorOK, EditorType, KeepsWalk
<1>5. g = [e EXCEPT !.cur = at, !.typing = FALSE] BY DEF f, EditorOK, EditorType
<1> QED BY <1>3, <1>4, <1>5 DEF KeepsWalk, f

(* A mark is a buffer with its cursor inside.                               *)
LEMMA MarkIs ==
  ASSUME NEW K, NEW e, EditorOK(e, K)
  PROVE  [buf |-> e.buf, cur |-> e.cur] \in MarkType(K)
BY DEF EditorOK, EditorType, MarkType

(* Taking an undo mark keeps the editor as it should be.                    *)
LEMMA SnapshotOK ==
  ASSUME NEW K, NEW e, EditorOK(e, K), NEW typed \in BOOLEAN
  PROVE  /\ EditorOK(snapshot_of(e, typed), K) /\ KeepsWalk(e, snapshot_of(e, typed))
         /\ snapshot_of(e, typed).buf = e.buf /\ snapshot_of(e, typed).cur = e.cur
         /\ snapshot_of(e, typed).history = e.history
         /\ snapshot_of(e, typed).kill = e.kill
<1>1. CASE typed /\ e.typing BY <1>1 DEF snapshot_of, KeepsWalk
<1>2. CASE ~(typed /\ e.typing)
  <2> DEFINE mark == [buf |-> e.buf, cur |-> e.cur]
             kept == Newest(Append(e.undo, mark), MaxUndo)
             f == [e EXCEPT !.typing = typed]
             g == [f EXCEPT !.undo = kept]
  <2>1. mark \in MarkType(K) BY MarkIs
  <2>2. e.undo \in Seq(MarkType(K)) BY DEF EditorOK, EditorType
  <2> HIDE DEF mark
  <2>3. Append(e.undo, mark) \in Seq(MarkType(K)) BY <2>1, <2>2, AppendProperties
  <2>4. kept \in Seq(MarkType(K)) /\ Len(kept) <= MaxUndo
    <3>1. /\ kept \in Seq(MarkType(K))
          /\ Len(kept) = IF Len(Append(e.undo, mark)) < MaxUndo THEN Len(Append(e.undo, mark)) ELSE MaxUndo
      BY <2>3, NewestIs, BoundsAreNat
    <3>2. Len(Append(e.undo, mark)) \in Nat BY <2>3, LenProperties
    <3> HIDE DEF kept
    <3> QED BY <3>1, <3>2, BoundsAreNat DEF Pos
  <2>5. snapshot_of(e, typed) = g
    BY <1>2 DEF snapshot_of, mark, EditorOK, EditorType
  <2> HIDE DEF kept
  <2>6. EditorOK(f, K) /\ KeepsWalk(e, f) /\ f.buf = e.buf /\ f.cur = e.cur
        /\ f.history = e.history /\ f.kill = e.kill
    BY DEF EditorOK, EditorType, KeepsWalk
  <2> HIDE DEF f
  <2>7. EditorOK(g, K) /\ KeepsWalk(f, g) /\ g.buf = f.buf /\ g.cur = f.cur
        /\ g.history = f.history /\ g.kill = f.kill
    BY <2>4, <2>6 DEF EditorOK, EditorType, KeepsWalk
  <2> QED BY <2>5, <2>6, <2>7 DEF KeepsWalk
<1> QED BY <1>1, <1>2

(* So does replacing the buffer ...                                         *)
LEMMA ReplaceOK ==
  ASSUME NEW K, NEW e, EditorOK(e, K), NEW from \in 0..Len(e.buf),
         NEW to \in from..Len(e.buf), NEW s \in Seq(K)
  PROVE  /\ EditorOK(Replace(e, from, to, s), K) /\ KeepsWalk(e, Replace(e, from, to, s))
         /\ Replace(e, from, to, s).history = e.history
         /\ Replace(e, from, to, s).kill = e.kill
<1> DEFINE head == SubSeq(e.buf, 1, from)
           tail == SubSeq(e.buf, to + 1, Len(e.buf))
           text == head \o s \o tail
           f == [e EXCEPT !.buf = text]
           at == from + Len(s)
           g == [f EXCEPT !.cur = at]
<1>1. e.buf \in Seq(K) /\ Len(e.buf) \in Nat /\ from \in Nat /\ to \in Nat /\ Len(s) \in Nat
  BY DEF EditorOK, EditorType
<1>2. \A i \in 1..Len(e.buf) : e.buf[i] \in K BY <1>1
<1>3. head \in Seq(K) /\ Len(head) = from
  <2>1. \A i \in 1..from : e.buf[i] \in K BY <1>1, <1>2
  <2> QED BY <1>1, <2>1, SubSeqProperties
<1>4. tail \in Seq(K) /\ Len(tail) \in Nat
  <2>1. \A i \in to + 1..Len(e.buf) : e.buf[i] \in K BY <1>1, <1>2
  <2> QED BY <1>1, <2>1, SubSeqProperties
<1> HIDE DEF head, tail
<1>5. head \o s \in Seq(K) /\ Len(head \o s) = from + Len(s)
  BY <1>1, <1>3, ConcatProperties
<1>6. text \in Seq(K) /\ Len(text) = from + Len(s) + Len(tail)
  BY <1>4, <1>5, ConcatProperties
<1>7. Replace(e, from, to, s) = g
  BY DEF Replace, head, tail, EditorOK, EditorType
<1> HIDE DEF text
<1>8. /\ f \in EditorType(K) /\ f.buf = text /\ KeepsWalk(e, f)
      /\ f.history = e.history /\ f.kill = e.kill /\ f.undo = e.undo
  BY <1>6 DEF EditorOK, EditorType, KeepsWalk
<1>a. at \in Nat /\ at <= Len(text) BY <1>1, <1>4, <1>6
<1> HIDE DEF f, at
<1>9. /\ g \in EditorType(K) /\ g.buf = text /\ g.cur = at /\ KeepsWalk(f, g)
      /\ g.history = f.history /\ g.kill = f.kill /\ g.undo = f.undo
  BY <1>a, <1>8 DEF EditorType, KeepsWalk
<1>10. g.cur <= Len(g.buf) BY <1>a, <1>9
<1> HIDE DEF g
<1>11. EditorOK(g, K) BY <1>8, <1>9, <1>10 DEF EditorOK, KeepsWalk
<1> QED BY <1>7, <1>8, <1>9, <1>11 DEF KeepsWalk

(* ... and an edit, which does both.                                        *)
LEMMA EditedOK ==
  ASSUME NEW K, NEW e, EditorOK(e, K)
  PROVE  /\ EditorOK(Edited(e), K) /\ KeepsWalk(e, Edited(e))
         /\ Edited(e).buf = e.buf /\ Edited(e).cur = e.cur
         /\ Edited(e).history = e.history /\ Edited(e).kill = e.kill
BY SnapshotOK DEF Edited

(* What two edits keep of the walk, both keep.                              *)
LEMMA KeepsTwice ==
  \A e, f, g : KeepsWalk(e, f) /\ KeepsWalk(f, g) => KeepsWalk(e, g)
BY DEF KeepsWalk

(* f is e after an edit that leaves the walk through history alone.        *)
EditOf(K, e, f) == EditorOK(f, K) /\ KeepsWalk(e, f)

(* Typing.                                                                  *)
LEMMA InsertOK ==
  ASSUME NEW K, NEW e, EditorOK(e, K), NEW s \in Seq(K)
  PROVE  EditOf(K, e, Insert(e, s))
<1>1. e.cur \in 0..Len(e.buf) /\ e.cur \in e.cur..Len(e.buf) BY DEF EditorOK, EditorType
<1> QED BY <1>1, ReplaceOK DEF Insert, EditOf

(* Cutting.                                                                 *)
LEMMA CutOK ==
  ASSUME NEW K, NEW e, EditorOK(e, K), NEW from \in 0..Len(e.buf), NEW to \in from..Len(e.buf)
  PROVE  EditOf(K, e, Replace(Edited(e), from, to, <<>>))
<1>1. /\ EditorOK(Edited(e), K) /\ KeepsWalk(e, Edited(e)) /\ Edited(e).buf = e.buf
  BY EditedOK
<1>2. <<>> \in Seq(K) OBVIOUS
<1>3. EditOf(K, Edited(e), Replace(Edited(e), from, to, <<>>))
  BY <1>1, <1>2, ReplaceOK DEF EditOf
<1> QED BY <1>1, <1>3, KeepsTwice DEF EditOf

(* Cutting into the kill buffer.                                            *)
LEMMA KillOK ==
  ASSUME NEW K, NEW e, EditorOK(e, K), NEW from \in 0..Len(e.buf), NEW to \in from..Len(e.buf),
         NEW f \in KillRange(e, from, to)
  PROVE  EditOf(K, e, f)
<1> DEFINE cut == Replace(Edited(e), from, to, <<>>)
           gone == SubSeq(e.buf, from + 1, to)
<1>1. EditOf(K, e, cut) BY CutOK
<1>2. gone \in Seq(K)
  <2>1. e.buf \in Seq(K) /\ from \in Nat /\ to \in Nat /\ to <= Len(e.buf)
    BY DEF EditorOK, EditorType
  <2>2. \A i \in from + 1 .. to : e.buf[i] \in K BY <2>1
  <2> QED BY <2>1, <2>2, SubSeqProperties
<1>3. f = [cut EXCEPT !.kill = gone] BY DEF KillRange
<1> HIDE DEF cut, gone
<1> QED BY <1>1, <1>2, <1>3 DEF EditOf, EditorOK, EditorType, KeepsWalk

(* Undoing.                                                                 *)
LEMMA UndoOK ==
  ASSUME NEW K, NEW e, EditorOK(e, K), NEW f \in Undo(e)
  PROVE  EditOf(K, e, f)
<1> DEFINE mark == Last(e.undo)
           rest == Front(e.undo)
           g1 == [e EXCEPT !.buf = mark.buf]
           g2 == [g1 EXCEPT !.cur = mark.cur]
           g3 == [g2 EXCEPT !.undo = rest]
           g4 == [g3 EXCEPT !.typing = FALSE]
<1>1. e.undo \in Seq(MarkType(K)) /\ e.undo # <<>> /\ Len(e.undo) <= MaxUndo
  BY DEF Undo, EditorOK, EditorType
<1>2. mark \in MarkType(K)
  <2>1. Len(e.undo) \in 1..Len(e.undo) BY <1>1, EmptySeq, LenProperties
  <2> QED BY <1>1, <2>1 DEF Last
<1>3. rest \in Seq(MarkType(K)) /\ Len(rest) <= MaxUndo
  <2>1. Len(e.undo) \in Nat /\ \A i \in 1..Len(e.undo) - 1 : e.undo[i] \in MarkType(K)
    BY <1>1
  <2>2. /\ rest \in Seq(MarkType(K))
        /\ Len(rest) = IF 1 <= Len(e.undo) - 1 THEN Len(e.undo) - 1 - 1 + 1 ELSE 0
    BY <2>1, SubSeqProperties DEF Front
  <2> HIDE DEF rest
  <2> QED BY <1>1, <2>1, <2>2, BoundsAreNat DEF Pos
<1>4. f = g4 BY DEF Undo, EditorOK, EditorType
<1>5. mark.buf \in Seq(K) /\ mark.cur \in Nat /\ mark.cur <= Len(mark.buf)
  BY <1>2 DEF MarkType
<1> HIDE DEF mark, rest
<1>6. g1 \in EditorType(K) /\ g1.buf = mark.buf /\ KeepsWalk(e, g1) /\ g1.history = e.history
  BY <1>5 DEF EditorOK, EditorType, KeepsWalk
<1> HIDE DEF g1
<1>7. /\ g2 \in EditorType(K) /\ g2.buf = mark.buf /\ g2.cur = mark.cur
      /\ KeepsWalk(g1, g2) /\ g2.history = g1.history
  BY <1>5, <1>6 DEF EditorType, KeepsWalk
<1> HIDE DEF g2
<1>8. /\ g3 \in EditorType(K) /\ g3.buf = mark.buf /\ g3.cur = mark.cur /\ g3.undo = rest
      /\ KeepsWalk(g2, g3) /\ g3.history = g2.history
  BY <1>3, <1>7 DEF EditorType, KeepsWalk
<1> HIDE DEF g3
<1>9. /\ g4 \in EditorType(K) /\ g4.buf = mark.buf /\ g4.cur = mark.cur /\ g4.undo = rest
      /\ KeepsWalk(g3, g4) /\ g4.history = g3.history
  BY <1>8 DEF EditorType, KeepsWalk
<1> HIDE DEF g4
<1>10. KeepsWalk(e, g4) BY <1>6, <1>7, <1>8, <1>9, KeepsTwice
<1>11. EditorOK(g4, K)
  BY <1>3, <1>5, <1>6, <1>7, <1>8, <1>9, <1>10 DEF EditorOK, KeepsWalk
<1> QED BY <1>4, <1>10, <1>11 DEF EditOf

(* The line of the cursor is inside the buffer.                             *)
LEMMA LinesAreInside ==
  ASSUME NEW K, NEW e, EditorOK(e, K)
  PROVE  LineStart(e) \in 0..e.cur /\ LineEnd(e) \in e.cur..Len(e.buf) /\ e.cur \in 0..Len(e.buf)
<1>1. e.cur \in Nat /\ Len(e.buf) \in Nat /\ e.cur <= Len(e.buf) BY DEF EditorOK, EditorType
<1> QED BY <1>1, LineStartIs, LineEndIs

(* A row up or down where there is one.                                     *)
LEMMA VerticalOK ==
  ASSUME NEW K, NEW e, EditorOK(e, K), NEW up \in BOOLEAN,
         up => LineStart(e) > 0, ~up => LineEnd(e) < Len(e.buf)
  PROVE  EditOf(K, e, Vertical(e, up))
<1> DEFINE start == LineStart(e)
           end == LineEnd(e)
           target == IF up THEN LineStart([e EXCEPT !.cur = start - 1]) ELSE end + 1
           stop == LineEnd([e EXCEPT !.cur = target])
           wish == target + (e.cur - start)
           at == IF wish < stop THEN wish ELSE stop
<1>1. start \in 0..e.cur /\ end \in e.cur..Len(e.buf) /\ e.cur \in 0..Len(e.buf)
  BY LinesAreInside
<1>2. Len(e.buf) \in Nat BY DEF EditorOK, EditorType
<1>3. target \in 0..Len(e.buf)
  <2>1. CASE up
    <3> DEFINE d == [e EXCEPT !.cur = start - 1]
    <3>1. start - 1 \in 0..Len(e.buf) BY <1>1, <1>2, <2>1
    <3> HIDE DEF start
    <3>2. d.cur = start - 1 /\ d.buf = e.buf BY DEF EditorOK, EditorType
    <3> HIDE DEF d
    <3>3. LineStart(d) \in 0..start - 1 BY <3>1, <3>2, LineStartIs
    <3>4. target = LineStart(d) BY <2>1 DEF d, start
    <3> HIDE DEF target
    <3> QED BY <1>2, <3>1, <3>3, <3>4
  <2>2. CASE ~up BY <1>1, <1>2, <2>2
  <2> QED BY <2>1, <2>2
<1> HIDE DEF target
<1>4. stop \in target..Len(e.buf)
  <2> DEFINE d == [e EXCEPT !.cur = target]
  <2>1. d.cur = target /\ d.buf = e.buf BY DEF EditorOK, EditorType
  <2> HIDE DEF d
  <2>2. LineEnd(d) \in target..Len(e.buf) BY <1>2, <1>3, <2>1, LineEndIs
  <2> QED BY <2>2 DEF d
<1> HIDE DEF stop, start
<1>5. at \in 0..Len(e.buf) BY <1>1, <1>2, <1>3, <1>4
<1>6. Vertical(e, up) = [e EXCEPT !.cur = at, !.typing = FALSE]
  BY DEF Vertical, start, stop, target
<1> DEFINE moved == [e EXCEPT !.cur = at, !.typing = FALSE]
<1> HIDE DEF at
<1>7. EditorOK(moved, K) /\ KeepsWalk(e, moved) BY <1>5, CursorMoves
<1> HIDE DEF moved
<1>8. Vertical(e, up) = moved BY <1>6 DEF moved
<1> QED BY <1>7, <1>8 DEF EditOf

-----------------------------------------------------------------------------
(* What the buffer may hold: a chip stands for a paste that was made.      *)

Known(pastes) == Typed \cup {"newline", "/", "/cmd"} \cup {Chips[n] : n \in 1..pastes}

EditorKnown(e) == EditorOK(e, Known(e.pastes)) /\ e.pastes \in 0..MaxPastes

(* The walk through history goes on, or begins at what is being written.   *)
Walked(e, f) ==
  f.hist_idx # {} => f.draft = IF e.hist_idx = {} THEN e.buf ELSE e.draft

EditStep(e, f) == EditorKnown(f) /\ Walked(e, f)

(* An edit that leaves the walk alone is a step of it.                      *)
LEMMA EditIsStep ==
  \A e, f : EditorKnown(e) /\ EditOf(Known(e.pastes), e, f) => EditStep(e, f)
BY DEF EditorKnown, EditOf, KeepsWalk, EditStep, Walked

(* A new chip leaves what is known of the editor as it was.                 *)
LEMMA EditorGrows ==
  ASSUME NEW K, NEW L, K \subseteq L, NEW e, EditorOK(e, K)
  PROVE  EditorOK(e, L)
<1>1. Seq(K) \subseteq Seq(L) BY SeqGrows
<1>2. MarkType(K) \subseteq MarkType(L) BY <1>1 DEF MarkType
<1>3. Seq(MarkType(K)) \subseteq Seq(MarkType(L)) /\ Seq(Seq(K)) \subseteq Seq(Seq(L))
  BY <1>1, <1>2, SeqGrows
<1>4. e \in EditorType(L) BY <1>1, <1>3 DEF EditorOK, EditorType
<1> QED BY <1>4 DEF EditorOK

(* Pasting: a small paste is text, a large one a new chip.                  *)
LEMMA PasteOK ==
  ASSUME NEW e, EditorKnown(e), NEW f \in Paste(e)
  PROVE  EditStep(e, f)
<1> DEFINE p == e.pastes + 1
           g == [Edited(e) EXCEPT !.pastes = p]
           chip == <<Chips[p]>>
<1>0. e.pastes \in Nat /\ Edited(e).pastes = e.pastes
  BY BoundsAreNat, EditedOK DEF EditorKnown, KeepsWalk
<1>1. e.pastes < MaxPastes /\ f = Insert(g, chip)
  <2>1. e.pastes < MaxPastes BY DEF Paste
  <2>2. f = Insert([Edited(e) EXCEPT !.pastes = Edited(e).pastes + 1], <<Chips[e.pastes + 1]>>)
    BY <2>1 DEF Paste
  <2> QED BY <1>0, <2>1, <2>2
<1>2. p \in 0..MaxPastes /\ p \in Nat BY <1>0, <1>1, BoundsAreNat
<1>3. Known(e.pastes) \subseteq Known(p) BY <1>0, <1>2 DEF Known
<1>4. /\ EditorOK(Edited(e), Known(p)) /\ KeepsWalk(e, Edited(e))
  BY <1>3, EditedOK, EditorGrows DEF EditorKnown
<1>5. chip \in Seq(Known(p))
  <2>1. p \in 1..p BY <1>0, <1>2
  <2>2. Chips[p] \in Known(p) BY <2>1 DEF Known
  <2> QED BY <2>2
<1> HIDE DEF chip, p
<1>6. EditorOK(g, Known(p)) /\ g.pastes = p /\ g.hist_idx = e.hist_idx /\ g.draft = e.draft
  <2> DEFINE K == Known(p)
             d == Edited(e)
  <2>1. EditorOK(d, K) /\ KeepsWalk(e, d) BY <1>4
  <2> HIDE DEF K, d
  <2>2. EditorOK([d EXCEPT !.pastes = p], K) BY <1>2, <2>1 DEF EditorOK, EditorType
  <2>3. /\ [d EXCEPT !.pastes = p].pastes = p
        /\ [d EXCEPT !.pastes = p].hist_idx = e.hist_idx
        /\ [d EXCEPT !.pastes = p].draft = e.draft
    BY <2>1 DEF EditorOK, EditorType, KeepsWalk
  <2> QED BY <2>2, <2>3 DEF K, d
<1> HIDE DEF g
<1>7. EditOf(Known(p), g, f) BY <1>1, <1>5, <1>6, InsertOK
<1> QED BY <1>2, <1>6, <1>7 DEF EditOf, EditStep, EditorKnown, Walked, KeepsWalk

(* Recalling a prompt: the buffer is one of the history.                    *)
LEMMA RecallOK ==
  ASSUME NEW K, NEW e, EditorOK(e, K), NEW idx \in 1..Len(e.history)
  PROVE  /\ EditorOK(Recall(e, idx), K) /\ Recall(e, idx).pastes = e.pastes
         /\ Recall(e, idx).draft = e.draft
<1> DEFINE entry == e.history[idx]
           f == [e EXCEPT !.hist_idx = {idx}]
           g == [f EXCEPT !.buf = entry]
           h == [g EXCEPT !.cur = Len(entry)]
<1>1. e.history \in Seq(Seq(K)) /\ Len(e.history) \in Nat /\ idx \in Nat
  BY DEF EditorOK, EditorType
<1>2. entry \in Seq(K) /\ Len(entry) \in Nat
  <2>1. entry \in Seq(K) BY <1>1
  <2> QED BY <2>1, LenProperties
<1>3. Recall(e, idx) = h BY DEF Recall, EditorOK, EditorType
<1> HIDE DEF entry
<1>4. /\ f \in EditorType(K) /\ f.hist_idx = {idx} /\ f.history = e.history
      /\ f.pastes = e.pastes /\ f.draft = e.draft /\ f.undo = e.undo
  BY <1>1 DEF EditorOK, EditorType
<1> HIDE DEF f
<1>5. /\ g \in EditorType(K) /\ g.hist_idx = {idx} /\ g.history = e.history /\ g.buf = entry
      /\ g.pastes = e.pastes /\ g.draft = e.draft /\ g.undo = e.undo
  BY <1>2, <1>4 DEF EditorType
<1> HIDE DEF g
<1>6. /\ h \in EditorType(K) /\ h.hist_idx = {idx} /\ h.history = e.history /\ h.buf = entry
      /\ h.pastes = e.pastes /\ h.draft = e.draft /\ h.undo = e.undo /\ h.cur = Len(entry)
  BY <1>2, <1>5 DEF EditorType
<1> HIDE DEF h
<1>7. EditorOK(h, K) BY <1>2, <1>6 DEF EditorOK
<1> QED BY <1>3, <1>6, <1>7

(* Up through history: the draft is put aside once.                         *)
LEMMA PrevOK ==
  ASSUME NEW e, EditorKnown(e), NEW f \in history_prev(e)
  PROVE  EditStep(e, f)
<1> DEFINE K == Known(e.pastes)
<1>a. EditorOK(e, K) /\ e.history # <<>> BY DEF EditorKnown, history_prev
<1> HIDE DEF K
<1>0. EditorOK(e, K) /\ e.history \in Seq(Seq(K)) /\ Len(e.history) \in Nat /\ e.history # <<>>
  BY <1>a DEF EditorOK, EditorType
<1>1. Len(e.history) # 0 BY <1>0, EmptySeq
<1>2. CASE e.hist_idx = {}
  <2> DEFINE g == [e EXCEPT !.draft = e.buf]
  <2>1. f = Recall(g, Len(e.history)) BY <1>0, <1>2 DEF history_prev, Nothing
  <2>2. EditorOK(g, K) /\ g.pastes = e.pastes /\ g.draft = e.buf /\ g.history = e.history
    BY <1>0 DEF EditorOK, EditorType
  <2> HIDE DEF g
  <2>3. EditorOK(f, K) /\ f.pastes = e.pastes /\ f.draft = e.buf
    BY <1>0, <1>1, <2>1, <2>2, RecallOK
  <2> QED BY <1>2, <2>3 DEF EditStep, EditorKnown, Walked, K
<1>3. CASE e.hist_idx # {}
  <2>1. PICK i \in 1..Len(e.history) : e.hist_idx = {i} BY <1>0, <1>3 DEF EditorOK
  <2>2. i # 1 /\ f = Recall(e, i - 1) BY <1>3, <2>1 DEF history_prev, Nothing
  <2>3. EditorOK(f, K) /\ f.pastes = e.pastes /\ f.draft = e.draft
    BY <1>0, <2>1, <2>2, RecallOK
  <2> QED BY <1>3, <2>3 DEF EditStep, EditorKnown, Walked, K
<1> QED BY <1>2, <1>3

(* Down through history: past its end, the draft comes back.                *)
LEMMA NextOK ==
  ASSUME NEW e, EditorKnown(e), NEW f \in history_next(e)
  PROVE  EditStep(e, f)
<1> DEFINE K == Known(e.pastes)
<1>a. EditorOK(e, K) BY DEF EditorKnown
<1> HIDE DEF K
<1>0. EditorOK(e, K) /\ e \in EditorType(K) /\ Len(e.history) \in Nat /\ <<>> \in Seq(K)
  <2>1. e \in EditorType(K) BY <1>a DEF EditorOK
  <2>2. e.history \in Seq(Seq(K)) BY <2>1 DEF EditorType
  <2> QED BY <1>a, <2>1, <2>2, LenProperties
<1>1. e.hist_idx # {} BY DEF history_next, Nothing
<1>2. PICK i \in 1..Len(e.history) : e.hist_idx = {i} BY <1>0, <1>1 DEF EditorOK
<1>3. CASE i # Len(e.history)
  <2>1. f = Recall(e, i + 1) BY <1>2, <1>3 DEF history_next, Nothing
  <2>2. EditorOK(f, K) /\ f.pastes = e.pastes /\ f.draft = e.draft
    BY <1>0, <1>2, <1>3, <2>1, RecallOK
  <2> QED BY <1>1, <2>2 DEF EditStep, EditorKnown, Walked, K
<1>4. CASE i = Len(e.history)
  <2> DEFINE g1 == [e EXCEPT !.hist_idx = {}]
             g2 == [g1 EXCEPT !.buf = e.draft]
             g3 == [g2 EXCEPT !.cur = Len(e.draft)]
             g4 == [g3 EXCEPT !.draft = <<>>]
  <2>1. f = g4 BY <1>0, <1>2, <1>4 DEF history_next, Nothing, EditorType
  <2>2. e.draft \in Seq(K) /\ Len(e.draft) \in Nat BY <1>0 DEF EditorType
  <2>3. /\ g1 \in EditorType(K) /\ g1.hist_idx = {} /\ g1.pastes = e.pastes
        /\ g1.undo = e.undo /\ g1.history = e.history
    BY <1>0 DEF EditorType
  <2> HIDE DEF g1
  <2>4. /\ g2 \in EditorType(K) /\ g2.hist_idx = {} /\ g2.pastes = e.pastes
        /\ g2.undo = e.undo /\ g2.history = e.history /\ g2.buf = e.draft
    BY <2>2, <2>3 DEF EditorType
  <2> HIDE DEF g2
  <2>5. /\ g3 \in EditorType(K) /\ g3.hist_idx = {} /\ g3.pastes = e.pastes
        /\ g3.undo = e.undo /\ g3.history = e.history /\ g3.buf = e.draft
        /\ g3.cur = Len(e.draft)
    BY <2>2, <2>4 DEF EditorType
  <2> HIDE DEF g3
  <2>6. /\ g4 \in EditorType(K) /\ g4.hist_idx = {} /\ g4.pastes = e.pastes
        /\ g4.undo = e.undo /\ g4.history = e.history /\ g4.buf = e.draft
        /\ g4.cur = Len(e.draft)
    BY <1>0, <2>5 DEF EditorType
  <2> HIDE DEF g4
  <2>7. EditorOK(g4, K) BY <1>0, <2>2, <2>6 DEF EditorOK
  <2> QED BY <2>1, <2>6, <2>7 DEF EditStep, EditorKnown, Walked, K
<1> QED BY <1>3, <1>4

(* Clearing the buffer.                                                     *)
LEMMA ClearedOK ==
  ASSUME NEW e, EditorKnown(e)
  PROVE  EditorKnown(Cleared(e)) /\ Cleared(e).hist_idx = {} /\ Cleared(e).buf = <<>>
         /\ Cleared(e).cur = 0
<1> DEFINE K == Known(e.pastes)
           d == IF e.buf = <<>> THEN e ELSE Edited(e)
           g1 == [d EXCEPT !.buf = <<>>]
           g2 == [g1 EXCEPT !.cur = 0]
           g3 == [g2 EXCEPT !.hist_idx = {}]
           g4 == [g3 EXCEPT !.draft = <<>>]
<1>a. EditorOK(e, K) BY DEF EditorKnown
<1> HIDE DEF K
<1>1. EditorOK(d, K) /\ d.pastes = e.pastes BY <1>a, EditedOK DEF KeepsWalk
<1>2. Cleared(e) = g4 BY DEF Cleared, Nothing, EditorOK, EditorType
<1>3. <<>> \in Seq(K) /\ Len(<<>>) = 0 OBVIOUS
<1> HIDE DEF d
<1>4. /\ g1 \in EditorType(K) /\ g1.buf = <<>> /\ g1.pastes = d.pastes
      /\ g1.undo = d.undo /\ g1.history = d.history
  BY <1>1, <1>3 DEF EditorOK, EditorType
<1> HIDE DEF g1
<1>5. /\ g2 \in EditorType(K) /\ g2.buf = <<>> /\ g2.pastes = d.pastes /\ g2.cur = 0
      /\ g2.undo = d.undo /\ g2.history = d.history
  BY <1>4 DEF EditorType
<1> HIDE DEF g2
<1>6. /\ g3 \in EditorType(K) /\ g3.buf = <<>> /\ g3.pastes = d.pastes /\ g3.cur = 0
      /\ g3.undo = d.undo /\ g3.history = d.history /\ g3.hist_idx = {}
  BY <1>5 DEF EditorType
<1> HIDE DEF g3
<1>7. /\ g4 \in EditorType(K) /\ g4.buf = <<>> /\ g4.pastes = d.pastes /\ g4.cur = 0
      /\ g4.undo = d.undo /\ g4.history = d.history /\ g4.hist_idx = {}
  BY <1>3, <1>6 DEF EditorType
<1> HIDE DEF g4
<1>8. EditorOK(g4, K) BY <1>1, <1>3, <1>7 DEF EditorOK
<1> QED BY <1>1, <1>2, <1>7, <1>8 DEF EditorKnown, K

(* Taking the prompt: it joins the history and the buffer is empty.         *)
LEMMA TakenOK ==
  ASSUME NEW e, EditorKnown(e)
  PROVE  EditorKnown(Taken(e)) /\ Taken(e).hist_idx = {} /\ Taken(e).buf = <<>>
         /\ Taken(e).cur = 0
<1> DEFINE K == Known(e.pastes)
           kept == IF e.history # <<>> /\ Last(e.history) = e.buf THEN e.history
                   ELSE Newest(Append(e.history, e.buf), MaxHistory)
           g1 == [e EXCEPT !.buf = <<>>]
           g2 == [g1 EXCEPT !.cur = 0]
           g3 == [g2 EXCEPT !.hist_idx = {}]
           g4 == [g3 EXCEPT !.draft = <<>>]
           g5 == [g4 EXCEPT !.undo = <<>>]
           g6 == [g5 EXCEPT !.typing = FALSE]
           g7 == [g6 EXCEPT !.history = kept]
<1>a. EditorOK(e, K) BY DEF EditorKnown
<1> HIDE DEF K
<1>0. e \in EditorType(K) BY <1>a DEF EditorOK
<1>1. kept \in Seq(Seq(K)) /\ Len(kept) <= MaxHistory
  <2>1. e.history \in Seq(Seq(K)) /\ e.buf \in Seq(K) /\ Len(e.history) <= MaxHistory
    BY <1>0, <1>a DEF EditorType, EditorOK
  <2> DEFINE all == Append(e.history, e.buf)
  <2>2. all \in Seq(Seq(K)) /\ Len(all) \in Nat BY <2>1, AppendProperties
  <2> HIDE DEF all
  <2>3. /\ Newest(all, MaxHistory) \in Seq(Seq(K))
        /\ Len(Newest(all, MaxHistory)) = IF Len(all) < MaxHistory THEN Len(all) ELSE MaxHistory
    BY <2>2, NewestIs, BoundsAreNat
  <2>4. Len(Newest(all, MaxHistory)) <= MaxHistory BY <2>2, <2>3, BoundsAreNat DEF Pos
  <2> QED BY <2>1, <2>3, <2>4 DEF all
<1>2. Taken(e) = g7 BY <1>0 DEF Taken, Nothing, EditorType
<1>3. <<>> \in Seq(K) /\ Len(<<>>) = 0 /\ <<>> \in Seq(MarkType(K)) OBVIOUS
<1> HIDE DEF kept
<1>4. g1 \in EditorType(K) /\ g1.buf = <<>> /\ g1.pastes = e.pastes
  BY <1>0, <1>3 DEF EditorType
<1> HIDE DEF g1
<1>5. g2 \in EditorType(K) /\ g2.buf = <<>> /\ g2.pastes = e.pastes /\ g2.cur = 0
  BY <1>4 DEF EditorType
<1> HIDE DEF g2
<1>6. /\ g3 \in EditorType(K) /\ g3.buf = <<>> /\ g3.pastes = e.pastes /\ g3.cur = 0
      /\ g3.hist_idx = {}
  BY <1>5 DEF EditorType
<1> HIDE DEF g3
<1>7. /\ g4 \in EditorType(K) /\ g4.buf = <<>> /\ g4.pastes = e.pastes /\ g4.cur = 0
      /\ g4.hist_idx = {}
  BY <1>3, <1>6 DEF EditorType
<1> HIDE DEF g4
<1>8. /\ g5 \in EditorType(K) /\ g5.buf = <<>> /\ g5.pastes = e.pastes /\ g5.cur = 0
      /\ g5.hist_idx = {} /\ g5.undo = <<>>
  BY <1>3, <1>7 DEF EditorType
<1> HIDE DEF g5
<1>9. /\ g6 \in EditorType(K) /\ g6.buf = <<>> /\ g6.pastes = e.pastes /\ g6.cur = 0
      /\ g6.hist_idx = {} /\ g6.undo = <<>>
  BY <1>8 DEF EditorType
<1> HIDE DEF g6
<1>10. /\ g7 \in EditorType(K) /\ g7.buf = <<>> /\ g7.pastes = e.pastes /\ g7.cur = 0
       /\ g7.hist_idx = {} /\ g7.undo = <<>> /\ g7.history = kept
  BY <1>1, <1>9 DEF EditorType
<1> HIDE DEF g7
<1>11. EditorOK(g7, K) BY <1>1, <1>3, <1>10, BoundsAreNat DEF EditorOK, Pos
<1> QED BY <1>2, <1>10, <1>11 DEF EditorKnown, K

(* Completing a command: it is the whole buffer.                            *)
LEMMA CompletedOK ==
  ASSUME NEW e, EditorKnown(e)
  PROVE  /\ EditOf(Known(e.pastes), e, [Edited(e) EXCEPT !.buf = <<"/cmd">>, !.cur = 1])
         /\ [Edited(e) EXCEPT !.buf = <<"/cmd">>, !.cur = 1].buf = <<"/cmd">>
         /\ [Edited(e) EXCEPT !.buf = <<"/cmd">>, !.cur = 1].cur = 1
<1> DEFINE K == Known(e.pastes)
           d == Edited(e)
           g1 == [d EXCEPT !.buf = <<"/cmd">>]
           g2 == [g1 EXCEPT !.cur = 1]
<1>a. EditorOK(e, K) BY DEF EditorKnown
<1>1. "/cmd" \in K BY DEF Known
<1> HIDE DEF K
<1>2. <<"/cmd">> \in Seq(K) /\ Len(<<"/cmd">>) = 1 BY <1>1
<1>3. EditorOK(d, K) /\ KeepsWalk(e, d) BY <1>a, EditedOK
<1>4. [Edited(e) EXCEPT !.buf = <<"/cmd">>, !.cur = 1] = g2 BY <1>3 DEF EditorOK, EditorType
<1> HIDE DEF d
<1>5. /\ g1 \in EditorType(K) /\ g1.buf = <<"/cmd">> /\ KeepsWalk(d, g1)
      /\ g1.undo = d.undo /\ g1.history = d.history
  BY <1>2, <1>3 DEF EditorOK, EditorType, KeepsWalk
<1> HIDE DEF g1
<1>6. /\ g2 \in EditorType(K) /\ g2.buf = <<"/cmd">> /\ g2.cur = 1 /\ KeepsWalk(g1, g2)
      /\ g2.undo = d.undo /\ g2.history = d.history
  BY <1>5 DEF EditorType, KeepsWalk
<1> HIDE DEF g2
<1>7. KeepsWalk(e, g2) BY <1>3, <1>5, <1>6, KeepsTwice
<1>8. EditorOK(g2, K) BY <1>2, <1>3, <1>5, <1>6 DEF EditorOK, KeepsWalk
<1> QED BY <1>4, <1>5, <1>6, <1>7, <1>8 DEF EditOf, K

-----------------------------------------------------------------------------
(* The listing of the directory being mentioned.                           *)

MentionTracks ==
  /\ mention \in [sent : SUBSET Dirs, listed : SUBSET Dirs, asked : Seq(SUBSET Dirs)]
  /\ IF mention.asked = <<>> THEN mention.listed = mention.sent
     ELSE Last(mention.asked) = mention.sent

MentionInv ==
  MentionTracks /\ (path_dir(editor) # {} => mention.sent = path_dir(editor))

(* A mention names a directory.                                             *)
LEMMA PathIsDir == \A e : path_dir(e) \in SUBSET Dirs
BY DEF path_dir

(* The newest question is for the directory being mentioned.                *)
LEMMA QueryTracks ==
  ASSUME MentionTracks, NEW f, refresh_mention_query(f)
  PROVE  MentionTracks' /\ (path_dir(f) # {} => mention.sent' = path_dir(f))
<1>1. CASE path_dir(f) \in {Nothing, mention.sent}
  BY <1>1 DEF MentionTracks, refresh_mention_query, Nothing
<1>2. CASE path_dir(f) \notin {Nothing, mention.sent}
  <2> DEFINE d == path_dir(f)
             all == Append(mention.asked, d)
  <2>1. mention' = [mention EXCEPT !.sent = d, !.asked = all]
    BY <1>2 DEF refresh_mention_query, MentionTracks
  <2>2. d \in SUBSET Dirs BY PathIsDir
  <2> HIDE DEF d
  <2>3. mention.asked \in Seq(SUBSET Dirs) BY DEF MentionTracks
  <2>4. all \in Seq(SUBSET Dirs) /\ Last(all) = d /\ all # <<>>
    <3>1. /\ all \in Seq(SUBSET Dirs) /\ Len(all) = Len(mention.asked) + 1
          /\ all[Len(mention.asked) + 1] = d
      BY <2>2, <2>3, AppendProperties
    <3> QED BY <2>3, <3>1 DEF Last
  <2> HIDE DEF all
  <2>5. mention.sent' = d /\ mention.asked' = all
        /\ mention' \in [sent : SUBSET Dirs, listed : SUBSET Dirs, asked : Seq(SUBSET Dirs)]
    BY <2>1, <2>2, <2>4 DEF MentionTracks
  <2>6. MentionTracks' BY <2>4, <2>5 DEF MentionTracks
  <2> QED BY <2>5, <2>6 DEF d
<1> QED BY <1>1, <1>2

(* The host lists a directory.                                              *)
LEMMA ListedTracks == MentionTracks /\ Listed => MentionTracks' /\ mention.sent' = mention.sent
<1> SUFFICES ASSUME MentionTracks, Listed
             PROVE  MentionTracks' /\ mention.sent' = mention.sent
  OBVIOUS
<1> DEFINE asks == mention.asked
           rest == Tail(asks)
<1>1. asks \in Seq(SUBSET Dirs) /\ asks # <<>> /\ Last(asks) = mention.sent
  BY DEF MentionTracks, Listed
<1>2. Len(asks) \in Nat \ {0} /\ Head(asks) \in SUBSET Dirs /\ rest \in Seq(SUBSET Dirs)
      /\ Len(rest) = Len(asks) - 1 /\ \A i \in 1..Len(rest) : rest[i] = asks[i + 1]
      /\ Head(asks) = asks[1]
  <2>1. /\ Head(asks) \in SUBSET Dirs /\ rest \in Seq(SUBSET Dirs) /\ Len(rest) = Len(asks) - 1
        /\ \A i \in 1..Len(rest) : rest[i] = asks[i + 1]
    BY <1>1, HeadTailProperties
  <2>2. Len(asks) \in Nat \ {0} BY <1>1, EmptySeq, LenProperties
  <2> QED BY <2>1, <2>2, <1>1
<1>3. mention' = [mention EXCEPT !.listed = Head(asks), !.asked = rest]
  BY DEF Listed, MentionTracks
<1>4. IF rest = <<>> THEN Head(asks) = mention.sent ELSE Last(rest) = mention.sent
  <2>1. CASE rest = <<>>
    <3> HIDE DEF rest
    <3>0. Len(rest) = 0 BY <2>1, EmptySeq
    <3>1. Len(asks) = 1 BY <1>2, <3>0
    <3> QED BY <1>1, <1>2, <2>1, <3>1 DEF Last
  <2>2. CASE rest # <<>>
    <3>1. Len(rest) \in 1..Len(rest) BY <1>2, <2>2, EmptySeq
    <3>2. Last(rest) = asks[Len(asks)] BY <1>2, <3>1 DEF Last
    <3> QED BY <1>1, <2>2, <3>2 DEF Last
  <2> QED BY <2>1, <2>2
<1> HIDE DEF rest
<1>5. /\ mention.sent' = mention.sent /\ mention.asked' = rest /\ mention.listed' = Head(asks)
      /\ mention' \in [sent : SUBSET Dirs, listed : SUBSET Dirs, asked : Seq(SUBSET Dirs)]
  BY <1>2, <1>3 DEF MentionTracks
<1> HIDE DEF asks
<1> QED BY <1>4, <1>5 DEF MentionTracks

-----------------------------------------------------------------------------
(* What goes out.                                                          *)

(* Chips, keys and commands are not one another.                            *)
LEMMA AtomsApart ==
  /\ Chip = {Chips[n] : n \in 1..MaxPastes} /\ "pasted" \notin Atoms
  /\ \A a \in Typed \cup {"newline", "/", "/cmd"} : a \notin Chip
  /\ {"word", "newline", "/", "/cmd"} \cap Dirs = {}
<1>1. Chip = {Chips[n] : n \in 1..MaxPastes} BY BoundsAreNat DEF Chip, ToSet
<1>2. Chip \cap {"word", "newline", "/", "/cmd", "pasted"} = {} /\ Dirs \cap Chip = {}
      /\ Dirs \cap {"word", "newline", "/", "/cmd", "pasted"} = {}
  BY ComposerAssumption DEF Chip
<1> QED BY <1>1, <1>2 DEF Atoms, Typed

(* Everything known is an atom, and the typed ones are no chips.            *)
LEMMA KnownIs ==
  ASSUME NEW p \in 0..MaxPastes
  PROVE  Known(p) \subseteq Atoms /\ \A a \in Known(p) \cap Chip : \E n \in 1..p : a = Chips[n]
<1>1. \A n \in 1..p : Chips[n] \in Chip BY BoundsAreNat, AtomsApart
<1> QED BY <1>1, AtomsApart DEF Known, Atoms

(* A prompt as it goes to the host, beside what is printed.                *)
Faithful(text, display) ==
  /\ display \in Seq(Atoms) /\ ToSet(text) \cap Chip = {}
  /\ IF ToSet(display) \cap Chip = {} THEN text = display ELSE "pasted" \in ToSet(text)

(* Every chip is expanded: each one in the buffer stands for a known paste. *)
LEMMA ExpandedIsFaithful ==
  ASSUME NEW e, EditorKnown(e)
  PROVE  Faithful(expand_chips(e, e.buf), e.buf)
<1> DEFINE s == e.buf
           isChip(a) == \E n \in 1..e.pastes : a = Chips[n]
           t == [i \in DOMAIN s |-> IF isChip(s[i]) THEN "pasted" ELSE s[i]]
<1>1. expand_chips(e, s) = t BY DEF expand_chips
<1>2. s \in Seq(Known(e.pastes)) /\ e.pastes \in 0..MaxPastes
  BY DEF EditorKnown, EditorOK, EditorType
<1>3. Known(e.pastes) \subseteq Atoms BY <1>2, KnownIs
<1>4. s \in Seq(Atoms) BY <1>2, <1>3, SeqGrows
<1>5. \A i \in DOMAIN s : s[i] \in Known(e.pastes) BY <1>2
<1>6. \A i \in DOMAIN s : s[i] \in Chip => isChip(s[i]) BY <1>2, <1>5, KnownIs
<1>7. \A i \in DOMAIN s : isChip(s[i]) => s[i] \in Chip
  BY <1>2, BoundsAreNat, AtomsApart
<1> HIDE DEF isChip
<1>8. DOMAIN t = DOMAIN s /\ ToSet(t) = {t[i] : i \in DOMAIN s} /\ ToSet(s) = {s[i] : i \in DOMAIN s}
  BY DEF ToSet
<1>9. \A i \in DOMAIN s : t[i] \notin Chip
  <2>1. "pasted" \notin Chip BY AtomsApart DEF Atoms
  <2> QED BY <1>6, <2>1
<1>10. ASSUME ToSet(s) \cap Chip = {} PROVE t = s
  <2>1. \A i \in DOMAIN s : ~isChip(s[i]) BY <1>7, <1>8, <1>10
  <2>2. t = [i \in DOMAIN s |-> s[i]] BY <2>1
  <2> QED BY <1>4, <2>2
<1>11. ASSUME ToSet(s) \cap Chip # {} PROVE "pasted" \in ToSet(t)
  <2>1. PICK i \in DOMAIN s : isChip(s[i]) BY <1>6, <1>8, <1>11
  <2>2. t[i] = "pasted" BY <2>1
  <2> QED BY <1>8, <2>2
<1> HIDE DEF t
<1> QED BY <1>1, <1>4, <1>8, <1>9, <1>10, <1>11 DEF Faithful

(* A command goes out as it is written.                                     *)
LEMMA CommandIsFaithful == Faithful(<<"/cmd">>, <<"/cmd">>)
<1>1. ToSet(<<"/cmd">>) = {"/cmd"} BY DEF ToSet
<1>2. "/cmd" \in Atoms BY DEF Atoms
<1>3. <<"/cmd">> \in Seq(Atoms) BY <1>2
<1>4. "/cmd" \notin Chip BY AtomsApart
<1> QED BY <1>1, <1>3, <1>4 DEF Faithful

-----------------------------------------------------------------------------
(* What comes back.                                                        *)

(* The prompts the host has not echoed are the newest of those awaited.    *)
Awaited(d, s) ==
  Len(s) <= Len(d) /\ \A k \in 0..Len(s) - 1 : d[Len(d) - k] = s[Len(s) - k].display

Prompt == [text : Seq(Atoms \cup {"pasted"}), display : Seq(Atoms)]

EchoInv ==
  /\ echoes \in Seq(Seq(Atoms)) /\ Len(echoes) <= EchoCap
  /\ submitted \in Seq(Prompt) /\ overflowed \in BOOLEAN
  /\ \A k \in DOMAIN submitted : Faithful(submitted[k].text, submitted[k].display)
  /\ ~overflowed => Awaited(echoes, submitted)
  /\ \A d \in doubled : overflowed \/ ToSet(d) \cap Chip # {}

(* It stays so when a prompt is submitted, and when one is echoed or never. *)
LEMMA AwaitedGrows ==
  ASSUME NEW D, NEW d \in Seq(D), NEW S, NEW s \in Seq(S), NEW x, x \in S, x.display \in D,
         Awaited(d, s), Len(s) < EchoCap
  PROVE  Awaited(Newest(Append(d, x.display), EchoCap), Append(s, x))
<1> DEFINE d1 == Append(d, x.display)
           s1 == Append(s, x)
           e == Newest(d1, EchoCap)
<1>1. /\ Len(d) \in Nat /\ Len(s) \in Nat /\ EchoCap \in Nat \ {0}
  BY BoundsAreNat DEF Pos
<1>2. d1 \in Seq(D) /\ Len(d1) = Len(d) + 1 /\ d1[Len(d) + 1] = x.display
      /\ \A i \in 1..Len(d) : d1[i] = d[i]
  BY AppendProperties
<1>3. Len(s1) = Len(s) + 1 /\ s1[Len(s) + 1] = x /\ \A i \in 1..Len(s) : s1[i] = s[i]
  BY AppendProperties
<1> HIDE DEF d1, s1
<1>4. /\ Len(e) = IF Len(d1) < EchoCap THEN Len(d1) ELSE EchoCap
      /\ \A k \in 0..Len(e) - 1 : e[Len(e) - k] = d1[Len(d1) - k]
  BY <1>2, NewestIs, BoundsAreNat
<1> HIDE DEF e
<1>5. Len(s1) <= Len(e) BY <1>1, <1>2, <1>3, <1>4 DEF Awaited
<1>6. ASSUME NEW k \in 0..Len(s1) - 1 PROVE e[Len(e) - k] = s1[Len(s1) - k].display
  <2>1. k \in 0..Len(e) - 1 /\ k \in Nat BY <1>1, <1>3, <1>4, <1>2, <1>5
  <2>2. e[Len(e) - k] = d1[Len(d1) - k] BY <1>4, <2>1
  <2>3. CASE k = 0
    <3>1. Len(d1) - k = Len(d) + 1 /\ Len(s1) - k = Len(s) + 1 BY <1>1, <1>2, <1>3, <2>3
    <3> QED BY <1>2, <1>3, <2>2, <3>1
  <2>4. CASE k # 0
    <3> DEFINE j == k - 1
    <3>1. j \in 0..Len(s) - 1 /\ Len(d1) - k = Len(d) - j /\ Len(s1) - k = Len(s) - j
      BY <1>1, <1>2, <1>3, <2>1, <2>4
    <3>2. Len(d) - j \in 1..Len(d) /\ Len(s) - j \in 1..Len(s) BY <1>1, <3>1 DEF Awaited
    <3> HIDE DEF j
    <3>3. d[Len(d) - j] = s[Len(s) - j].display BY <3>1 DEF Awaited
    <3> QED BY <1>2, <1>3, <2>2, <3>1, <3>2, <3>3
  <2> QED BY <2>3, <2>4
<1> QED BY <1>5, <1>6 DEF Awaited, e, d1, s1

(* One echo fewer is awaited ...                                            *)
LEMMA AwaitedShrinks ==
  ASSUME NEW D, NEW d \in Seq(D), NEW S, NEW s \in Seq(S), s # <<>>,
         Awaited(d, s), NEW hit \in 0..Len(d), hit <= Len(d) - Len(s) + 1
  PROVE  Awaited(SubSeq(d, hit + 1, Len(d)), Tail(s))
<1> DEFINE e == SubSeq(d, hit + 1, Len(d))
           r == Tail(s)
<1>1. Len(d) \in Nat /\ Len(s) \in Nat \ {0} /\ hit \in Nat
  BY EmptySeq, LenProperties
<1>2. Len(r) = Len(s) - 1 /\ \A i \in 1..Len(r) : r[i] = s[i + 1]
  BY HeadTailProperties
<1>3. Len(e) = Len(d) - hit /\ \A i \in 1..Len(d) - hit : e[i] = d[hit + i]
  BY SuffixIs
<1> HIDE DEF e, r
<1>4. Len(r) <= Len(e) BY <1>1, <1>2, <1>3
<1>5. ASSUME NEW k \in 0..Len(r) - 1 PROVE e[Len(e) - k] = r[Len(r) - k].display
  <2>1. /\ Len(e) - k \in 1..Len(d) - hit /\ hit + (Len(e) - k) = Len(d) - k
        /\ Len(r) - k \in 1..Len(r) /\ Len(r) - k + 1 = Len(s) - k
        /\ k \in 0..Len(s) - 1
    BY <1>1, <1>2, <1>3, <1>4
  <2>2. e[Len(e) - k] = d[Len(d) - k] BY <1>3, <2>1
  <2>3. r[Len(r) - k] = s[Len(s) - k] BY <1>2, <2>1
  <2> QED BY <2>1, <2>2, <2>3 DEF Awaited
<1> QED BY <1>4, <1>5 DEF Awaited, e, r

(* ... and a prompt submitted is one more.                                  *)
LEMMA SubmitEchoes ==
  ASSUME EchoInv, NEW text \in Seq(Atoms \cup {"pasted"}), NEW display, Faithful(text, display),
         submit(text, display)
  PROVE  EchoInv'
<1> DEFINE x == [text |-> text, display |-> display]
<1>1. display \in Seq(Atoms) /\ x \in Prompt /\ x.display = display /\ x.text = text
  BY DEF Faithful, Prompt
<1> HIDE DEF x
<1>2. /\ echoes' = Newest(Append(echoes, display), EchoCap) /\ submitted' = Append(submitted, x)
      /\ overflowed' = (overflowed \/ Len(submitted) >= EchoCap) /\ doubled' = doubled
  BY DEF submit, x
<1>3. echoes \in Seq(Seq(Atoms)) /\ submitted \in Seq(Prompt) /\ Len(submitted) \in Nat
  BY DEF EchoInv
<1>4. echoes' \in Seq(Seq(Atoms)) /\ Len(echoes') <= EchoCap
  <2> DEFINE all == Append(echoes, display)
  <2>1. all \in Seq(Seq(Atoms)) /\ Len(all) \in Nat BY <1>1, <1>3, AppendProperties
  <2> HIDE DEF all
  <2>2. /\ Newest(all, EchoCap) \in Seq(Seq(Atoms))
        /\ Len(Newest(all, EchoCap)) = IF Len(all) < EchoCap THEN Len(all) ELSE EchoCap
    BY <2>1, NewestIs, BoundsAreNat
  <2> QED BY <1>2, <2>1, <2>2, BoundsAreNat DEF Pos, all
<1>5. /\ submitted' \in Seq(Prompt) /\ DOMAIN submitted' = 1..Len(submitted) + 1
      /\ submitted'[Len(submitted) + 1] = x
      /\ \A k \in 1..Len(submitted) : submitted'[k] = submitted[k]
  <2>1. submitted' \in Seq(Prompt) /\ Len(submitted') = Len(submitted) + 1
    BY <1>1, <1>2, <1>3, AppendProperties
  <2> QED BY <1>1, <1>2, <1>3, <2>1, AppendProperties, LenProperties
<1>6. \A k \in DOMAIN submitted' : Faithful(submitted'[k].text, submitted'[k].display)
  <2> SUFFICES ASSUME NEW k \in DOMAIN submitted'
               PROVE  Faithful(submitted'[k].text, submitted'[k].display)
    OBVIOUS
  <2>1. CASE k = Len(submitted) + 1 BY <1>1, <1>5, <2>1
  <2>2. CASE k # Len(submitted) + 1
    <3>1. k \in 1..Len(submitted) /\ k \in DOMAIN submitted BY <1>3, <1>5, <2>2
    <3> QED BY <1>5, <3>1 DEF EchoInv
  <2> QED BY <2>1, <2>2
<1>7. overflowed' \in BOOLEAN BY <1>2, Zenon
<1>8. ASSUME ~overflowed' PROVE Awaited(echoes', submitted')
  <2>1. ~overflowed /\ ~(Len(submitted) >= EchoCap) BY <1>2, <1>8, Zenon
  <2>2. Len(submitted) < EchoCap BY <2>1, <1>3, BoundsAreNat DEF Pos
  <2>3. Awaited(echoes, submitted) BY <2>1 DEF EchoInv
  <2>4. Awaited(Newest(Append(echoes, x.display), EchoCap), Append(submitted, x))
    BY <1>1, <1>3, <2>2, <2>3, AwaitedGrows
  <2> QED BY <1>1, <1>2, <2>4
<1>9. \A d \in doubled' : overflowed' \/ ToSet(d) \cap Chip # {}
  BY <1>2, Zenon DEF EchoInv
<1> QED BY <1>4, <1>5, <1>6, <1>7, <1>8, <1>9 DEF EchoInv

(* What is left to echo is what was submitted after it.                     *)
LEMMA TailOfSubmitted ==
  ASSUME EchoInv, submitted # <<>>
  PROVE  /\ Tail(submitted) \in Seq(Prompt) /\ Head(submitted) \in Prompt
         /\ Faithful(Head(submitted).text, Head(submitted).display)
         /\ \A k \in DOMAIN Tail(submitted) :
              Faithful(Tail(submitted)[k].text, Tail(submitted)[k].display)
         /\ Len(submitted) \in Nat \ {0} /\ Head(submitted) = submitted[1]
<1> DEFINE r == Tail(submitted)
<1>1. submitted \in Seq(Prompt) BY DEF EchoInv
<1>2. Len(submitted) \in Nat \ {0} BY <1>1, EmptySeq, LenProperties
<1>3. /\ Head(submitted) \in Prompt /\ r \in Seq(Prompt) /\ Len(r) = Len(submitted) - 1
      /\ \A i \in 1..Len(r) : r[i] = submitted[i + 1]
  BY <1>1, HeadTailProperties
<1>4. Head(submitted) = submitted[1] BY <1>1
<1>5. 1 \in DOMAIN submitted BY <1>1, <1>2
<1> HIDE DEF r
<1>6. ASSUME NEW k \in DOMAIN r PROVE Faithful(r[k].text, r[k].display)
  <2>1. k \in 1..Len(r) /\ k + 1 \in DOMAIN submitted BY <1>1, <1>2, <1>3
  <2>2. r[k] = submitted[k + 1] BY <1>3, <2>1
  <2> QED BY <2>1, <2>2 DEF EchoInv
<1> QED BY <1>2, <1>3, <1>4, <1>5, <1>6 DEF EchoInv, r

(* A prompt the host will not echo.                                         *)
LEMMA NotEchoedEchoes == EchoInv /\ NotEchoed => EchoInv'
<1> SUFFICES ASSUME EchoInv, NotEchoed PROVE EchoInv' OBVIOUS
<1>1. /\ submitted # <<>> /\ submitted' = Tail(submitted) /\ echoes' = echoes
      /\ doubled' = doubled /\ overflowed' = overflowed
  BY DEF NotEchoed
<1>2. /\ submitted' \in Seq(Prompt)
      /\ \A k \in DOMAIN submitted' : Faithful(submitted'[k].text, submitted'[k].display)
  BY <1>1, TailOfSubmitted
<1>3. ASSUME ~overflowed PROVE Awaited(echoes, Tail(submitted))
  <2>1. Awaited(echoes, submitted) /\ echoes \in Seq(Seq(Atoms)) /\ submitted \in Seq(Prompt)
    BY <1>3 DEF EchoInv
  <2>2. /\ Tail(submitted) \in Seq(Prompt) /\ Len(Tail(submitted)) = Len(submitted) - 1
        /\ \A i \in 1..Len(Tail(submitted)) : Tail(submitted)[i] = submitted[i + 1]
    BY <1>1, <2>1, HeadTailProperties
  <2>3. Len(submitted) \in Nat /\ Len(echoes) \in Nat BY <2>1
  <2> DEFINE r == Tail(submitted)
  <2> HIDE DEF r
  <2>4. ASSUME NEW k \in 0..Len(r) - 1
        PROVE  echoes[Len(echoes) - k] = r[Len(r) - k].display
    <3>1. /\ Len(r) - k \in 1..Len(r) /\ Len(r) - k + 1 = Len(submitted) - k
          /\ k \in 0..Len(submitted) - 1
      BY <2>2, <2>3 DEF r
    <3>2. r[Len(r) - k] = submitted[Len(submitted) - k] BY <2>2, <3>1 DEF r
    <3> QED BY <2>1, <3>1, <3>2 DEF Awaited
  <2>5. Len(r) <= Len(echoes) BY <2>1, <2>2, <2>3 DEF Awaited, r
  <2> QED BY <2>4, <2>5 DEF Awaited, r
<1> QED BY <1>1, <1>2, <1>3 DEF EchoInv

(* The host echoes a prompt.                                                *)
LEMMA MessageEchoes == EchoInv /\ UserMessageCreated => EchoInv'
<1> SUFFICES ASSUME EchoInv, UserMessageCreated PROVE EchoInv' OBVIOUS
<1> DEFINE said == Head(submitted)
           hits == {i \in DOMAIN echoes : echoes[i] = said.text}
           hit  == CHOOSE i \in hits : \A j \in hits : i <= j
<1>1. /\ submitted # <<>> /\ submitted' = Tail(submitted) /\ overflowed' = overflowed
      /\ IF hits = {} THEN doubled' = doubled \cup {said.display} /\ echoes' = echoes
         ELSE echoes' = SubSeq(echoes, hit + 1, Len(echoes)) /\ doubled' = doubled
  BY DEF UserMessageCreated
<1>2. /\ submitted' \in Seq(Prompt) /\ Faithful(said.text, said.display)
      /\ \A k \in DOMAIN submitted' : Faithful(submitted'[k].text, submitted'[k].display)
      /\ said = submitted[1] /\ Len(submitted) \in Nat \ {0}
  BY <1>1, TailOfSubmitted
<1>3. echoes \in Seq(Seq(Atoms)) /\ submitted \in Seq(Prompt) /\ Len(echoes) \in Nat
      /\ Len(echoes) <= EchoCap /\ overflowed \in BOOLEAN
  BY DEF EchoInv
<1> HIDE DEF said
<1>4. hits \subseteq 1..Len(echoes) BY <1>3
(* A chip was expanded: no echo reads like that.                           *)
<1>5. ASSUME ToSet(said.display) \cap Chip # {} PROVE hits = {}
  <2>1. "pasted" \in ToSet(said.text) BY <1>2, <1>5 DEF Faithful
  <2>2. ASSUME NEW i \in hits PROVE FALSE
    <3>1. echoes[i] \in Seq(Atoms) /\ echoes[i] = said.text BY <1>3, <1>4
    <3>2. \A n \in DOMAIN said.text : said.text[n] \in Atoms BY <3>1
    <3>3. ToSet(said.text) = {said.text[n] : n \in DOMAIN said.text} BY DEF ToSet
    <3> QED BY <2>1, <3>2, <3>3, AtomsApart
  <2> QED BY <2>2
(* None was: the echo is awaited where the oldest submission says.         *)
<1>6. ASSUME ~overflowed, ToSet(said.display) \cap Chip = {}
      PROVE  Len(echoes) - Len(submitted) + 1 \in hits
  <2>1. Awaited(echoes, submitted) BY <1>6 DEF EchoInv
  <2> DEFINE k == Len(submitted) - 1
  <2>2. k \in 0..Len(submitted) - 1 /\ Len(echoes) - k = Len(echoes) - Len(submitted) + 1
        /\ Len(submitted) - k = 1
    BY <1>2, <1>3
  <2>3. Len(echoes) - k \in 1..Len(echoes) BY <1>2, <1>3, <2>1, <2>2 DEF Awaited
  <2> HIDE DEF k
  <2>4. echoes[Len(echoes) - k] = said.display BY <1>2, <2>1, <2>2 DEF Awaited
  <2>5. said.text = said.display BY <1>2, <1>6 DEF Faithful
  <2>6. DOMAIN echoes = 1..Len(echoes) BY <1>3
  <2> QED BY <2>2, <2>3, <2>4, <2>5, <2>6
<1>7. CASE hits = {}
  <2>1. doubled' = doubled \cup {said.display} /\ echoes' = echoes BY <1>1, <1>7
  <2>2. overflowed \/ ToSet(said.display) \cap Chip # {} BY <1>6, <1>7
  <2>3. ASSUME ~overflowed PROVE Awaited(echoes, Tail(submitted))
    <3>1. Awaited(echoes, submitted) BY <2>3 DEF EchoInv
    <3>2. 0 <= Len(echoes) - Len(submitted) + 1 BY <1>2, <1>3, <3>1 DEF Awaited
    <3>3. Awaited(SubSeq(echoes, 0 + 1, Len(echoes)), Tail(submitted))
      BY <1>1, <1>3, <3>1, <3>2, AwaitedShrinks
    <3>4. SubSeq(echoes, 0 + 1, Len(echoes)) = echoes
      <4>1. 0 + 1 = 1 OBVIOUS
      <4> QED BY <1>3, <4>1, SubSeqFull
    <3> QED BY <3>3, <3>4
  <2> QED BY <1>1, <1>2, <1>3, <2>1, <2>2, <2>3 DEF EchoInv
<1>8. CASE hits # {}
  <2>1. /\ echoes' = SubSeq(echoes, hit + 1, Len(echoes)) /\ doubled' = doubled
    BY <1>1, <1>8
  <2>2. hits \in SUBSET Nat BY <1>4
  <2> HIDE DEF hits
  <2>3. hit \in hits /\ \A j \in hits : hit <= j BY <1>8, <2>2, MinOf
  <2> HIDE DEF hit
  <2>4. hit \in 1..Len(echoes) BY <1>4, <2>3
  <2>5. echoes' \in Seq(Seq(Atoms)) /\ Len(echoes') <= EchoCap
    <3>1. \A i \in hit + 1 .. Len(echoes) : echoes[i] \in Seq(Atoms) BY <1>3, <2>4
    <3>2. /\ echoes' \in Seq(Seq(Atoms))
          /\ Len(echoes') = IF hit + 1 <= Len(echoes) THEN Len(echoes) - (hit + 1) + 1 ELSE 0
      BY <1>3, <2>1, <2>4, <3>1, SubSeqProperties
    <3> QED BY <1>3, <2>4, <3>2, BoundsAreNat DEF Pos
  <2>6. ASSUME ~overflowed PROVE Awaited(echoes', Tail(submitted))
    <3>1. Awaited(echoes, submitted) BY <2>6 DEF EchoInv
    <3>2. hit <= Len(echoes) - Len(submitted) + 1 BY <1>5, <1>6, <1>8, <2>3, <2>6
    <3> QED BY <1>1, <1>3, <2>1, <2>4, <3>1, <3>2, AwaitedShrinks
  <2> QED BY <1>1, <1>2, <1>3, <2>1, <2>5, <2>6 DEF EchoInv
<1> QED BY <1>7, <1>8

-----------------------------------------------------------------------------
(* The keys.                                                               *)

(* The keys of the editor: typing, ...                                      *)
LEMMA TypedOK ==
  ASSUME NEW e, EditorKnown(e), NEW t \in Typed \cup {"/"}
  PROVE  EditStep(e, Insert(snapshot_of(e, TRUE), <<t>>))
<1> DEFINE K == Known(e.pastes)
           d == snapshot_of(e, TRUE)
<1>1. EditorOK(e, K) BY DEF EditorKnown
<1>2. t \in K BY DEF Known
<1> HIDE DEF K
<1>3. EditorOK(d, K) /\ KeepsWalk(e, d) BY <1>1, SnapshotOK
<1>4. <<t>> \in Seq(K) BY <1>2
<1> HIDE DEF d
<1>5. EditOf(K, d, Insert(d, <<t>>)) BY <1>3, <1>4, InsertOK
<1>6. EditOf(K, e, Insert(d, <<t>>)) BY <1>3, <1>5, KeepsTwice DEF EditOf
<1> QED BY <1>6, EditIsStep DEF K, d

(* ... what is put back, ...                                                *)
LEMMA PutOK ==
  ASSUME NEW K, NEW e, EditorOK(e, K), NEW s \in Seq(K)
  PROVE  EditOf(K, e, Insert(Edited(e), s))
<1>1. EditorOK(Edited(e), K) /\ KeepsWalk(e, Edited(e)) BY EditedOK
<1>2. EditOf(K, Edited(e), Insert(Edited(e), s)) BY <1>1, InsertOK
<1> QED BY <1>1, <1>2, KeepsTwice DEF EditOf

(* ... a new line, ...                                                      *)
LEMMA NewlineOK ==
  ASSUME NEW e, EditorKnown(e)
  PROVE  EditStep(e, Insert(Edited(e), <<"newline">>))
<1> DEFINE K == Known(e.pastes)
<1>1. EditorOK(e, K) /\ "newline" \in K BY DEF EditorKnown, Known
<1> HIDE DEF K
<1>2. <<"newline">> \in Seq(K) BY <1>1
<1>3. EditOf(K, e, Insert(Edited(e), <<"newline">>)) BY <1>1, <1>2, PutOK
<1> QED BY <1>3, EditIsStep DEF K

(* ... what cuts, ...                                                       *)
LEMMA CutsOK ==
  ASSUME NEW e, EditorKnown(e),
         NEW f \in Backspace(e) \cup Delete(e) \cup Yank(e) \cup Undo(e)
                  \cup KillToEnd(e) \cup KillRange(e, LineStart(e), e.cur)
  PROVE  EditStep(e, f)
<1> DEFINE K == Known(e.pastes)
<1>1. EditorOK(e, K) BY DEF EditorKnown
<1> HIDE DEF K
<1>2. /\ LineStart(e) \in 0..e.cur /\ LineEnd(e) \in e.cur..Len(e.buf)
      /\ e.cur \in 0..Len(e.buf) /\ Len(e.buf) \in Nat
  <2>1. Len(e.buf) \in Nat BY <1>1 DEF EditorOK, EditorType
  <2>2. /\ LineStart(e) \in 0..e.cur /\ LineEnd(e) \in e.cur..Len(e.buf)
        /\ e.cur \in 0..Len(e.buf)
    BY <1>1, LinesAreInside
  <2> QED BY <2>1, <2>2
<1>3. EditOf(K, e, f)
  <2>1. CASE f \in Backspace(e)
    <3>1. e.cur - 1 \in 0..Len(e.buf) /\ e.cur \in e.cur - 1..Len(e.buf)
          /\ f = Replace(Edited(e), e.cur - 1, e.cur, <<>>)
      BY <1>2, <2>1 DEF Backspace
    <3> QED BY <1>1, <3>1, CutOK
  <2>2. CASE f \in Delete(e)
    <3>1. e.cur + 1 \in e.cur..Len(e.buf) /\ f = Replace(Edited(e), e.cur, e.cur + 1, <<>>)
      BY <1>2, <2>2 DEF Delete
    <3> QED BY <1>1, <1>2, <3>1, CutOK
  <2>3. CASE f \in Yank(e)
    <3>1. e.kill \in Seq(K) /\ f = Insert(Edited(e), e.kill)
      BY <1>1, <2>3 DEF Yank, EditorOK, EditorType
    <3> QED BY <1>1, <3>1, PutOK
  <2>4. CASE f \in Undo(e) BY <1>1, <2>4, UndoOK
  <2>5. CASE f \in KillToEnd(e)
    <3> DEFINE end == LineEnd(e)
               to == IF end = e.cur /\ end < Len(e.buf) THEN end + 1 ELSE end
    <3>1. to \in e.cur..Len(e.buf) BY <1>2
    <3>2. f \in KillRange(e, e.cur, to) BY <2>5 DEF KillToEnd
    <3> QED BY <1>1, <1>2, <3>1, <3>2, KillOK
  <2>6. CASE f \in KillRange(e, LineStart(e), e.cur)
    <3>1. LineStart(e) \in 0..Len(e.buf) /\ e.cur \in LineStart(e)..Len(e.buf) BY <1>2
    <3> QED BY <1>1, <2>6, <3>1, KillOK
  <2> QED BY <2>1, <2>2, <2>3, <2>4, <2>5, <2>6
<1> QED BY <1>3, EditIsStep DEF K

(* ... what moves, ...                                                      *)
LEMMA MovesOK ==
  ASSUME NEW e, EditorKnown(e),
         NEW f \in {[e EXCEPT !.cur = IF @ = 0 THEN 0 ELSE @ - 1, !.typing = FALSE],
                    [e EXCEPT !.cur = IF @ = Len(e.buf) THEN @ ELSE @ + 1, !.typing = FALSE],
                    [e EXCEPT !.cur = LineStart(e)], [e EXCEPT !.cur = LineEnd(e)]}
  PROVE  EditStep(e, f)
<1> DEFINE K == Known(e.pastes)
<1>1. EditorOK(e, K) BY DEF EditorKnown
<1> HIDE DEF K
<1>2. /\ LineStart(e) \in 0..e.cur /\ LineEnd(e) \in e.cur..Len(e.buf)
      /\ e.cur \in 0..Len(e.buf) /\ Len(e.buf) \in Nat
  <2>1. Len(e.buf) \in Nat BY <1>1 DEF EditorOK, EditorType
  <2>2. /\ LineStart(e) \in 0..e.cur /\ LineEnd(e) \in e.cur..Len(e.buf)
        /\ e.cur \in 0..Len(e.buf)
    BY <1>1, LinesAreInside
  <2> QED BY <2>1, <2>2
<1> DEFINE back == IF e.cur = 0 THEN 0 ELSE e.cur - 1
           on   == IF e.cur = Len(e.buf) THEN e.cur ELSE e.cur + 1
<1>3. {back, on, LineStart(e), LineEnd(e)} \subseteq 0..Len(e.buf) BY <1>2
<1>4. f \in {[e EXCEPT !.cur = back, !.typing = FALSE], [e EXCEPT !.cur = on, !.typing = FALSE],
             [e EXCEPT !.cur = LineStart(e)], [e EXCEPT !.cur = LineEnd(e)]}
  BY <1>1 DEF EditorOK, EditorType
<1> HIDE DEF back, on
<1>5. EditOf(K, e, f)
  <2>1. CASE f = [e EXCEPT !.cur = back, !.typing = FALSE]
    BY <1>1, <1>3, <2>1, CursorMoves DEF EditOf
  <2>2. CASE f = [e EXCEPT !.cur = on, !.typing = FALSE]
    BY <1>1, <1>3, <2>2, CursorMoves DEF EditOf
  <2>3. CASE f = [e EXCEPT !.cur = LineStart(e)]
    BY <1>1, <1>3, <2>3, CursorMoves DEF EditOf
  <2>4. CASE f = [e EXCEPT !.cur = LineEnd(e)]
    BY <1>1, <1>3, <2>4, CursorMoves DEF EditOf
  <2> QED BY <1>4, <2>1, <2>2, <2>3, <2>4
<1> QED BY <1>5, EditIsStep DEF K

(* ... the arrows, ...                                                      *)
LEMMA ArrowsOK ==
  ASSUME NEW e, EditorKnown(e), NEW f \in UpKey(e) \cup DownKey(e)
  PROVE  EditStep(e, f)
<1>1. EditorOK(e, Known(e.pastes)) BY DEF EditorKnown
<1>2. CASE f \in UpKey(e) /\ LineStart(e) > 0
  <2>1. f = Vertical(e, TRUE) BY <1>2 DEF UpKey
  <2>2. EditOf(Known(e.pastes), e, f) BY <1>1, <1>2, <2>1, VerticalOK
  <2> QED BY <2>2, EditIsStep
<1>3. CASE f \in UpKey(e) /\ ~(LineStart(e) > 0)
  <2>1. f \in history_prev(e) BY <1>3 DEF UpKey
  <2> QED BY <2>1, PrevOK
<1>4. CASE f \in DownKey(e) /\ LineEnd(e) < Len(e.buf)
  <2>1. f = Vertical(e, FALSE) BY <1>4 DEF DownKey
  <2>2. EditOf(Known(e.pastes), e, f) BY <1>1, <1>4, <2>1, VerticalOK
  <2> QED BY <2>2, EditIsStep
<1>5. CASE f \in DownKey(e) /\ ~(LineEnd(e) < Len(e.buf))
  <2>1. f \in history_next(e) BY <1>5 DEF DownKey
  <2> QED BY <2>1, NextOK
<1> QED BY <1>2, <1>3, <1>4, <1>5

(* ... and a choice in the picker.                                          *)
LEMMA PickedOK ==
  ASSUME NEW e, EditorKnown(e), path_dir(e) # {}, NEW t \in {"word"} \cup Dirs
  PROVE  EditOf(Known(e.pastes), e, Replace(Edited(e), e.cur - 1, e.cur, <<t>>))
<1> DEFINE K == Known(e.pastes)
           d == Edited(e)
<1>1. EditorOK(e, K) /\ t \in K BY DEF EditorKnown, Known, Typed
<1> HIDE DEF K
<1>2. <<t>> \in Seq(K) BY <1>1
<1>3. EditorOK(d, K) /\ KeepsWalk(e, d) /\ d.buf = e.buf BY <1>1, EditedOK
<1>4. e.cur > 0 BY DEF path_dir
<1>5. e.cur - 1 \in 0..Len(d.buf) /\ e.cur \in e.cur - 1..Len(d.buf)
  BY <1>1, <1>3, <1>4 DEF EditorOK, EditorType
<1> HIDE DEF d
<1>6. EditOf(K, d, Replace(d, e.cur - 1, e.cur, <<t>>)) BY <1>2, <1>3, <1>5, ReplaceOK DEF EditOf
<1>7. EditOf(K, e, Replace(d, e.cur - 1, e.cur, <<t>>)) BY <1>3, <1>6, KeepsTwice DEF EditOf
<1> QED BY <1>7 DEF K, d

-----------------------------------------------------------------------------
(* The invariant: the buffer and every buffer to go back to hold known     *)
(* atoms, the draft is what was being written, the newest query is for the *)
(* directory being mentioned, and the echoes awaited end in what the host  *)
(* has yet to echo.                                                        *)

WalkInv == editor.hist_idx # {} => editor.draft = written

KeyInv == ctrlC \in {"no", "armed", "late"} /\ busyTurn \in BOOLEAN /\ left \in BOOLEAN

ComposerInv == EditorKnown(editor) /\ WalkInv /\ MentionInv /\ EchoInv /\ KeyInv

(* An edit step keeps the draft of a walk.                                  *)
LEMMA ChangesOK ==
  ASSUME ComposerInv, NEW es, \A f \in es : EditStep(editor, f), Changes(es)
  PROVE  EditorKnown(editor') /\ WalkInv' /\ MentionInv'
<1>1. PICK f \in es : editor' = f /\ Walks(f) /\ refresh_mention_query(f)
  BY DEF Changes
<1>2. EditorKnown(f) /\ Walked(editor, f) BY <1>1 DEF EditStep
<1>3. MentionInv'
  <2>1. MentionTracks' /\ (path_dir(f) # {} => mention.sent' = path_dir(f))
    BY <1>1, QueryTracks DEF ComposerInv, MentionInv
  <2>2. path_dir(f) = path_dir(editor)' BY <1>1 DEF path_dir
  <2> QED BY <2>1, <2>2 DEF MentionInv
<1>4. WalkInv' BY <1>1, <1>2 DEF ComposerInv, WalkInv, Walks, Walked, Nothing
<1> QED BY <1>1, <1>2, <1>3, <1>4

(* No mention at the start of the buffer.                                   *)
LEMMA NoPath == \A e : e.cur = 0 => path_dir(e) = {}
BY DEF path_dir

(* A step that empties the editor.                                          *)
LEMMA EmptiedOK ==
  ASSUME ComposerInv, NEW f, EditorKnown(f), f.hist_idx = {}, path_dir(f) = {},
         editor' = f, UNCHANGED mention
  PROVE  EditorKnown(editor') /\ WalkInv' /\ MentionInv'
<1>1. path_dir(editor)' = {} BY DEF path_dir
<1>2. MentionTracks' BY DEF ComposerInv, MentionInv, MentionTracks
<1> QED BY <1>1, <1>2 DEF WalkInv, MentionInv

(* The invariant holds at the start.                                        *)
LEMMA ComposerStarts == ComposerInit => ComposerInv
<1> SUFFICES ASSUME ComposerInit PROVE ComposerInv OBVIOUS
<1>1. editor = [buf |-> <<>>, cur |-> 0, history |-> <<>>, hist_idx |-> {},
                draft |-> <<>>, pastes |-> 0, undo |-> <<>>, kill |-> <<>>, typing |-> FALSE]
  BY DEF ComposerInit, Nothing
<1>2. EditorKnown(editor)
  <2> DEFINE K == Known(0)
  <2>1. <<>> \in Seq(K) /\ <<>> \in Seq(Seq(K)) /\ <<>> \in Seq(MarkType(K)) /\ Len(<<>>) = 0
    OBVIOUS
  <2> HIDE DEF K
  <2>2. EditorOK(editor, K) BY <1>1, <2>1, BoundsAreNat DEF EditorOK, EditorType, Pos
  <2>3. editor.pastes = 0 BY <1>1
  <2> QED BY <2>2, <2>3, BoundsAreNat DEF EditorKnown, K
<1>3. WalkInv BY <1>1 DEF WalkInv
<1>4. MentionInv
  <2>1. path_dir(editor) = {} BY <1>1, NoPath
  <2>2. mention = [sent |-> {}, listed |-> {}, asked |-> <<>>] BY DEF ComposerInit, Nothing
  <2> QED BY <2>1, <2>2 DEF MentionInv, MentionTracks
<1>5. EchoInv
  <2>1. echoes = <<>> /\ submitted = <<>> /\ doubled = {} /\ overflowed = FALSE
    BY DEF ComposerInit
  <2>2. DOMAIN submitted = {} /\ Len(echoes) = 0 /\ Len(submitted) = 0 BY <2>1
  <2>3. echoes \in Seq(Seq(Atoms)) /\ submitted \in Seq(Prompt) BY <2>1
  <2>4. Awaited(echoes, submitted) BY <2>2 DEF Awaited
  <2>5. Len(echoes) <= EchoCap BY <2>2, BoundsAreNat DEF Pos
  <2>6. \A k \in DOMAIN submitted : Faithful(submitted[k].text, submitted[k].display)
    BY <2>2
  <2>7. \A d \in doubled : overflowed \/ ToSet(d) \cap Chip # {} BY <2>1
  <2>8. overflowed \in BOOLEAN BY <2>1, Zenon
  <2> QED BY <2>3, <2>4, <2>5, <2>6, <2>7, <2>8 DEF EchoInv
<1>6. KeyInv BY DEF ComposerInit, KeyInv
<1> QED BY <1>2, <1>3, <1>4, <1>5, <1>6 DEF ComposerInv

(* Where prompts and echoes are left alone, so is their invariant.          *)
LEMMA EchoesKept == EchoInv /\ UNCHANGED echoVars => EchoInv'
BY DEF EchoInv, echoVars, Awaited

(* The same of the editor, its walk through history and its mention.        *)
LEMMA SideKept ==
  EditorKnown(editor) /\ WalkInv /\ MentionInv /\ UNCHANGED <<editor, mention, written>>
    => EditorKnown(editor') /\ WalkInv' /\ MentionInv'
BY DEF WalkInv, MentionInv, MentionTracks, path_dir

(* What goes out is text, whatever chips it had.                            *)
LEMMA PromptText ==
  ASSUME NEW e, EditorKnown(e)
  PROVE  expand_chips(e, e.buf) \in Seq(Atoms \cup {"pasted"})
<1>1. e.buf \in Seq(Atoms)
  <2>1. e.buf \in Seq(Known(e.pastes)) /\ e.pastes \in 0..MaxPastes
    BY DEF EditorKnown, EditorOK, EditorType
  <2> QED BY <2>1, KnownIs, SeqGrows
<1>2. DOMAIN e.buf = 1..Len(e.buf) /\ Len(e.buf) \in Nat BY <1>1
<1> DEFINE isChip(a) == \E n \in 1..e.pastes : a = Chips[n]
           t == [i \in DOMAIN e.buf |-> IF isChip(e.buf[i]) THEN "pasted" ELSE e.buf[i]]
<1>3. expand_chips(e, e.buf) = t BY DEF expand_chips
<1> HIDE DEF isChip
<1>4. t \in [1..Len(e.buf) -> Atoms \cup {"pasted"}] BY <1>1, <1>2
<1> HIDE DEF t
<1> QED BY <1>2, <1>3, <1>4, SeqDef

(* Every step keeps the invariant.                                          *)
LEMMA ComposerStep == ComposerInv /\ [ComposerNext]_composerVars => ComposerInv'
<1> SUFFICES ASSUME ComposerInv, [ComposerNext]_composerVars PROVE ComposerInv' OBVIOUS
<1> USE DEF Key
<1>1. CASE EditKey
  <2>1. EditorKnown(editor) BY DEF ComposerInv
  <2>2. EditorKnown(editor') /\ WalkInv' /\ MentionInv'
    <3>1. ASSUME NEW t \in Typed \cup (IF editor.buf = <<>> THEN {"/"} ELSE {}),
                 Changes({Insert(snapshot_of(editor, TRUE), <<t>>)})
          PROVE  EditorKnown(editor') /\ WalkInv' /\ MentionInv'
      <4>1. t \in Typed \cup {"/"} BY <3>1
      <4> DEFINE es == {Insert(snapshot_of(editor, TRUE), <<t>>)}
      <4>2. \A f \in es : EditStep(editor, f) BY <2>1, <4>1, TypedOK
      <4> QED BY <3>1, <4>2, ChangesOK
    <3>2. ASSUME Changes(Paste(editor) \cup Backspace(editor) \cup Delete(editor)
                           \cup Yank(editor) \cup Undo(editor))
          PROVE  EditorKnown(editor') /\ WalkInv' /\ MentionInv'
      <4> DEFINE es == Paste(editor) \cup Backspace(editor) \cup Delete(editor)
                         \cup Yank(editor) \cup Undo(editor)
      <4>1. \A f \in es : EditStep(editor, f) BY <2>1, PasteOK, CutsOK
      <4>2. Changes(es) BY <3>2
      <4> HIDE DEF es
      <4> QED BY <4>1, <4>2, ChangesOK
    <3>3. ASSUME Changes(KillToEnd(editor) \cup KillRange(editor, LineStart(editor), editor.cur))
          PROVE  EditorKnown(editor') /\ WalkInv' /\ MentionInv'
      <4> DEFINE es == KillToEnd(editor) \cup KillRange(editor, LineStart(editor), editor.cur)
      <4>1. \A f \in es : EditStep(editor, f) BY <2>1, CutsOK
      <4>2. Changes(es) BY <3>3
      <4> HIDE DEF es
      <4> QED BY <4>1, <4>2, ChangesOK
    <3>4. ASSUME Changes({Insert(Edited(editor), <<"newline">>)})
          PROVE  EditorKnown(editor') /\ WalkInv' /\ MentionInv'
      <4> DEFINE es == {Insert(Edited(editor), <<"newline">>)}
      <4>1. \A f \in es : EditStep(editor, f) BY <2>1, NewlineOK
      <4>2. Changes(es) BY <3>4
      <4> HIDE DEF es
      <4> QED BY <4>1, <4>2, ChangesOK
    <3>5. ASSUME Changes({[editor EXCEPT !.cur = IF @ = 0 THEN 0 ELSE @ - 1, !.typing = FALSE],
                          [editor EXCEPT !.cur = IF @ = Len(editor.buf) THEN @ ELSE @ + 1,
                                         !.typing = FALSE]})
          PROVE  EditorKnown(editor') /\ WalkInv' /\ MentionInv'
      <4> DEFINE es == {[editor EXCEPT !.cur = IF @ = 0 THEN 0 ELSE @ - 1, !.typing = FALSE],
                        [editor EXCEPT !.cur = IF @ = Len(editor.buf) THEN @ ELSE @ + 1,
                                       !.typing = FALSE]}
      <4>1. \A f \in es : EditStep(editor, f) BY <2>1, MovesOK
      <4>2. Changes(es) BY <3>5
      <4> HIDE DEF es
      <4> QED BY <4>1, <4>2, ChangesOK
    <3>6. ASSUME Changes({[editor EXCEPT !.cur = LineStart(editor)],
                          [editor EXCEPT !.cur = LineEnd(editor)]})
          PROVE  EditorKnown(editor') /\ WalkInv' /\ MentionInv'
      <4> DEFINE es == {[editor EXCEPT !.cur = LineStart(editor)],
                        [editor EXCEPT !.cur = LineEnd(editor)]}
      <4>1. \A f \in es : EditStep(editor, f) BY <2>1, MovesOK
      <4>2. Changes(es) BY <3>6
      <4> HIDE DEF es
      <4> QED BY <4>1, <4>2, ChangesOK
    <3>7. ASSUME Changes(UpKey(editor) \cup DownKey(editor))
          PROVE  EditorKnown(editor') /\ WalkInv' /\ MentionInv'
      <4> DEFINE es == UpKey(editor) \cup DownKey(editor)
      <4>1. \A f \in es : EditStep(editor, f) BY <2>1, ArrowsOK
      <4>2. Changes(es) BY <3>7
      <4> HIDE DEF es
      <4> QED BY <4>1, <4>2, ChangesOK
    <3> QED BY <1>1, <3>1, <3>2, <3>3, <3>4, <3>5, <3>6, <3>7 DEF EditKey
  <2>3. EchoInv' BY <1>1, EchoesKept DEF EditKey, ComposerInv
  <2>4. KeyInv' BY <1>1 DEF EditKey, ComposerInv, KeyInv
  <2> QED BY <2>2, <2>3, <2>4 DEF ComposerInv
<1>2. CASE EnterKey
  <2>1. /\ EditorKnown(editor) /\ editor' = Taken(editor)
        /\ submit(expand_chips(editor, editor.buf), editor.buf)
        /\ UNCHANGED <<mention, busyTurn, left>> /\ ctrlC' = "no"
    BY <1>2 DEF EnterKey, ComposerInv, sideVars
  <2>2. EditorKnown(editor') /\ WalkInv' /\ MentionInv' BY <2>1, TakenOK, NoPath, EmptiedOK
  <2>3. EchoInv' BY <2>1, ExpandedIsFaithful, PromptText, SubmitEchoes DEF ComposerInv
  <2>4. KeyInv' BY <2>1 DEF ComposerInv, KeyInv
  <2> QED BY <2>2, <2>3, <2>4 DEF ComposerInv
<1>3. CASE AcceptCommand
  <2>1. /\ EditorKnown(editor)
        /\ UNCHANGED <<mention, busyTurn, left, written>> /\ ctrlC' = "no"
    BY <1>3 DEF AcceptCommand, ComposerInv, sideVars
  <2>2. KeyInv' BY <2>1 DEF ComposerInv, KeyInv
  <2>3. CASE editor' = Cleared(editor) /\ submit(<<"/cmd">>, <<"/cmd">>)
    <3>1. EditorKnown(editor') /\ WalkInv' /\ MentionInv' BY <2>1, <2>3, ClearedOK, NoPath, EmptiedOK
    <3>2. <<"/cmd">> \in Seq(Atoms \cup {"pasted"})
      <4>1. "/cmd" \in Atoms \cup {"pasted"} BY DEF Atoms
      <4> QED BY <4>1
    <3>3. EchoInv' BY <2>3, <3>2, CommandIsFaithful, SubmitEchoes DEF ComposerInv
    <3> QED BY <2>2, <3>1, <3>3 DEF ComposerInv
  <2>4. CASE editor' = [Edited(editor) EXCEPT !.buf = <<"/cmd">>, !.cur = 1] /\ UNCHANGED echoVars
    <3> DEFINE f == [Edited(editor) EXCEPT !.buf = <<"/cmd">>, !.cur = 1]
    <3>1. EditOf(Known(editor.pastes), editor, f) /\ f.buf = <<"/cmd">> /\ f.cur = 1 /\ editor' = f
      BY <2>1, <2>4, CompletedOK
    <3> HIDE DEF f
    <3>2. EditorKnown(f) BY <2>1, <3>1, EditIsStep DEF EditStep
    <3>3. WalkInv' BY <2>1, <3>1 DEF WalkInv, ComposerInv, EditOf, KeepsWalk
    <3>4. path_dir(f) = {}
      <4>1. f.buf[f.cur] = "/cmd" /\ "/cmd" \notin Dirs BY <3>1, AtomsApart
      <4> QED BY <4>1 DEF path_dir
    <3>5. MentionInv'
      <4>1. path_dir(editor)' = {} BY <3>1, <3>4 DEF path_dir
      <4>2. MentionTracks' BY <2>1 DEF ComposerInv, MentionInv, MentionTracks
      <4> QED BY <4>1, <4>2 DEF MentionInv
    <3>6. EchoInv' BY <2>4, EchoesKept DEF ComposerInv
    <3> QED BY <2>2, <3>1, <3>2, <3>3, <3>5, <3>6 DEF ComposerInv
  <2> QED BY <1>3, <2>3, <2>4 DEF AcceptCommand
<1>4. CASE AcceptMention
  <2>1. PICK t \in {"word"} \cup (Dirs \ mention.listed) :
          /\ editor' = Replace(Edited(editor), editor.cur - 1, editor.cur, <<t>>)
          /\ refresh_mention_query(editor')
    BY <1>4 DEF AcceptMention
  <2>2. EditorKnown(editor) /\ path_dir(editor) # {} /\ t \in {"word"} \cup Dirs
    BY <1>4 DEF AcceptMention, MentionPicker, ComposerInv
  <2>3. EditOf(Known(editor.pastes), editor, editor') BY <2>1, <2>2, PickedOK
  <2>4. EditorKnown(editor') BY <2>2, <2>3, EditIsStep DEF EditStep
  <2>5. written' = written /\ ctrlC' = "no" /\ UNCHANGED <<busyTurn, left, echoVars>>
    BY <1>4 DEF AcceptMention
  <2>6. WalkInv' BY <2>3, <2>5 DEF WalkInv, ComposerInv, EditOf, KeepsWalk
  <2>7. MentionInv'
    <3>1. MentionTracks' /\ (path_dir(editor') # {} => mention.sent' = path_dir(editor'))
      BY <2>1, QueryTracks DEF ComposerInv, MentionInv
    <3> QED BY <3>1 DEF MentionInv, path_dir
  <2>8. EchoInv' BY <2>5, EchoesKept DEF ComposerInv
  <2>9. KeyInv' BY <2>5 DEF ComposerInv, KeyInv
  <2> QED BY <2>4, <2>6, <2>7, <2>8, <2>9 DEF ComposerInv
<1>5. CASE CtrlC
  <2>1. UNCHANGED <<mention, written, echoVars>> BY <1>5 DEF CtrlC, sideVars
  <2>2. EchoInv' BY <2>1, EchoesKept DEF ComposerInv
  <2>3. EditorKnown(editor') /\ WalkInv' /\ MentionInv'
    <3>1. CASE editor' = Cleared(editor)
      BY <2>1, <3>1, ClearedOK, NoPath, EmptiedOK DEF ComposerInv
    <3>2. CASE editor' = editor BY <2>1, <3>2, SideKept DEF ComposerInv
    <3> QED BY <1>5, <3>1, <3>2 DEF CtrlC
  <2>4. KeyInv'
    <3>1. ctrlC' = "armed" /\ busyTurn' \in BOOLEAN /\ left' \in BOOLEAN
      BY <1>5, Zenon DEF CtrlC, ComposerInv, KeyInv
    <3> QED BY <3>1 DEF KeyInv
  <2> QED BY <2>2, <2>3, <2>4 DEF ComposerInv
<1>6. CASE Esc
  <2>1. UNCHANGED <<editor, mention, written, echoVars, left>> /\ busyTurn' = FALSE /\ ctrlC' = "no"
    BY <1>6 DEF Esc
  <2> QED BY <2>1, SideKept, EchoesKept DEF ComposerInv, KeyInv
<1>7. CASE WindowPasses \/ HostBusy
  <2>1. /\ UNCHANGED <<editor, mention, written, echoVars, left>>
        /\ ctrlC' \in {ctrlC, "late"} /\ busyTurn' \in {busyTurn, TRUE}
    BY <1>7 DEF WindowPasses, HostBusy, sideVars
  <2>2. KeyInv' BY <2>1 DEF ComposerInv, KeyInv
  <2> QED BY <2>1, <2>2, SideKept, EchoesKept DEF ComposerInv
<1>8. CASE Listed
  <2>1. UNCHANGED <<editor, written, echoVars, left, busyTurn, ctrlC>> BY <1>8 DEF Listed
  <2>2. MentionInv'
    <3>1. MentionTracks' /\ mention.sent' = mention.sent
      BY <1>8, ListedTracks DEF ComposerInv, MentionInv
    <3> QED BY <2>1, <3>1 DEF ComposerInv, MentionInv, path_dir
  <2>3. EchoInv' BY <2>1, EchoesKept DEF ComposerInv
  <2> QED BY <2>1, <2>2, <2>3 DEF ComposerInv, WalkInv, KeyInv
<1>9. CASE UserMessageCreated
  <2>1. UNCHANGED <<editor, mention, written, left, busyTurn, ctrlC>>
    BY <1>9 DEF UserMessageCreated, sideVars
  <2>2. EchoInv' BY <1>9, MessageEchoes DEF ComposerInv
  <2> QED BY <2>1, <2>2, SideKept DEF ComposerInv, KeyInv
<1>10. CASE NotEchoed
  <2>1. UNCHANGED <<editor, mention, written, left, busyTurn, ctrlC>>
    BY <1>10 DEF NotEchoed, sideVars
  <2>2. EchoInv' BY <1>10, NotEchoedEchoes DEF ComposerInv
  <2> QED BY <2>1, <2>2, SideKept DEF ComposerInv, KeyInv
<1>11. CASE UNCHANGED composerVars
  <2>1. UNCHANGED <<editor, mention, written, echoVars, left, busyTurn, ctrlC>>
    BY <1>11 DEF composerVars, sideVars
  <2> QED BY <2>1, SideKept, EchoesKept DEF ComposerInv, KeyInv
<1> QED BY <1>1, <1>2, <1>3, <1>4, <1>5, <1>6, <1>7, <1>8, <1>9, <1>10, <1>11
        DEF ComposerNext

(* The invariant holds in every state.                                      *)
LEMMA ComposerHolds == ComposerSpec => []ComposerInv
BY ComposerStarts, ComposerStep, PTL DEF ComposerSpec

(* Every cursor is inside its buffer, that of every buffer to go back to   *)
(* included (editor.rs undo, history and the chips), for every size of the *)
(* history, of the undo stack and of the echo list.                        *)
THEOREM ComposerTypeCorrect == ComposerSpec => []ComposerTypeOK
<1>1. ComposerInv => ComposerTypeOK
  <2> SUFFICES ASSUME ComposerInv PROVE ComposerTypeOK OBVIOUS
  <2> DEFINE K == Known(editor.pastes)
  <2>1. EditorOK(editor, K) /\ K \subseteq Atoms
    BY KnownIs DEF ComposerInv, EditorKnown
  <2> HIDE DEF K
  <2>2. editor.buf \in Seq(Atoms) /\ editor.cur \in 0..Len(editor.buf)
    <3>1. editor.buf \in Seq(K) BY <2>1 DEF EditorOK, EditorType
    <3> QED BY <2>1, <3>1, SeqGrows DEF EditorOK, EditorType
  <2>3. \A u \in ToSet(editor.undo) : u.cur \in 0..Len(u.buf)
    <3>1. editor.undo \in Seq(MarkType(K)) BY <2>1 DEF EditorOK, EditorType
    <3>2. \A u \in ToSet(editor.undo) : u \in MarkType(K)
      <4>1. \A i \in DOMAIN editor.undo : editor.undo[i] \in MarkType(K) BY <3>1
      <4> QED BY <4>1 DEF ToSet
    <3> QED BY <3>2 DEF MarkType
  <2>4. /\ Len(editor.history) <= MaxHistory /\ Len(editor.undo) <= MaxUndo
        /\ editor.hist_idx \subseteq DOMAIN editor.history
    <3>1. DOMAIN editor.history = 1..Len(editor.history) BY <2>1 DEF EditorOK, EditorType
    <3> QED BY <2>1, <3>1 DEF EditorOK
  <2> QED BY <2>2, <2>3, <2>4 DEF ComposerInv, KeyInv, EchoInv, ComposerTypeOK
<1> QED BY <1>1, ComposerHolds, PTL

(* What is being written comes back at the end of the walk through         *)
(* history, no chip goes out in place of its paste, and the picker gets    *)
(* the listing of the directory being mentioned, however many the pastes   *)
(* and however long the buffer and the history; and a prompt the host      *)
(* echoes is printed once, but for a prompt with a paste in it and for     *)
(* every prompt once more echoes were awaited than are kept: those may be  *)
(* printed a second time (editor.rs history and expand_chips, session.rs   *)
(* refresh_mention_query and UserMessageCreated).                          *)
THEOREM KeepsPrompt == ComposerSpec => []PromptIsKept
<1>1. ComposerInv => PromptIsKept
  <2> SUFFICES ASSUME ComposerInv PROVE PromptIsKept OBVIOUS
  <2>1. \A k \in DOMAIN submitted : ToSet(submitted[k].text) \cap Chip = {}
    BY DEF ComposerInv, EchoInv, Faithful
  <2>2. path_dir(editor) # {} =>
          /\ mention.sent = path_dir(editor)
          /\ mention.asked = <<>> => mention.listed = mention.sent
    BY DEF ComposerInv, MentionInv, MentionTracks
  <2>3. \A d \in doubled : overflowed \/ ToSet(d) \cap Chip # {}
    BY DEF ComposerInv, EchoInv
  <2> QED BY <2>1, <2>2, <2>3 DEF PromptIsKept, ComposerInv, WalkInv, Nothing
<1> QED BY <1>1, ComposerHolds, PTL

-----------------------------------------------------------------------------
(* The transcript view.                                                    *)

(* The lines of a recording.                                                *)

Widths == {z.width : z \in Sizes}

(* The function transcript_of folds with ...                                *)
LaysOut(evs, width, f, n) ==
  f = [i \in 0 .. n |->
         IF i = 0 THEN <<>>
         ELSE IF evs[i].type = "clear" THEN <<>> ELSE f[i - 1] \o LinesOf(evs[i], width)]

(* ... exists, whatever the length.                                         *)
LEMMA LayoutExists ==
  ASSUME NEW evs, NEW width, NEW n \in Nat
  PROVE  \E f : LaysOut(evs, width, f, n)
<1> DEFINE Bad == {m \in Nat : ~\E f : LaysOut(evs, width, f, m)}
<1> SUFFICES ASSUME Bad # {} PROVE FALSE OBVIOUS
<1>1. PICK m \in Bad : \A x \in Bad : m <= x BY MinOf
<1>2. m # 0
  <2> DEFINE f == [i \in 0 .. 0 |-> <<>>]
  <2>1. f = [i \in 0 .. 0 |->
               IF i = 0 THEN <<>>
               ELSE IF evs[i].type = "clear" THEN <<>> ELSE f[i - 1] \o LinesOf(evs[i], width)]
    OBVIOUS
  <2> QED BY <2>1 DEF LaysOut
<1>3. m - 1 \in Nat /\ m - 1 \notin Bad BY <1>1, <1>2
<1>4. PICK f : LaysOut(evs, width, f, m - 1) BY <1>3
<1> DEFINE last == IF evs[m].type = "clear" THEN <<>> ELSE f[m - 1] \o LinesOf(evs[m], width)
           g == [i \in 0 .. m |-> IF i = m THEN last ELSE f[i]]
<1>5. \A i \in 0 .. (m - 1) :
        f[i] = IF i = 0 THEN <<>>
               ELSE IF evs[i].type = "clear" THEN <<>> ELSE f[i - 1] \o LinesOf(evs[i], width)
  BY <1>4 DEF LaysOut
<1>6. \A i \in 0 .. m : g[i] = IF i = m THEN last ELSE f[i] OBVIOUS
<1>7. g = [i \in 0 .. m |-> g[i]] OBVIOUS
<1> HIDE DEF g, last
<1>8. \A i \in 0 .. m :
        g[i] = IF i = 0 THEN <<>>
               ELSE IF evs[i].type = "clear" THEN <<>> ELSE g[i - 1] \o LinesOf(evs[i], width)
  <2> TAKE i \in 0 .. m
  <2>1. CASE i = m
    <3>1. g[i - 1] = f[i - 1] /\ g[i] = last BY <1>2, <1>3, <1>6, <2>1
    <3> QED BY <1>2, <2>1, <3>1 DEF last
  <2>2. CASE i # m
    <3>1. i \in 0 .. (m - 1) /\ g[i] = f[i] BY <1>3, <1>6, <2>2
    <3>2. i # 0 => g[i - 1] = f[i - 1] BY <1>3, <1>6, <3>1
    <3> QED BY <1>5, <3>1, <3>2
  <2> QED BY <2>1, <2>2
<1>9. LaysOut(evs, width, g, m)
  <2> DEFINE h == [i \in 0 .. m |->
                IF i = 0 THEN <<>>
                ELSE IF evs[i].type = "clear" THEN <<>> ELSE g[i - 1] \o LinesOf(evs[i], width)]
  <2>1. h = [i \in 0 .. m |-> g[i]] BY <1>8
  <2> QED BY <2>1, <1>7 DEF LaysOut
<1> QED BY <1>1, <1>9

(* An event adds a sequence of lines.                                       *)
LEMMA EventLines ==
  ASSUME NEW ev \in BlockOf \cup {Clear}, ev.type # "clear", NEW width \in Widths
  PROVE  LinesOf(ev, width) \in Seq(SUBSET Queries)
<1>1. ev \in BlockOf BY DEF Clear
<1>2. ev.holds \in SUBSET Queries /\ ev.rows \in [Widths -> Nat] BY <1>1 DEF BlockOf, Widths
<1>3. ev.rows[width] \in Nat BY <1>2
<1>4. \A k \in 1 .. ev.rows[width] : (IF k = 1 THEN ev.holds ELSE {}) \in SUBSET Queries
  BY <1>2
<1> HIDE DEF BlockOf
<1> QED BY <1>3, <1>4 DEF LinesOf

(* A recording is a sequence of lines, whatever the window's width.         *)
LEMMA TranscriptIs ==
  ASSUME NEW evs \in Recorded, NEW width \in Widths
  PROVE  transcript_of(evs, width) \in Seq(SUBSET Queries)
<1> DEFINE n == Len(evs)
<1>1. evs \in Seq(BlockOf \cup {Clear}) BY TranscriptAssumption
<1>2. n \in Nat /\ \A i \in 1 .. n : evs[i] \in BlockOf \cup {Clear}
  <2> HIDE DEF BlockOf, Clear
  <2> QED BY <1>1
<1> DEFINE f == CHOOSE g : LaysOut(evs, width, g, n)
<1>3. LaysOut(evs, width, f, n) BY <1>2, LayoutExists
<1>4. transcript_of(evs, width) = f[n] BY DEF transcript_of, LaysOut
<1>5. \A i \in 0 .. n :
        f[i] = IF i = 0 THEN <<>>
               ELSE IF evs[i].type = "clear" THEN <<>> ELSE f[i - 1] \o LinesOf(evs[i], width)
  BY <1>3 DEF LaysOut
<1> HIDE DEF f
<1> DEFINE Bad == {m \in 0 .. n : f[m] \notin Seq(SUBSET Queries)}
<1>6. Bad = {}
  <2> SUFFICES ASSUME Bad # {} PROVE FALSE OBVIOUS
  <2>1. Bad \in SUBSET Nat BY <1>2
  <2>2. PICK m \in Bad : \A x \in Bad : m <= x BY <2>1, MinOf
  <2>3. m \in 0 .. n /\ f[m] \notin Seq(SUBSET Queries) BY <2>2
  <2>4. f[0] \in Seq(SUBSET Queries)
    <3>1. 0 \in 0 .. n BY <1>2
    <3>2. f[0] = <<>> BY <1>5, <3>1
    <3> QED BY <3>2
  <2>5. m # 0 BY <2>3, <2>4
  <2>6. m \in 1 .. n /\ m - 1 \in 0 .. n /\ m - 1 \notin Bad BY <1>2, <2>2, <2>3, <2>5
  <2>7. f[m - 1] \in Seq(SUBSET Queries) BY <2>6
  <2>8. evs[m].type # "clear" => LinesOf(evs[m], width) \in Seq(SUBSET Queries)
    BY <1>2, <2>6, EventLines
  <2>9. f[m] = IF evs[m].type = "clear" THEN <<>> ELSE f[m - 1] \o LinesOf(evs[m], width)
    BY <1>5, <2>3, <2>5
  <2>10. CASE evs[m].type = "clear" BY <2>3, <2>9, <2>10
  <2>11. CASE evs[m].type # "clear"
    <3>1. f[m] = f[m - 1] \o LinesOf(evs[m], width) BY <2>9, <2>11
    <3>2. LinesOf(evs[m], width) \in Seq(SUBSET Queries) BY <2>8, <2>11
    <3> HIDE DEF Bad
    <3>3. f[m] \in Seq(SUBSET Queries) BY <2>7, <3>1, <3>2
    <3> QED BY <2>3, <3>3
  <2> QED BY <2>10, <2>11
<1>7. n \in 0 .. n BY <1>2
<1> QED BY <1>4, <1>6, <1>7

-----------------------------------------------------------------------------
(* find_matches.                                                            *)

(* Every match is the index, from 0, of a line that holds the query.        *)
LEMMA MatchesHold ==
  ASSUME NEW ls \in Seq(SUBSET Queries), NEW q
  PROVE  /\ find_matches(ls, q) \in Seq(Nat)
         /\ \A k \in DOMAIN find_matches(ls, q) :
              /\ find_matches(ls, q)[k] + 1 \in DOMAIN ls
              /\ q \in ls[find_matches(ls, q)[k] + 1]
<1> DEFINE hits == {i \in DOMAIN ls : q \in ls[i]}
           n == Cardinality(hits)
           At(k) == CHOOSE i \in hits : Cardinality({j \in hits : j < i}) = k - 1
<1>1. Len(ls) \in Nat /\ DOMAIN ls = 1 .. Len(ls) OBVIOUS
<1>2. IsFiniteSet(1 .. Len(ls)) BY <1>1, FS_Interval
<1>3. hits \in SUBSET Nat /\ IsFiniteSet(hits) BY <1>1, <1>2, FS_Subset
<1>4. n \in Nat BY <1>3, FS_CardinalityType
<1>5. find_matches(ls, q) = [k \in 1 .. n |-> At(k) - 1] BY DEF find_matches
<1>6. ASSUME NEW k \in 1 .. n
      PROVE  At(k) \in hits
  <2> HIDE DEF hits
  <2>1. k - 1 \in Nat /\ k - 1 < Cardinality(hits) BY <1>4
  <2>2. \E i \in hits : Cardinality({j \in hits : j < i}) = k - 1 BY <1>3, <2>1, Ranked
  <2> QED BY <2>2
<1> DEFINE m == find_matches(ls, q)
<1> HIDE DEF At, n
<1>7. \A k \in 1 .. n : At(k) - 1 \in Nat /\ At(k) - 1 + 1 \in DOMAIN ls /\ q \in ls[At(k) - 1 + 1]
  <2> TAKE k \in 1 .. n
  <2>1. At(k) \in DOMAIN ls /\ q \in ls[At(k)] BY <1>6
  <2>2. At(k) - 1 \in Nat /\ At(k) - 1 + 1 = At(k) BY <1>1, <2>1
  <2> QED BY <2>1, <2>2
<1>8. [k \in 1 .. n |-> At(k) - 1] \in Seq(Nat) BY <1>4, <1>7
<1> QED BY <1>5, <1>7, <1>8

-----------------------------------------------------------------------------
(* The view.                                                                *)

SearchFields == {"query", "matches", "current", "editing", "at"}

(* A search's matches are those of the recording laid out at its width,     *)
(* and there are none while its query is typed.                             *)
SearchIs(s) ==
  /\ DOMAIN s = SearchFields /\ s.at \in Widths /\ s.matches \in Seq(Nat)
  /\ s.editing => s.matches = <<>>
  /\ s.current = 0 \/ s.current < Len(s.matches)
  /\ s.current \in Nat
  /\ \A k \in DOMAIN s.matches :
       /\ s.matches[k] + 1 \in DOMAIN transcript_of(events, s.at)
       /\ s.query \in transcript_of(events, s.at)[s.matches[k] + 1]

InPage(line) == line < Len(lines) => line \in scroll .. scroll + body_height(size) - 1

(* The inductive invariant.                                                 *)
TranscriptInv ==
  /\ events \in Recorded /\ size \in Sizes /\ lines = transcript_of(events, size.width)
  /\ scroll \in Nat /\ scroll <= max_scroll(lines, size) /\ opened \in BOOLEAN
  /\ viewKeys \in 0 .. MaxViewKeys
  /\ search = {} \/ \E s : search = {s} /\ SearchIs(s)
  /\ \A line \in jumped : line \in Nat /\ InPage(line)

(* What a window and its lines give.                                        *)
LEMMA WindowIs ==
  ASSUME NEW evs \in Recorded, NEW z \in Sizes
  PROVE  LET ls == transcript_of(evs, z.width) IN
         /\ z.width \in Widths /\ ls \in Seq(SUBSET Queries) /\ Len(ls) \in Nat
         /\ body_height(z) \in Nat \ {0} /\ max_scroll(ls, z) \in Nat
<1> DEFINE ls == transcript_of(evs, z.width)
<1>1. z.width \in Widths BY DEF Widths
<1>2. ls \in Seq(SUBSET Queries) BY <1>1, TranscriptIs
<1> HIDE DEF ls
<1>3. Len(ls) \in Nat BY <1>2
<1>4. z.height \in Nat BY TranscriptAssumption
<1>5. body_height(z) \in Nat \ {0} BY <1>4 DEF body_height
<1>6. max_scroll(ls, z) \in Nat BY <1>3, <1>5 DEF max_scroll
<1> QED BY <1>1, <1>2, <1>3, <1>5, <1>6 DEF ls

(* A scroll that was clamped.                                               *)
LEMMA Clamped ==
  ASSUME NEW n \in Nat, NEW ls, NEW z, max_scroll(ls, z) \in Nat
  PROVE  clamp_scroll(n, ls, z) \in Nat /\ clamp_scroll(n, ls, z) <= max_scroll(ls, z)
BY DEF clamp_scroll

(* A third of the page is less than the page.                               *)
LEMMA Third == \A n \in Nat \ {0} : n \div 3 \in Nat /\ n \div 3 <= n - 1
OBVIOUS

(* jump_to_current_match: the match is on the page.                         *)
LEMMA JumpInPage ==
  ASSUME NEW ls, NEW z, Len(ls) \in Nat, body_height(z) \in Nat \ {0}, NEW line \in Nat,
         line < Len(ls)
  PROVE  LET up == body_height(z) \div 3
             to == clamp_scroll(IF line < up THEN 0 ELSE line - up, ls, z)
         IN  line \in to .. to + body_height(z) - 1
<1> DEFINE h == body_height(z)
           up == h \div 3
           top == max_scroll(ls, z)
           from == IF line < up THEN 0 ELSE line - up
           to == clamp_scroll(from, ls, z)
<1>1. up \in Nat /\ up <= h - 1 BY Third
<1>2. top = IF Len(ls) > h THEN Len(ls) - h ELSE 0 BY DEF max_scroll
<1>3. to = IF from < top THEN from ELSE top BY DEF clamp_scroll
<1>4. h \in Nat \ {0} OBVIOUS
<1> HIDE DEF h, up, top, to
<1>5. from \in Nat /\ from <= line /\ line <= from + h - 1 BY <1>1, <1>4
<1>6. top \in Nat /\ line <= top + h - 1 BY <1>2, <1>4
<1> HIDE DEF from
<1>7. to \in Nat /\ to <= line /\ line <= to + h - 1 BY <1>3, <1>5, <1>6, <1>4
<1> QED BY <1>4, <1>7 DEF h, up, from, to

(* A jump of a search whose matches are as they should be.                  *)
LEMMA JumpKeeps ==
  ASSUME TranscriptInv, NEW s, s.matches \in Seq(Nat), s.current \in Nat,
         s.current = 0 \/ s.current < Len(s.matches), jump_to_current_match(s),
         size' = size, lines' = lines
  PROVE  /\ scroll' \in Nat /\ scroll' <= max_scroll(lines, size)
         /\ \A line \in jumped' : line \in Nat /\ InPage(line)'
<1>1. /\ Len(lines) \in Nat /\ body_height(size) \in Nat \ {0}
      /\ max_scroll(lines, size) \in Nat
  BY WindowIs DEF TranscriptInv
<1>2. CASE s.current < Len(s.matches)
  <2> DEFINE line == s.matches[s.current + 1]
             up   == body_height(size) \div 3
             from == IF line < up THEN 0 ELSE line - up
  <2>1. line \in Nat BY <1>2
  <2>2. scroll' = clamp_scroll(from, lines, size) /\ jumped' = {line}
    BY <1>2 DEF jump_to_current_match
  <2>3. up \in Nat BY <1>1, Third
  <2>4. from \in Nat BY <2>1, <2>3
  <2>5. scroll' \in Nat /\ scroll' <= max_scroll(lines, size) BY <1>1, <2>2, <2>4, Clamped
  <2>6. line < Len(lines) => line \in scroll' .. scroll' + body_height(size) - 1
    BY <1>1, <2>1, <2>2, JumpInPage
  <2>7. InPage(line)' BY <2>6 DEF InPage
  <2> HIDE DEF line
  <2> QED BY <2>1, <2>2, <2>5, <2>7
<1>3. CASE ~(s.current < Len(s.matches))
  <2>1. scroll' = scroll /\ jumped' = jumped BY <1>3 DEF jump_to_current_match
  <2>2. \A line \in jumped : InPage(line) => InPage(line)' BY <2>1 DEF InPage
  <2> QED BY <2>1, <2>2 DEF TranscriptInv
<1> QED BY <1>2, <1>3

(* A search that does not depend on where the view is.                      *)
LEMMA SameRecording ==
  ASSUME events' = events
  PROVE  \A s : SearchIs(s)' <=> SearchIs(s)
BY DEF SearchIs

(* A search that is open is one whose matches hold, and there is one.       *)
LEMMA SearchHeld ==
  ASSUME TranscriptInv, NEW s \in search
  PROVE  SearchIs(s) /\ search = {s}
BY DEF TranscriptInv

(* RunSearch: the matches are those of the lines on the screen.             *)
LEMMA FoundIs ==
  ASSUME TranscriptInv, NEW s, SearchIs(s)
  PROVE  SearchIs([s EXCEPT !.editing = FALSE, !.current = 0, !.at = size.width,
                            !.matches = find_matches(lines, s.query)])
<1> DEFINE m == find_matches(lines, s.query)
           f == [s EXCEPT !.editing = FALSE, !.current = 0, !.at = size.width, !.matches = m]
<1>1. /\ size.width \in Widths /\ lines = transcript_of(events, size.width)
      /\ lines \in Seq(SUBSET Queries)
  BY WindowIs DEF TranscriptInv
<1>2. /\ m \in Seq(Nat)
      /\ \A k \in DOMAIN m : m[k] + 1 \in DOMAIN lines /\ s.query \in lines[m[k] + 1]
  BY <1>1, MatchesHold
<1>3. DOMAIN s = SearchFields BY DEF SearchIs
<1> HIDE DEF m
<1>4. /\ DOMAIN f = SearchFields /\ f.at = size.width /\ f.matches = m /\ f.editing = FALSE
      /\ f.current = 0 /\ f.query = s.query
  BY <1>3 DEF SearchFields
<1> HIDE DEF f
<1>5. SearchIs(f) BY <1>1, <1>2, <1>4 DEF SearchIs
<1> QED BY <1>5 DEF f, m

(* NextMatch: the next or the one before, around the end.                   *)
LEMMA AroundTheEnd ==
  ASSUME NEW n \in Nat \ {0}, NEW c \in Nat, NEW by
  PROVE  LET d == (c + (IF by = 1 THEN 1 ELSE n - 1)) % n IN d \in Nat /\ d < n
<1> DEFINE x == c + (IF by = 1 THEN 1 ELSE n - 1)
<1>1. x \in Nat OBVIOUS
<1> HIDE DEF x
<1>2. x % n \in 0 .. n - 1 BY <1>1
<1>3. x % n \in Nat /\ x % n < n BY <1>2
<1> QED BY <1>3 DEF x

(* The match it moves to is one of the matches.                             *)
LEMMA MovedIs ==
  ASSUME NEW s, SearchIs(s), Len(s.matches) > 0, NEW by
  PROVE  LET n == Len(s.matches)
             t == [s EXCEPT !.current = (@ + (IF by = 1 THEN 1 ELSE n - 1)) % n]
         IN  SearchIs(t) /\ t.matches = s.matches /\ t.current \in Nat /\ t.current < n
<1> DEFINE n == Len(s.matches)
           d == (s.current + (IF by = 1 THEN 1 ELSE n - 1)) % n
           t == [s EXCEPT !.current = d]
<1>1. DOMAIN s = SearchFields /\ s.current \in Nat /\ n \in Nat \ {0} BY DEF SearchIs
<1>2. d \in Nat /\ d < n
  <2> HIDE DEF n
  <2> QED BY <1>1, AroundTheEnd
<1> HIDE DEF d
<1>3. /\ DOMAIN t = SearchFields /\ t.at = s.at /\ t.matches = s.matches
      /\ t.editing = s.editing /\ t.query = s.query /\ t.current = d
  BY <1>1 DEF SearchFields
<1> HIDE DEF t
<1>4. SearchIs(t) BY <1>2, <1>3 DEF SearchIs
<1> QED BY <1>2, <1>3, <1>4 DEF t, d

(* TypeQuery: there are no matches yet.                                     *)
LEMMA TypedIs ==
  ASSUME NEW s, SearchIs(s), s.editing, NEW q
  PROVE  SearchIs([s EXCEPT !.query = q])
<1> DEFINE t == [s EXCEPT !.query = q]
<1>1. DOMAIN s = SearchFields /\ s.matches = <<>> BY DEF SearchIs
<1>2. /\ DOMAIN t = SearchFields /\ t.at = s.at /\ t.matches = s.matches
      /\ t.editing = s.editing /\ t.current = s.current
  BY <1>1 DEF SearchFields
<1> HIDE DEF t
<1>3. DOMAIN t.matches = {} BY <1>1, <1>2
<1>4. SearchIs(t) BY <1>2, <1>3 DEF SearchIs
<1> QED BY <1>4 DEF t

(* StartSearch: no query and no matches.                                    *)
LEMMA StartedIs ==
  ASSUME TranscriptInv
  PROVE  SearchIs([query |-> "", matches |-> <<>>, current |-> 0, editing |-> TRUE,
                   at |-> size.width])
<1> DEFINE t == [query |-> "", matches |-> <<>>, current |-> 0, editing |-> TRUE,
                 at |-> size.width]
<1>1. size.width \in Widths BY WindowIs DEF TranscriptInv
<1>2. /\ DOMAIN t = SearchFields /\ t.at = size.width /\ t.matches = <<>> /\ t.current = 0
      /\ DOMAIN <<>> = {} /\ <<>> \in Seq(Nat)
  BY DEF SearchFields
<1> HIDE DEF t
<1>3. SearchIs(t) BY <1>1, <1>2 DEF SearchIs
<1> QED BY <1>3 DEF t

-----------------------------------------------------------------------------
(* The steps.                                                               *)

(* What a key leaves alone: the recording, the window and its lines.        *)
LEMMA PressedKeeps ==
  ASSUME TranscriptInv, Pressed
  PROVE  viewKeys' \in 0 .. MaxViewKeys
<1>1. viewKeys \in 0 .. MaxViewKeys /\ viewKeys > 0 /\ viewKeys' = viewKeys - 1
  BY DEF Pressed, TranscriptInv
<1> QED BY <1>1, TranscriptAssumption

(* A step that changes the search alone.                                    *)
LEMMA SearchStep ==
  ASSUME TranscriptInv, Pressed, search' = {} \/ \E s : search' = {s} /\ SearchIs(s),
         UNCHANGED <<events, size, lines, scroll, opened, jumped>>
  PROVE  TranscriptInv'
<1>1. viewKeys' \in 0 .. MaxViewKeys BY PressedKeeps
<1>2. search' = {} \/ \E s : search' = {s} /\ SearchIs(s)' BY SameRecording
<1>3. \A line \in jumped' : line \in Nat /\ InPage(line)' BY DEF TranscriptInv, InPage
<1> QED BY <1>1, <1>2, <1>3 DEF TranscriptInv

(* A step that jumps to the current match of a search.                      *)
LEMMA JumpStep ==
  ASSUME TranscriptInv, Pressed, NEW s, search' = {s}, SearchIs(s),
         jump_to_current_match(s), UNCHANGED <<events, size, lines, opened>>
  PROVE  TranscriptInv'
<1>1. viewKeys' \in 0 .. MaxViewKeys BY PressedKeeps
<1>2. SearchIs(s)' BY SameRecording
<1>3. s.matches \in Seq(Nat) /\ s.current \in Nat
      /\ (s.current = 0 \/ s.current < Len(s.matches))
  BY DEF SearchIs
<1>4. /\ scroll' \in Nat /\ scroll' <= max_scroll(lines, size)
      /\ \A line \in jumped' : line \in Nat /\ InPage(line)'
  BY <1>3, JumpKeeps
<1> QED BY <1>1, <1>2, <1>4 DEF TranscriptInv

(* A step that moves the page: what was jumped to may leave it.             *)
LEMMA PageStep ==
  ASSUME TranscriptInv, Pressed, NEW z \in Sizes, size' = z, NEW to \in Nat,
         lines' = transcript_of(events, z.width), scroll' = clamp_scroll(to, lines', z),
         jumped' = {}, UNCHANGED <<events, search, opened>>
  PROVE  TranscriptInv'
<1>1. viewKeys' \in 0 .. MaxViewKeys BY PressedKeeps
<1>2. events \in Recorded BY DEF TranscriptInv
<1>3. max_scroll(lines', z) \in Nat BY <1>2, WindowIs
<1>4. scroll' \in Nat /\ scroll' <= max_scroll(lines', size') BY <1>3, Clamped
<1>5. search' = {} \/ \E s : search' = {s} /\ SearchIs(s)' BY SameRecording DEF TranscriptInv
<1> QED BY <1>1, <1>4, <1>5 DEF TranscriptInv

(* Every key and every resize keeps the invariant.                          *)
LEMMA TranscriptStep == TranscriptInv /\ [TranscriptNext]_transcriptVars => TranscriptInv'
<1> SUFFICES ASSUME TranscriptInv, [TranscriptNext]_transcriptVars PROVE TranscriptInv'
  OBVIOUS
<1>1. CASE TypeQuery
  <2>1. PICK s \in search, q \in Queries : search' = {[s EXCEPT !.query = q]}
    BY <1>1 DEF TypeQuery
  <2>2. SearchIs(s) /\ search = {s} BY SearchHeld
  <2>3. s.editing BY <1>1, <2>2 DEF TypeQuery, Editing
  <2>4. SearchIs([s EXCEPT !.query = q]) BY <2>2, <2>3, TypedIs
  <2>5. Pressed /\ UNCHANGED <<events, size, lines, scroll, opened, jumped>>
    BY <1>1 DEF TypeQuery
  <2> QED BY <2>1, <2>4, <2>5, SearchStep
<1>2. CASE CancelSearch
  <2>1. Pressed /\ search' = {} /\ UNCHANGED <<events, size, lines, scroll, opened, jumped>>
    BY <1>2 DEF CancelSearch
  <2> QED BY <2>1, SearchStep
<1>3. CASE RunSearch
  <2>1. PICK s \in search :
          LET found == [s EXCEPT !.editing = FALSE, !.current = 0, !.at = size.width,
                                 !.matches = find_matches(lines, s.query)]
          IN  search' = {found} /\ jump_to_current_match(found)
    BY <1>3 DEF RunSearch
  <2>2. Pressed /\ UNCHANGED <<events, size, lines, opened>> BY <1>3 DEF RunSearch
  <2>3. SearchIs(s) BY SearchHeld
  <2> DEFINE found == [s EXCEPT !.editing = FALSE, !.current = 0, !.at = size.width,
                                !.matches = find_matches(lines, s.query)]
  <2>4. SearchIs(found) BY <2>3, FoundIs
  <2>5. search' = {found} /\ jump_to_current_match(found) BY <2>1
  <2> HIDE DEF found
  <2> QED BY <2>2, <2>4, <2>5, JumpStep
<1>4. CASE StartSearch
  <2>1. /\ Pressed /\ UNCHANGED <<events, size, lines, scroll, opened, jumped>>
        /\ search' = {[query |-> "", matches |-> <<>>, current |-> 0, editing |-> TRUE,
                       at |-> size.width]}
    BY <1>4 DEF StartSearch
  <2> QED BY <2>1, StartedIs, SearchStep
<1>5. ASSUME NEW by, NextMatch(by) PROVE TranscriptInv'
  <2>1. PICK s \in search :
          LET n     == Len(s.matches)
              moved == [s EXCEPT !.current = (@ + (IF by = 1 THEN 1 ELSE n - 1)) % n]
          IN  n > 0 /\ search' = {moved} /\ jump_to_current_match(moved)
    BY <1>5 DEF NextMatch
  <2>2. Pressed /\ UNCHANGED <<events, size, lines, opened>> BY <1>5 DEF NextMatch
  <2>3. SearchIs(s) BY SearchHeld
  <2> DEFINE n     == Len(s.matches)
             moved == [s EXCEPT !.current = (@ + (IF by = 1 THEN 1 ELSE n - 1)) % n]
  <2>4. SearchIs(moved) BY <2>1, <2>3, MovedIs
  <2>5. search' = {moved} /\ jump_to_current_match(moved) BY <2>1
  <2> HIDE DEF moved
  <2> QED BY <2>2, <2>4, <2>5, JumpStep
<1>6. CASE Scroll
  <2>1. /\ Pressed /\ jumped' = {} /\ UNCHANGED <<events, size, lines, search, opened>>
        /\ \E to \in {scroll + 1, scroll + body_height(size), 0, max_scroll(lines, size),
                      IF scroll > 0 THEN scroll - 1 ELSE 0,
                      IF scroll > body_height(size) THEN scroll - body_height(size) ELSE 0} :
             scroll' = clamp_scroll(to, lines, size)
    BY <1>6 DEF Scroll
  <2>2. /\ size \in Sizes /\ lines = transcript_of(events, size.width) /\ scroll \in Nat
        /\ events \in Recorded
    BY DEF TranscriptInv
  <2>3. body_height(size) \in Nat /\ max_scroll(lines, size) \in Nat BY <2>2, WindowIs
  <2>4. \E to \in Nat : scroll' = clamp_scroll(to, lines, size) BY <2>1, <2>2, <2>3
  <2>5. PICK to \in Nat : scroll' = clamp_scroll(to, lines, size) BY <2>4
  <2>6. scroll' = clamp_scroll(to, lines', size) /\ lines' = transcript_of(events, size.width)
    BY <2>1, <2>2, <2>5
  <2> QED BY <2>1, <2>2, <2>6, PageStep
<1>7. CASE CloseView
  <2>1. /\ Pressed /\ opened' = FALSE
        /\ UNCHANGED <<events, size, lines, scroll, search, jumped>>
    BY <1>7 DEF CloseView
  <2>2. viewKeys' \in 0 .. MaxViewKeys BY <2>1, PressedKeeps
  <2>3. search' = {} \/ \E s : search' = {s} /\ SearchIs(s)'
    BY <2>1, SameRecording DEF TranscriptInv
  <2>4. \A line \in jumped' : line \in Nat /\ InPage(line)' BY <2>1 DEF TranscriptInv, InPage
  <2> QED BY <2>1, <2>2, <2>3, <2>4 DEF TranscriptInv
<1>8. ASSUME NEW z \in Sizes, ResizeView(z) PROVE TranscriptInv'
  <2>1. /\ Pressed /\ size' = z /\ jumped' = {} /\ UNCHANGED <<events, search, opened>>
        /\ lines' = transcript_of(events, z.width) /\ scroll' = clamp_scroll(scroll, lines', z)
    BY <1>8 DEF ResizeView
  <2>2. scroll \in Nat BY DEF TranscriptInv
  <2> QED BY <2>1, <2>2, PageStep
<1>9. CASE UNCHANGED transcriptVars
  <2>1. search' = {} \/ \E s : search' = {s} /\ SearchIs(s)'
    BY <1>9, SameRecording DEF TranscriptInv, transcriptVars
  <2>2. \A line \in jumped' : line \in Nat /\ InPage(line)'
    BY <1>9 DEF TranscriptInv, InPage, transcriptVars
  <2> QED BY <1>9, <2>1, <2>2 DEF TranscriptInv, transcriptVars
<1> QED
  BY <1>1, <1>2, <1>3, <1>4, <1>5, <1>6, <1>7, <1>8, <1>9 DEF TranscriptNext

(* A view opens on the recording at the width of the window.                *)
LEMMA TranscriptStarts == TranscriptInit => TranscriptInv
<1> SUFFICES ASSUME TranscriptInit PROVE TranscriptInv OBVIOUS
<1>1. /\ events \in Recorded /\ size \in Sizes /\ lines = transcript_of(events, size.width)
      /\ scroll = 0 /\ search = {} /\ opened = TRUE /\ jumped = {} /\ viewKeys = MaxViewKeys
  BY DEF TranscriptInit
<1>2. max_scroll(lines, size) \in Nat BY <1>1, WindowIs
<1> QED BY <1>1, <1>2, TranscriptAssumption DEF TranscriptInv

(* The recording is put on the screen as it was, the scroll starts on a page *)
(* that is there, and a search holds the matches of the width it was run at. *)
THEOREM TranscriptHolds == TranscriptSpec => []TranscriptInv
BY TranscriptStarts, TranscriptStep, PTL DEF TranscriptSpec

(* A view has one search at most, whose current match is one of its matches *)
(* (TranscriptTypeOK).                                                      *)
THEOREM TranscriptTypeCorrect == TranscriptSpec => []TranscriptTypeOK
<1>1. TranscriptInv => TranscriptTypeOK
  <2> SUFFICES ASSUME TranscriptInv PROVE TranscriptTypeOK OBVIOUS
  <2>1. Cardinality(search) <= 1
    <3>1. search = {} \/ \E s : search = {s} BY DEF TranscriptInv
    <3>2. CASE search = {} BY <3>2, FS_EmptySet
    <3>3. CASE \E s : search = {s}
      <4>1. PICK s : search = {s} BY <3>3
      <4>2. Cardinality({s}) = 1 BY FS_Singleton
      <4> QED BY <4>1, <4>2
    <3> QED BY <3>1, <3>2, <3>3
  <2>2. \A s \in search : s.current = 0 \/ s.current < Len(s.matches)
    BY SearchHeld DEF SearchIs
  <2> QED BY <2>1, <2>2 DEF TranscriptInv, TranscriptTypeOK
<1> QED BY <1>1, TranscriptHolds, PTL

(* A match jumped to is on the page, however far down and however small the *)
(* window; the page starts no further down than the last full one; and the  *)
(* matches of a search run at this width are lines that hold its query      *)
(* (jump_to_current_match, clamp_scroll, find_matches).                     *)
THEOREM MatchesInView == TranscriptSpec => []MatchInView
<1>1. TranscriptInv => MatchInView
  <2> SUFFICES ASSUME TranscriptInv PROVE MatchInView OBVIOUS
  <2>1. /\ scroll <= max_scroll(lines, size) /\ lines = transcript_of(events, size.width)
        /\ \A line \in jumped : InPage(line)
    BY DEF TranscriptInv
  <2>2. ASSUME NEW s \in search, NEW k \in DOMAIN s.matches, s.at = size.width
        PROVE  s.query \in lines[s.matches[k] + 1]
    BY <2>1, <2>2, SearchHeld DEF SearchIs
  <2> QED BY <2>1, <2>2 DEF MatchInView, InPage
<1> QED BY <1>1, TranscriptHolds, PTL

-----------------------------------------------------------------------------
(* Background activity.                                                    *)

(* Lists of items.                                                          *)

IsItem(it) ==
  /\ DOMAIN it = {"id", "kind", "status", "stoppable", "log", "stop_requested"}
  /\ it.id \in Items /\ it.log \in 0 .. LogCap /\ it.stop_requested \in BOOLEAN

(* One item per id.                                                         *)
ItemList(list) ==
  /\ list \in Seq(Range(list))
  /\ \A i \in DOMAIN list : IsItem(list[i])
  /\ \A i, j \in DOMAIN list : list[i].id = list[j].id => i = j

Has(list, id) == \E i \in DOMAIN list : list[i].id = id

(* What was said to be active is listed, and active.                        *)
ToldTracks(list, said) ==
  /\ said \in [Items -> {"none", "active", "ended"}]
  /\ \A id \in Items : said[id] = "active" =>
       \E i \in DOMAIN list : list[i].id = id /\ Active(list[i].status)

(* A list has a place for every number up to its length.                    *)
LEMMA PlacesOf ==
  ASSUME NEW list, ItemList(list)
  PROVE  Len(list) \in Nat /\ DOMAIN list = 1 .. Len(list)
BY DEF ItemList

(* Lists are built place by place.                                          *)
LEMMA ListOf ==
  ASSUME NEW n \in Nat, NEW q, DOMAIN q = 1 .. n, q = [i \in 1 .. n |-> q[i]],
         \A i \in 1 .. n : IsItem(q[i]),
         \A i, j \in 1 .. n : q[i].id = q[j].id => i = j
  PROVE  ItemList(q)
<1>1. \A i \in 1 .. n : q[i] \in Range(q) BY DEF Range
<1>2. q \in [1 .. n -> Range(q)] BY <1>1
<1>3. q \in Seq(Range(q)) BY <1>2
<1> QED BY <1>3 DEF ItemList

(* StatusIn finds the item, if there is one.                                *)
LEMMA StatusOf ==
  ASSUME NEW list, ItemList(list), NEW i \in DOMAIN list
  PROVE  StatusIn(list, list[i].id) = list[i].status
<1> DEFINE at == {k \in DOMAIN list : list[k].id = list[i].id}
<1>1. at = {i} BY DEF ItemList
<1>2. at # {} /\ (CHOOSE k \in at : TRUE) = i BY <1>1
<1> QED BY <1>2 DEF StatusIn

(* ... and nothing, if there is none.                                       *)
LEMMA NoStatus ==
  ASSUME NEW list, NEW id, ~Has(list, id)
  PROVE  StatusIn(list, id) = ""
BY DEF StatusIn, Has

(* Merge: the item keeps its id and its log.                                *)
LEMMA MergeIs ==
  ASSUME NEW it, IsItem(it), NEW p
  PROVE  IsItem(Merge(it, p)) /\ Merge(it, p).id = it.id
<1>1. /\ DOMAIN Merge(it, p) = DOMAIN it
      /\ Merge(it, p).id = it.id /\ Merge(it, p).log = it.log
      /\ Merge(it, p).stop_requested = (it.stop_requested /\ p.status \in {"", it.status})
  BY DEF Merge, IsItem
<1>2. Merge(it, p).stop_requested \in BOOLEAN BY <1>1
<1> QED BY <1>1, <1>2 DEF IsItem

(* A new item is one.                                                       *)
LEMMA FreshIs ==
  ASSUME NEW id \in Items
  PROVE  IsItem(Fresh(id)) /\ Fresh(id).id = id
<1>1. LogCap \in Nat BY ActivityAssumption
<1> QED BY <1>1 DEF IsItem, Fresh

(* A list with one more.                                                    *)
LEMMA AppendIs ==
  ASSUME NEW list, ItemList(list), NEW it, IsItem(it), ~Has(list, it.id)
  PROVE  LET q == Append(list, it) IN
         /\ ItemList(q) /\ DOMAIN list \subseteq DOMAIN q
         /\ \A i \in DOMAIN list : q[i] = list[i]
         /\ \E i \in DOMAIN q : q[i] = it
<1> DEFINE q == Append(list, it)
           n == Len(list)
<1>1. n \in Nat /\ DOMAIN list = 1 .. n BY PlacesOf
<1>2. list \in Seq(Range(list) \cup {it})
  <2>1. list \in [1 .. n -> Range(list)] BY <1>1 DEF ItemList
  <2> QED BY <1>1, <2>1
<1>3. /\ Len(q) = n + 1 /\ DOMAIN q = 1 .. n + 1 /\ q = [i \in 1 .. n + 1 |-> q[i]]
      /\ q[n + 1] = it /\ \A i \in 1 .. n : q[i] = list[i]
  <2>1. it \in Range(list) \cup {it} OBVIOUS
  <2> DEFINE S == Range(list) \cup {it}
  <2> HIDE DEF S
  <2>2. list \in Seq(S) /\ it \in S BY <1>2, <2>1 DEF S
  <2>3. q \in Seq(S) /\ Len(q) = n + 1 /\ q[n + 1] = it BY <2>2
  <2>4. \A i \in 1 .. n : q[i] = list[i] BY <2>2
  <2>5. DOMAIN q = 1 .. n + 1 /\ q = [i \in 1 .. n + 1 |-> q[i]]
    <3> HIDE DEF q, n
    <3> QED BY <2>3
  <2> QED BY <2>3, <2>4, <2>5
<1> HIDE DEF q, n
<1>4. \A i \in 1 .. n + 1 : IsItem(q[i]) BY <1>1, <1>3 DEF ItemList
<1>5. \A i, j \in 1 .. n + 1 : q[i].id = q[j].id => i = j
  <2> TAKE i, j \in 1 .. n + 1
  <2>1. CASE i = n + 1 /\ j = n + 1 BY <2>1
  <2>2. CASE i # n + 1 /\ j = n + 1
    <3>1. i \in DOMAIN list /\ q[i] = list[i] /\ q[j] = it BY <1>1, <1>3, <2>2
    <3> QED BY <3>1 DEF Has
  <2>3. CASE i = n + 1 /\ j # n + 1
    <3>1. j \in DOMAIN list /\ q[j] = list[j] /\ q[i] = it BY <1>1, <1>3, <2>3
    <3> QED BY <3>1 DEF Has
  <2>4. CASE i # n + 1 /\ j # n + 1
    <3>1. i \in DOMAIN list /\ j \in DOMAIN list /\ q[i] = list[i] /\ q[j] = list[j]
      BY <1>1, <1>3, <2>4
    <3> QED BY <3>1 DEF ItemList
  <2> QED BY <2>1, <2>2, <2>3, <2>4
<1>6. n + 1 \in Nat BY <1>1
<1>7. ItemList(q) BY <1>3, <1>4, <1>5, <1>6, ListOf
<1>8. n + 1 \in DOMAIN q /\ DOMAIN list \subseteq DOMAIN q BY <1>1, <1>3
<1> QED BY <1>1, <1>3, <1>7, <1>8 DEF q

(* Every item changes in its place and keeps its id.                        *)
LEMMA InPlace ==
  ASSUME NEW list, ItemList(list), NEW q, q = [i \in DOMAIN list |-> q[i]],
         \A i \in DOMAIN list : IsItem(q[i]) /\ q[i].id = list[i].id
  PROVE  ItemList(q) /\ DOMAIN q = DOMAIN list /\ Len(q) = Len(list)
<1> DEFINE n == Len(list)
<1>1. n \in Nat /\ DOMAIN list = 1 .. n BY PlacesOf
<1>2. DOMAIN q = 1 .. n /\ q = [i \in 1 .. n |-> q[i]] BY <1>1
<1>3. \A i, j \in 1 .. n : q[i].id = q[j].id => i = j BY <1>1 DEF ItemList
<1>4. \A i \in 1 .. n : IsItem(q[i]) BY <1>1
<1> HIDE DEF n
<1>5. ItemList(q) BY <1>1, <1>2, <1>3, <1>4, ListOf
<1>6. Len(q) = n
  <2>1. Len(q) \in Nat /\ DOMAIN q = 1 .. Len(q) BY <1>5, PlacesOf
  <2> QED BY <1>1, <1>2, <2>1
<1> QED BY <1>1, <1>2, <1>5, <1>6 DEF n

(* upsert: the item of the payload is listed, and every other one as it was. *)
LEMMA UpsertIs ==
  ASSUME NEW list, ItemList(list), NEW p, p.id \in Items
  PROVE  LET up == upsert(list, p) IN
         /\ ItemList(up) /\ Has(up, p.id)
         /\ \A i \in DOMAIN list :
              i \in DOMAIN up /\ up[i].id = list[i].id /\ (list[i].id # p.id => up[i] = list[i])
<1> DEFINE up == upsert(list, p)
<1>1. CASE Has(list, p.id)
  <2> DEFINE Put(i) == IF list[i].id = p.id THEN Merge(list[i], p) ELSE list[i]
  <2>1. up = [i \in DOMAIN list |-> Put(i)] BY <1>1 DEF upsert, Has
  <2>2. \A i \in DOMAIN list : IsItem(Put(i)) /\ Put(i).id = list[i].id
    BY MergeIs DEF ItemList
  <2>3. \A i \in DOMAIN list : list[i].id # p.id => Put(i) = list[i] OBVIOUS
  <2> HIDE DEF Put, up
  <2>4. up = [i \in DOMAIN list |-> up[i]] /\ \A i \in DOMAIN list : up[i] = Put(i) BY <2>1
  <2>5. ItemList(up) /\ DOMAIN up = DOMAIN list BY <2>2, <2>4, InPlace
  <2>6. Has(up, p.id) BY <1>1, <2>2, <2>4, <2>5 DEF Has
  <2>7. \A i \in DOMAIN list :
          i \in DOMAIN up /\ up[i].id = list[i].id /\ (list[i].id # p.id => up[i] = list[i])
    BY <2>2, <2>3, <2>4, <2>5
  <2> QED BY <2>5, <2>6, <2>7 DEF up
<1>2. CASE ~Has(list, p.id)
  <2> DEFINE it == Merge(Fresh(p.id), p)
  <2>1. up = Append(list, it) BY <1>2 DEF upsert, Has
  <2>2. IsItem(it) /\ it.id = p.id BY FreshIs, MergeIs
  <2> HIDE DEF it, up
  <2>3. /\ ItemList(up) /\ DOMAIN list \subseteq DOMAIN up
        /\ \A i \in DOMAIN list : up[i] = list[i]
        /\ \E i \in DOMAIN up : up[i] = it
    BY <1>2, <2>1, <2>2, AppendIs
  <2>4. Has(up, p.id) BY <2>2, <2>3 DEF Has
  <2> QED BY <2>3, <2>4 DEF up
<1> QED BY <1>1, <1>2

(* announce: what ends is said to have ended.                               *)
LEMMA TellKeeps ==
  ASSUME NEW list, ItemList(list), NEW said, ToldTracks(list, said), NEW p, p.id \in Items,
         NEW announce_new
  PROVE  LET up == upsert(list, p) IN
         ToldTracks(up, Announce(said, p.id, StatusIn(list, p.id), StatusIn(up, p.id),
                                 announce_new))
<1> DEFINE up  == upsert(list, p)
           was == StatusIn(list, p.id)
           is  == StatusIn(up, p.id)
           now == IF Active(is) THEN "active"
                  ELSE IF Transition(was, is, announce_new) = "ended" THEN "ended"
                  ELSE said[p.id]
           t   == Announce(said, p.id, was, is, announce_new)
<1>1. /\ ItemList(up) /\ Has(up, p.id)
      /\ \A i \in DOMAIN list :
           i \in DOMAIN up /\ up[i].id = list[i].id /\ (list[i].id # p.id => up[i] = list[i])
  BY UpsertIs
<1>2. /\ said \in [Items -> {"none", "active", "ended"}]
      /\ \A id \in Items : said[id] = "active" =>
           \E i \in DOMAIN list : list[i].id = id /\ Active(list[i].status)
  BY DEF ToldTracks
<1>3. t = [said EXCEPT ![p.id] = now] BY DEF Announce
<1>4. PICK k \in DOMAIN up : up[k].id = p.id BY <1>1 DEF Has
<1>5. is = up[k].status
  <2> HIDE DEF up
  <2> QED BY <1>1, <1>4, StatusOf
<1>6. now \in {"none", "active", "ended"}
  <2>1. said[p.id] \in {"none", "active", "ended"} BY <1>2
  <2> HIDE DEF up, was, is
  <2> QED BY <2>1
<1>7. now = "active" => Active(is)
  <2> SUFFICES ASSUME now = "active", ~Active(is) PROVE FALSE OBVIOUS
  <2>1. said[p.id] = "active" /\ Transition(was, is, announce_new) # "ended" OBVIOUS
  <2>2. PICK i \in DOMAIN list : list[i].id = p.id /\ Active(list[i].status) BY <1>2, <2>1
  <2>3. was = list[i].status BY <2>2, StatusOf
  <2>4. Active(was) BY <2>2, <2>3
  <2> HIDE DEF was, is, now, t
  <2> QED BY <2>1, <2>4 DEF Transition
<1> HIDE DEF up, was, is, now, t
<1>8. t \in [Items -> {"none", "active", "ended"}] BY <1>2, <1>3, <1>6
<1>9. ASSUME NEW id \in Items, t[id] = "active"
      PROVE  \E i \in DOMAIN up : up[i].id = id /\ Active(up[i].status)
  <2>1. CASE id = p.id
    <3>1. t[id] = now BY <1>2, <1>3, <2>1
    <3> QED BY <1>4, <1>5, <1>7, <1>9, <2>1, <3>1
  <2>2. CASE id # p.id
    <3>1. said[id] = "active" BY <1>2, <1>3, <1>9, <2>2
    <3>2. PICK i \in DOMAIN list : list[i].id = id /\ Active(list[i].status) BY <1>2, <3>1
    <3>3. i \in DOMAIN up /\ up[i] = list[i] BY <1>1, <2>2, <3>2
    <3> QED BY <3>2, <3>3
  <2> QED BY <2>1, <2>2
<1>10. ToldTracks(up, t) BY <1>8, <1>9 DEF ToldTracks
<1> QED BY <1>10 DEF up, was, is, t

(* retain: the items of the ids that stay, and no others.                   *)
LEMMA RetainedIs ==
  ASSUME NEW list, ItemList(list), NEW ids
  PROVE  LET r == Retained(list, ids) IN
         /\ ItemList(r)
         /\ \A k \in DOMAIN r : r[k].id \in ids
         /\ \A i \in DOMAIN list : list[i].id \in ids => \E k \in DOMAIN r : r[k] = list[i]
<1> DEFINE kept == {i \in DOMAIN list : list[i].id \in ids}
           f == [i \in kept |-> i]
           n == Cardinality(kept)
           At(k) == CHOOSE i \in kept : Cardinality({j \in kept : j < i}) = k - 1
           r == Retained(list, ids)
<1>1. Len(list) \in Nat /\ DOMAIN list = 1 .. Len(list) BY PlacesOf
<1>2. IsFiniteSet(kept)
  <2>1. IsFiniteSet(1 .. Len(list)) BY <1>1, FS_Interval
  <2> QED BY <1>1, <2>1, FS_Subset
<1>3. n \in Nat BY <1>2, FS_CardinalityType
<1>4. f \in [kept -> Nat] /\ \A i, j \in kept : f[i] = f[j] => i = j BY <1>1
<1>5. \A i \in kept : {j \in kept : j < i} = Below(kept, f, i) BY DEF Below
<1>6. r = [k \in 1 .. n |-> list[At(k)]] BY DEF Retained
<1>7. \A i \in kept : i \in DOMAIN list /\ list[i].id \in ids OBVIOUS
<1>8. \A i \in DOMAIN list : list[i].id \in ids => i \in kept OBVIOUS
<1> DEFINE Count(i) == Cardinality({j \in kept : j < i})
<1>9. \A k \in 1 .. n : \E i \in kept : Count(i) = k - 1
  <2> HIDE DEF kept, f
  <2> TAKE k \in 1 .. n
  <2>1. k - 1 \in Nat /\ k - 1 < Cardinality(kept) BY <1>3
  <2>2. \E i \in kept : Cardinality(Below(kept, f, i)) = k - 1 BY <1>2, <1>4, <2>1, RankedBy
  <2> QED BY <1>5, <2>2
<1>10. \A i, j \in kept : i # j => Count(i) # Count(j)
  <2>1. \A i \in kept : i \in Nat /\ f[i] = i BY <1>1
  <2>2. \A i \in kept : Count(i) \in Nat
    <3> HIDE DEF kept, f
    <3>1. \A i \in kept : IsFiniteSet(Below(kept, f, i)) BY <1>2, BelowIs
    <3> QED BY <1>5, <3>1, FS_CardinalityType
  <2> HIDE DEF kept, f
  <2>3. ASSUME NEW i \in kept, NEW j \in kept, i < j PROVE Count(i) < Count(j)
    <3>1. f[i] < f[j] BY <2>1, <2>3
    <3>2. Cardinality(Below(kept, f, i)) < Cardinality(Below(kept, f, j))
      BY <1>2, <1>4, <3>1, RankedOnce
    <3> QED BY <1>5, <3>2
  <2> HIDE DEF Count
  <2> TAKE i, j \in kept
  <2> HAVE i # j
  <2>4. i < j \/ j < i BY <2>1
  <2> QED BY <2>2, <2>3, <2>4
<1>11. \A i \in kept : Count(i) \in 0 .. n - 1
  <2> TAKE i \in kept
  <2> DEFINE U == {j \in kept : j < i}
  <2>1. U \subseteq kept /\ i \notin U BY <1>1
  <2>2. U # kept BY <2>1
  <2> HIDE DEF U, kept
  <2>3. IsFiniteSet(U) BY <1>2, <2>1, FS_Subset
  <2>4. Cardinality(U) <= n /\ Cardinality(U) # n BY <1>2, <2>1, <2>2, FS_Subset
  <2>5. Cardinality(U) \in Nat BY <2>3, FS_CardinalityType
  <2>6. Cardinality(U) \in 0 .. n - 1 BY <1>3, <2>4, <2>5
  <2> QED BY <2>6 DEF U
<1>12. \A k \in 1 .. n : At(k) \in kept /\ Count(At(k)) = k - 1
  <2> HIDE DEF kept
  <2> QED BY <1>9
<1> HIDE DEF kept, At, Count, n, r, f
<1>13. DOMAIN r = 1 .. n /\ r = [k \in 1 .. n |-> r[k]] /\ \A k \in 1 .. n : r[k] = list[At(k)]
  BY <1>6
<1>14. \A k \in 1 .. n : IsItem(r[k]) /\ r[k].id \in ids BY <1>7, <1>12, <1>13 DEF ItemList
<1>15. \A k, l \in 1 .. n : r[k].id = r[l].id => k = l
  <2> TAKE k, l \in 1 .. n
  <2> HAVE r[k].id = r[l].id
  <2>1. At(k) = At(l) BY <1>7, <1>12, <1>13 DEF ItemList
  <2>2. k - 1 = l - 1 BY <1>12, <2>1
  <2> QED BY <1>3, <2>2
<1>16. ItemList(r) BY <1>3, <1>13, <1>14, <1>15, ListOf
<1>17. ASSUME NEW i \in DOMAIN list, list[i].id \in ids
       PROVE  \E k \in DOMAIN r : r[k] = list[i]
  <2>1. i \in kept /\ Count(i) \in 0 .. n - 1 BY <1>8, <1>11, <1>17
  <2>2. Count(i) + 1 \in 1 .. n /\ Count(i) + 1 - 1 = Count(i) BY <1>3, <2>1
  <2>3. At(Count(i) + 1) = i BY <1>10, <1>12, <2>1, <2>2
  <2> QED BY <1>13, <2>2, <2>3
<1> QED BY <1>13, <1>14, <1>16, <1>17 DEF r

(* The display order shows only items of the list, in every place.          *)
LEMMA OrderedIn ==
  ASSUME ItemList(items)
  PROVE  \A k \in DOMAIN items : \E i \in DOMAIN items : ordered[k] = items[i]
<1> DEFINE n == Len(items)
           f == [i \in DOMAIN items |-> SortKey(i)]
           r(i) == Rank(items[i])
           At(k) == CHOOSE i \in DOMAIN items :
                      Cardinality({j \in DOMAIN items : SortKey(j) < SortKey(i)}) = k - 1
<1>1. n \in Nat /\ DOMAIN items = 1 .. n BY PlacesOf
<1>2. \A i \in DOMAIN items : r(i) \in 0 .. 5
  <2> TAKE i \in DOMAIN items
  <2>1. (IF items[i].kind = "agent" THEN 0 ELSE 3) \in {0, 3} OBVIOUS
  <2>2. (IF items[i].status = "attention" THEN 0 ELSE IF Active(items[i].status) THEN 1 ELSE 2)
          \in 0 .. 2
    OBVIOUS
  <2> QED BY <2>1, <2>2 DEF Rank
<1>3. \A i \in DOMAIN items : f[i] = r(i) * n + i BY DEF SortKey
<1> HIDE DEF r, f, n
<1>4. \A i \in DOMAIN items : f[i] \in Nat
  <2> TAKE i \in DOMAIN items
  <2>1. r(i) \in Nat /\ i \in Nat BY <1>1, <1>2
  <2>2. r(i) * n \in Nat BY <1>1, <2>1
  <2> QED BY <1>3, <2>1, <2>2
<1>6. \A i, j \in DOMAIN items : f[i] = f[j] => i = j
  <2> TAKE i, j \in DOMAIN items
  <2> HAVE f[i] = f[j]
  <2>1. i \in 1 .. n /\ j \in 1 .. n /\ r(i) \in 0 .. 5 /\ r(j) \in 0 .. 5 BY <1>1, <1>2
  <2>2. r(i) * n + i = r(j) * n + j BY <1>3
  <2>3. \A a, b \in 0 .. 5 : a < b => a * n + n <= b * n
    <3> TAKE a, b \in 0 .. 5
    <3> HAVE a < b
    <3>1. a * n + n = (a + 1) * n BY <1>1
    <3>2. a + 1 <= b OBVIOUS
    <3>3. (a + 1) * n <= b * n
      <4>1. \A x, y, m \in Nat : x <= y => x * m <= y * m OBVIOUS
      <4>2. a + 1 \in Nat /\ b \in Nat OBVIOUS
      <4> QED BY <1>1, <3>2, <4>1, <4>2
    <3> QED BY <3>1, <3>3
  <2> DEFINE x == r(i)
             y == r(j)
  <2>4. \A a \in 0 .. 5 : a * n \in Nat BY <1>1
  <2>5. ~(x < y)
    <3> SUFFICES ASSUME x < y PROVE FALSE OBVIOUS
    <3>1. x * n + n <= y * n BY <2>1, <2>3
    <3>2. x * n \in Nat /\ y * n \in Nat BY <2>1, <2>4
    <3> QED BY <1>1, <2>1, <2>2, <3>1, <3>2
  <2>6. ~(y < x)
    <3> SUFFICES ASSUME y < x PROVE FALSE OBVIOUS
    <3>1. y * n + n <= x * n BY <2>1, <2>3
    <3>2. x * n \in Nat /\ y * n \in Nat BY <2>1, <2>4
    <3> QED BY <1>1, <2>1, <2>2, <3>1, <3>2
  <2>7. x = y BY <2>1, <2>5, <2>6
  <2>8. x * n \in Nat BY <2>1, <2>4
  <2> QED BY <2>1, <2>2, <2>7, <2>8
<1>7. f \in [DOMAIN items -> Nat] BY <1>4 DEF f
<1>8. IsFiniteSet(DOMAIN items) /\ Cardinality(DOMAIN items) = n
  BY <1>1, FS_Interval
<1>9. \A i \in DOMAIN items :
        {j \in DOMAIN items : SortKey(j) < SortKey(i)} = Below(DOMAIN items, f, i)
  BY DEF Below, f
<1>10. \A k \in DOMAIN items : At(k) \in DOMAIN items
  <2> TAKE k \in DOMAIN items
  <2>1. k - 1 \in Nat /\ k - 1 < n BY <1>1
  <2>2. \E i \in DOMAIN items : Cardinality(Below(DOMAIN items, f, i)) = k - 1
    BY <1>6, <1>7, <1>8, <2>1, RankedBy
  <2>3. \E i \in DOMAIN items :
          Cardinality({j \in DOMAIN items : SortKey(j) < SortKey(i)}) = k - 1
    BY <1>9, <2>2
  <2> QED BY <2>3
<1>11. \A k \in DOMAIN items : ordered[k] = items[At(k)] BY DEF ordered
<1> QED BY <1>10, <1>11

-----------------------------------------------------------------------------
(* snapshot.                                                                *)

(* What snapshot builds, update by update, up to the n-th.                  *)
SnapshotBy(start, ps, n, f) ==
  f = [m \in 0 .. n |-> IF m = 0 THEN start ELSE Upserted(f[m - 1], ps[m])]

(* Such a function exists, whatever the number of updates ...               *)
LEMMA SnapshotExists ==
  ASSUME NEW start, NEW ps, NEW n \in Nat
  PROVE  \E f : SnapshotBy(start, ps, n, f)
<1> DEFINE Bad == {m \in Nat : ~\E f : SnapshotBy(start, ps, m, f)}
<1> SUFFICES ASSUME Bad # {} PROVE FALSE OBVIOUS
<1>1. PICK m \in Bad : \A x \in Bad : m <= x BY MinOf
<1>2. m # 0
  <2> DEFINE f == [i \in 0 .. 0 |-> start]
  <2>1. f = [i \in 0 .. 0 |-> IF i = 0 THEN start ELSE Upserted(f[i - 1], ps[i])] OBVIOUS
  <2> QED BY <2>1 DEF SnapshotBy
<1>3. m - 1 \in Nat /\ m - 1 \notin Bad BY <1>1, <1>2
<1>4. PICK f : SnapshotBy(start, ps, m - 1, f) BY <1>3
<1> DEFINE last == Upserted(f[m - 1], ps[m])
           g == [i \in 0 .. m |-> IF i = m THEN last ELSE f[i]]
<1>5. \A i \in 0 .. (m - 1) : f[i] = IF i = 0 THEN start ELSE Upserted(f[i - 1], ps[i])
  BY <1>4 DEF SnapshotBy
<1>6. \A i \in 0 .. m : g[i] = IF i = m THEN last ELSE f[i] OBVIOUS
<1>7. DOMAIN g = 0 .. m /\ g = [i \in 0 .. m |-> g[i]] OBVIOUS
<1> HIDE DEF g, last
<1>8. \A i \in 0 .. m : g[i] = IF i = 0 THEN start ELSE Upserted(g[i - 1], ps[i])
  <2> TAKE i \in 0 .. m
  <2>1. CASE i = m
    <3>1. g[i - 1] = f[i - 1] /\ g[i] = last BY <1>2, <1>3, <1>6, <2>1
    <3> QED BY <1>2, <2>1, <3>1 DEF last
  <2>2. CASE i # m
    <3>1. i \in 0 .. (m - 1) /\ g[i] = f[i] BY <1>3, <1>6, <2>2
    <3>2. i # 0 => g[i - 1] = f[i - 1] BY <1>3, <1>6, <3>1
    <3> QED BY <1>5, <3>1, <3>2
  <2> QED BY <2>1, <2>2
<1>9. SnapshotBy(start, ps, m, g)
  <2> DEFINE h == [i \in 0 .. m |-> IF i = 0 THEN start ELSE Upserted(g[i - 1], ps[i])]
  <2>1. h = [i \in 0 .. m |-> g[i]] BY <1>8
  <2> QED BY <2>1, <1>7 DEF SnapshotBy
<1> QED BY <1>1, <1>9

(* What it starts from: the items that stay, as they were, and what was     *)
(* said of them.                                                            *)
Kept(keep) ==
  [list |-> Retained(items, keep), told |-> [i \in Items |-> IF i \in keep THEN told[i] ELSE "none"]]

(* ... so that snapshot is what one of them gives for all of them.          *)
LEMMA SnapshotIs ==
  ASSUME NEW ps, Len(ps) \in Nat
  PROVE  \E f : /\ SnapshotBy(Kept({ps[k].id : k \in DOMAIN ps}), ps, Len(ps), f)
                /\ snapshot(ps) = f[Len(ps)]
<1> DEFINE start == Kept({ps[k].id : k \in DOMAIN ps})
           f == CHOOSE f : SnapshotBy(start, ps, Len(ps), f)
<1>1. SnapshotBy(start, ps, Len(ps), f) BY SnapshotExists
<1>2. snapshot(ps) = f[Len(ps)] BY DEF snapshot, SnapshotBy, Kept
<1> QED BY <1>1, <1>2

(* An item dropped by retain is one nothing is said of any more.            *)
LEMMA KeptTracks ==
  ASSUME ItemList(items), ToldTracks(items, told), NEW keep
  PROVE  ItemList(Kept(keep).list) /\ ToldTracks(Kept(keep).list, Kept(keep).told)
<1> DEFINE r == Retained(items, keep)
           t == [i \in Items |-> IF i \in keep THEN told[i] ELSE "none"]
<1>1. /\ ItemList(r)
      /\ \A i \in DOMAIN items : items[i].id \in keep => \E k \in DOMAIN r : r[k] = items[i]
  BY RetainedIs
<1>2. Kept(keep).list = r /\ Kept(keep).told = t BY DEF Kept
<1> HIDE DEF r
<1>3. t \in [Items -> {"none", "active", "ended"}] BY DEF ToldTracks
<1>4. ASSUME NEW id \in Items, t[id] = "active"
      PROVE  \E i \in DOMAIN r : r[i].id = id /\ Active(r[i].status)
  <2>1. id \in keep /\ told[id] = "active" BY <1>4
  <2>2. PICK i \in DOMAIN items : items[i].id = id /\ Active(items[i].status)
    BY <2>1 DEF ToldTracks
  <2> QED BY <1>1, <2>1, <2>2
<1> HIDE DEF t
<1>5. ToldTracks(r, t) BY <1>3, <1>4 DEF ToldTracks
<1> QED BY <1>1, <1>2, <1>5

(* snapshot: the list is one of items again, and what is said of them holds. *)
LEMMA SnapshotTracks ==
  ASSUME ItemList(items), ToldTracks(items, told), NEW ps, Len(ps) \in Nat,
         \A k \in 1 .. Len(ps) : ps[k].id \in Items
  PROVE  ItemList(snapshot(ps).list) /\ ToldTracks(snapshot(ps).list, snapshot(ps).told)
<1> DEFINE n == Len(ps)
           keep == {ps[k].id : k \in DOMAIN ps}
           start == Kept(keep)
<1>1. PICK f : SnapshotBy(start, ps, n, f) /\ snapshot(ps) = f[n] BY SnapshotIs
<1>2. \A m \in 0 .. n : f[m] = IF m = 0 THEN start ELSE Upserted(f[m - 1], ps[m])
  BY <1>1 DEF SnapshotBy
<1>3. ItemList(start.list) /\ ToldTracks(start.list, start.told)
  <2> HIDE DEF keep
  <2> QED BY KeptTracks
<1> DEFINE Fits(m) == ItemList(f[m].list) /\ ToldTracks(f[m].list, f[m].told)
           Bad == {m \in 0 .. n : ~Fits(m)}
<1> HIDE DEF start
<1>4. Bad = {}
  <2> SUFFICES ASSUME Bad # {} PROVE FALSE OBVIOUS
  <2>1. PICK m \in Bad : \A x \in Bad : m <= x
    <3>1. Bad \in SUBSET Nat OBVIOUS
    <3> HIDE DEF Bad
    <3> QED BY <3>1, MinOf
  <2>2. m \in 0 .. n /\ ~Fits(m) BY <2>1
  <2>3. m # 0
    <3>1. f[0] = start BY <1>2
    <3> QED BY <1>3, <2>2, <3>1
  <2>4. m - 1 \in 0 .. n /\ m \in 1 .. n /\ Fits(m - 1)
    <3>1. m - 1 \in 0 .. n /\ m \in 1 .. n BY <2>2, <2>3
    <3>2. m - 1 \notin Bad BY <2>1, <2>2, <3>1
    <3> QED BY <3>1, <3>2
  <2> DEFINE acc == f[m - 1]
             p == ps[m]
             next == upsert(acc.list, p)
             said == Announce(acc.told, p.id, StatusIn(acc.list, p.id), StatusIn(next, p.id), FALSE)
  <2>5. f[m] = Upserted(acc, p) BY <1>2, <2>2, <2>3
  <2>6. f[m].list = next /\ f[m].told = said BY <2>5 DEF Upserted
  <2>7. p.id \in Items BY <2>4
  <2>8. ItemList(acc.list) /\ ToldTracks(acc.list, acc.told) BY <2>4
  <2> HIDE DEF acc, p
  <2>9. ItemList(next) BY <2>7, <2>8, UpsertIs
  <2>10. ToldTracks(next, said) BY <2>7, <2>8, TellKeeps
  <2> QED BY <2>2, <2>6, <2>9, <2>10
<1>5. n \in 0 .. n OBVIOUS
<1>6. Fits(n) BY <1>4, <1>5
<1> QED BY <1>1, <1>6

-----------------------------------------------------------------------------
(* The browser.                                                             *)

(* A view on the screen: of the list, or of an item that is listed.         *)
ViewOn(list, v) ==
  \/ DOMAIN v = {"view", "sel"} /\ v.view = "list" /\ v.sel \in Nat
  \/ /\ DOMAIN v = {"view", "id", "back", "scroll", "follow"}
     /\ v.view = "detail" /\ v.back \in Nat /\ Has(list, v.id)
  \/ /\ DOMAIN v = {"view", "id", "back", "detail"}
     /\ v.view = "confirm" /\ v.back \in Nat /\ Has(list, v.id)

OutboxIs(out) == DOMAIN out = {"view", "about", "stops"}

(* What the host knows is open is what is.                                  *)
HostKnows(list, views, out) ==
  \/ views = {} /\ out.view = NoView /\ out.about = ""
  \/ \E v : /\ views = {v} /\ ViewOn(list, v)
            /\ <<out.view, out.about>> = ShownView(v)

(* The invariant: the list, what was said of it, and the browser over it.   *)
ActivityInv ==
  /\ ItemList(items) /\ ToldTracks(items, told)
  /\ OutboxIs(outbox) /\ HostKnows(items, browser, outbox)
  /\ reportsLeft \in 0 .. MaxReports

(* The three kinds of view are told as what is on the screen.               *)
LEMMA ListShown ==
  ASSUME NEW list, NEW sel \in Nat
  PROVE  ViewOn(list, List(sel)) /\ ShownView(List(sel)) = <<"list", "">>
BY DEF ViewOn, ShownView, List

(* An item's detail ...                                                     *)
LEMMA DetailShown ==
  ASSUME NEW list, NEW id, Has(list, id), NEW back \in Nat, NEW from, NEW follow
  PROVE  /\ ViewOn(list, Detail(id, back, from, follow))
         /\ ShownView(Detail(id, back, from, follow)) = <<"detail", id>>
BY DEF ViewOn, ShownView, Detail

(* ... and a question, which counts as the view it was asked from.          *)
LEMMA ConfirmShown ==
  ASSUME NEW list, NEW id, Has(list, id), NEW back \in Nat, NEW detail
  PROVE  /\ ViewOn(list, Confirm(id, back, detail))
         /\ ShownView(Confirm(id, back, detail))
              = IF detail THEN <<"detail", id>> ELSE <<"list", "">>
BY DEF ViewOn, ShownView, Confirm

(* Told a view, the host knows it.                                          *)
LEMMA SaidKnown ==
  ASSUME OutboxIs(outbox), NEW view, NEW about, Says(view, about)
  PROVE  OutboxIs(outbox') /\ outbox'.view = view /\ outbox'.about = about
BY DEF OutboxIs, Says

(* fix_browser: whatever became of the list, a view of an item that is gone *)
(* gives way to the list, and the host is told.                             *)
LEMMA FixedKnown ==
  ASSUME ActivityInv, ItemList(items'), fix_browser
  PROVE  OutboxIs(outbox') /\ HostKnows(items', browser', outbox')
<1> DEFINE gone == \E v \in browser : v.view # "list" /\ StatusIn(items', v.id) = ""
<1>1. /\ browser' = IF gone THEN {List(0)} ELSE browser
      /\ outbox' = IF gone THEN [outbox EXCEPT !.view = "list", !.about = ""] ELSE outbox
  BY DEF fix_browser, Fixed
<1>2. CASE gone
  <2>1. browser' = {List(0)} /\ outbox' = [outbox EXCEPT !.view = "list", !.about = ""]
    BY <1>1, <1>2
  <2>2. OutboxIs(outbox') /\ outbox'.view = "list" /\ outbox'.about = ""
    BY <2>1 DEF ActivityInv, OutboxIs
  <2>3. ViewOn(items', List(0)) /\ ShownView(List(0)) = <<"list", "">> BY ListShown
  <2> QED BY <2>1, <2>2, <2>3 DEF HostKnows
<1>3. CASE ~gone
  <2>1. browser' = browser /\ outbox' = outbox BY <1>1, <1>3
  <2>2. CASE browser = {}
    <3>1. outbox.view = NoView /\ outbox.about = "" BY <2>2 DEF ActivityInv, HostKnows
    <3> QED BY <2>1, <2>2, <3>1 DEF ActivityInv, HostKnows
  <2>3. CASE browser # {}
    <3>1. PICK v : /\ browser = {v} /\ ViewOn(items, v)
                   /\ <<outbox.view, outbox.about>> = ShownView(v)
      BY <2>3 DEF ActivityInv, HostKnows
    <3>2. v.view # "list" => Has(items', v.id)
      <4> SUFFICES ASSUME v.view # "list" PROVE Has(items', v.id) OBVIOUS
      <4>1. StatusIn(items', v.id) # "" BY <1>3, <3>1
      <4> QED BY <4>1, NoStatus
    <3>3. ViewOn(items', v) BY <3>1, <3>2 DEF ViewOn
    <3> QED BY <2>1, <3>1, <3>3 DEF ActivityInv, HostKnows
  <2> QED BY <2>2, <2>3
<1> QED BY <1>2, <1>3

-----------------------------------------------------------------------------
(* The steps.                                                               *)

(* An event of the host counts.                                             *)
LEMMA Reported ==
  ASSUME ActivityInv, Report
  PROVE  reportsLeft' \in 0 .. MaxReports
BY ActivityAssumption DEF ActivityInv, Report

(* ActivityUpdate.                                                          *)
LEMMA UpdateStep ==
  ASSUME ActivityInv, NEW p \in Updates, ActivityUpdate(p)
  PROVE  ActivityInv'
<1>1. p.id \in Items BY ActivityAssumption
<1>2. /\ Report /\ items' = upsert(items, p) /\ fix_browser
      /\ told' = Announce(told, p.id, StatusIn(items, p.id), StatusIn(items', p.id), TRUE)
  BY DEF ActivityUpdate
<1>3. ItemList(items) /\ ToldTracks(items, told) BY DEF ActivityInv
<1>4. ItemList(items') BY <1>1, <1>2, <1>3, UpsertIs
<1>5. ToldTracks(items', told') BY <1>1, <1>2, <1>3, TellKeeps
<1>6. OutboxIs(outbox') /\ HostKnows(items', browser', outbox') BY <1>2, <1>4, FixedKnown
<1>7. reportsLeft' \in 0 .. MaxReports BY <1>2, Reported
<1>8. ItemList(items)' /\ ToldTracks(items, told)' /\ OutboxIs(outbox)'
      /\ HostKnows(items, browser, outbox)'
  BY <1>4, <1>5, <1>6 DEF ItemList, ToldTracks, OutboxIs, HostKnows
<1> QED BY <1>7, <1>8 DEF ActivityInv

(* ActivitySnapshot.                                                        *)
LEMMA SnapshotStep ==
  ASSUME ActivityInv, NEW ps, Len(ps) \in Nat, \A k \in 1 .. Len(ps) : ps[k].id \in Items,
         ActivitySnapshot(ps)
  PROVE  ActivityInv'
<1>1. /\ Report /\ items' = snapshot(ps).list /\ told' = snapshot(ps).told /\ fix_browser
  BY DEF ActivitySnapshot
<1>2. ItemList(items) /\ ToldTracks(items, told) BY DEF ActivityInv
<1>3. ItemList(items') /\ ToldTracks(items', told') BY <1>1, <1>2, SnapshotTracks
<1>4. OutboxIs(outbox') /\ HostKnows(items', browser', outbox') BY <1>1, <1>3, FixedKnown
<1>5. reportsLeft' \in 0 .. MaxReports BY <1>1, Reported
<1> QED BY <1>3, <1>4, <1>5 DEF ActivityInv

(* ActivityRemoved: nothing is said of the item any more.                   *)
LEMMA RemovedStep ==
  ASSUME ActivityInv, NEW id \in Items, ActivityRemoved(id)
  PROVE  ActivityInv'
<1> DEFINE ids == Present \ {id}
<1>1. /\ Report /\ items' = Retained(items, ids) /\ fix_browser
      /\ told' = [told EXCEPT ![id] = "none"]
  BY DEF ActivityRemoved
<1>2. ItemList(items) /\ ToldTracks(items, told) BY DEF ActivityInv
<1>3. \A i \in DOMAIN items : items[i].id # id => items[i].id \in ids BY DEF Present
<1> HIDE DEF ids
<1>4. /\ ItemList(items')
      /\ \A i \in DOMAIN items : items[i].id \in ids => \E k \in DOMAIN items' : items'[k] = items[i]
  BY <1>1, <1>2, RetainedIs
<1>5. told' \in [Items -> {"none", "active", "ended"}] BY <1>1, <1>2 DEF ToldTracks
<1>6. ASSUME NEW x \in Items, told'[x] = "active"
      PROVE  \E i \in DOMAIN items' : items'[i].id = x /\ Active(items'[i].status)
  <2>1. x # id /\ told[x] = "active" BY <1>1, <1>2, <1>6 DEF ToldTracks
  <2>2. PICK i \in DOMAIN items : items[i].id = x /\ Active(items[i].status)
    BY <1>2, <2>1 DEF ToldTracks
  <2> QED BY <1>3, <1>4, <2>1, <2>2
<1>7. ToldTracks(items', told') BY <1>5, <1>6 DEF ToldTracks
<1>8. OutboxIs(outbox') /\ HostKnows(items', browser', outbox') BY <1>1, <1>4, FixedKnown
<1>9. reportsLeft' \in 0 .. MaxReports BY <1>1, Reported
<1> QED BY <1>4, <1>7, <1>8, <1>9 DEF ActivityInv

(* A step that changes items where they stand, but neither their ids nor    *)
(* their statuses.                                                          *)
LEMMA InPlaceStep ==
  ASSUME ActivityInv, items' = [i \in DOMAIN items |-> items'[i]],
         \A i \in DOMAIN items :
           IsItem(items'[i]) /\ items'[i].id = items[i].id /\ items'[i].status = items[i].status
  PROVE  /\ ItemList(items') /\ ToldTracks(items', told) /\ DOMAIN items' = DOMAIN items
         /\ \A id : Has(items, id) => Has(items', id)
         /\ \A v : ViewOn(items, v) => ViewOn(items', v)
<1>1. ItemList(items) /\ ToldTracks(items, told) BY DEF ActivityInv
<1>2. ItemList(items') /\ DOMAIN items' = DOMAIN items BY <1>1, InPlace
<1>3. ToldTracks(items', told) BY <1>1, <1>2 DEF ToldTracks
<1>4. \A id : Has(items, id) => Has(items', id) BY <1>2 DEF Has
<1>5. \A v : ViewOn(items, v) => ViewOn(items', v) BY <1>4 DEF ViewOn
<1> QED BY <1>2, <1>3, <1>4, <1>5

(* ActivityLog: the log stays within LOG_LINES.                             *)
LEMMA LogStep ==
  ASSUME ActivityInv, NEW id \in Items, NEW newlines \in Nat, ActivityLog(id, newlines)
  PROVE  ActivityInv'
<1> DEFINE Lines(i) == (IF items[i].log = 0 THEN 1 ELSE items[i].log) + newlines
           Put(i) == IF items[i].id # id THEN items[i]
                     ELSE [items[i] EXCEPT !.log = IF Lines(i) > LogCap THEN LogCap ELSE Lines(i)]
<1>1. /\ Report /\ items' = [i \in DOMAIN items |-> Put(i)]
      /\ browser' = browser /\ outbox' = outbox /\ told' = told
  BY DEF ActivityLog
<1>2. LogCap \in Nat BY ActivityAssumption
<1>3. \A i \in DOMAIN items :
        IsItem(Put(i)) /\ Put(i).id = items[i].id /\ Put(i).status = items[i].status
  <2> TAKE i \in DOMAIN items
  <2>1. IsItem(items[i]) BY DEF ActivityInv, ItemList
  <2>2. Lines(i) \in Nat BY <1>2, <2>1 DEF IsItem
  <2> DEFINE log == IF Lines(i) > LogCap THEN LogCap ELSE Lines(i)
             it == [items[i] EXCEPT !.log = log]
  <2>3. log \in 0 .. LogCap BY <1>2, <2>2
  <2> HIDE DEF log, Lines
  <2>4. /\ DOMAIN it = DOMAIN items[i] /\ it.log = log /\ it.id = items[i].id
        /\ it.stop_requested = items[i].stop_requested /\ it.status = items[i].status
    BY <2>1 DEF IsItem
  <2> HIDE DEF it
  <2>5. IsItem(it) BY <2>1, <2>3, <2>4 DEF IsItem
  <2>6. Put(i) = IF items[i].id # id THEN items[i] ELSE it BY DEF it, log
  <2> QED BY <2>1, <2>4, <2>5, <2>6
<1> HIDE DEF Put
<1>4. items' = [i \in DOMAIN items |-> items'[i]] /\ \A i \in DOMAIN items : items'[i] = Put(i)
  BY <1>1
<1>5. /\ ItemList(items') /\ ToldTracks(items', told)
      /\ \A v : ViewOn(items, v) => ViewOn(items', v)
  BY <1>3, <1>4, InPlaceStep
<1>6. HostKnows(items', browser, outbox) BY <1>5 DEF ActivityInv, HostKnows
<1>7. reportsLeft' \in 0 .. MaxReports BY <1>1, Reported
<1> QED BY <1>1, <1>5, <1>6, <1>7 DEF ActivityInv

-----------------------------------------------------------------------------
(* The keys.                                                                *)

(* A step of the browser alone.                                             *)
LEMMA BrowserStep ==
  ASSUME ActivityInv, UNCHANGED <<items, told, reportsLeft>>, OutboxIs(outbox'),
         \/ browser' = {} /\ outbox'.view = NoView /\ outbox'.about = ""
         \/ \E v : /\ browser' = {v} /\ ViewOn(items, v)
                   /\ <<outbox'.view, outbox'.about>> = ShownView(v)
  PROVE  ActivityInv'
<1>1. HostKnows(items', browser', outbox') BY DEF HostKnows
<1> QED BY <1>1 DEF ActivityInv

(* The browser is closed.                                                   *)
LEMMA ClosedStep ==
  ASSUME ActivityInv, UNCHANGED <<items, told, reportsLeft>>, browser' = {}, Says(NoView, "")
  PROVE  ActivityInv'
<1>1. OutboxIs(outbox') /\ outbox'.view = NoView /\ outbox'.about = ""
  BY SaidKnown DEF ActivityInv
<1> QED BY <1>1, BrowserStep

(* The list is opened.                                                      *)
LEMMA ListStep ==
  ASSUME ActivityInv, UNCHANGED <<items, told, reportsLeft>>, NEW sel \in Nat,
         browser' = {List(sel)}, Says("list", "")
  PROVE  ActivityInv'
<1>1. OutboxIs(outbox') /\ outbox'.view = "list" /\ outbox'.about = ""
  BY SaidKnown DEF ActivityInv
<1>2. ViewOn(items, List(sel)) /\ ShownView(List(sel)) = <<"list", "">> BY ListShown
<1> QED BY <1>1, <1>2, BrowserStep

(* A key that leaves the host at the view it knows.                         *)
LEMMA QuietStep ==
  ASSUME ActivityInv, UNCHANGED <<items, told, reportsLeft, outbox>>, NEW v \in browser,
         NEW w, browser' = {w}, ViewOn(items, w), ShownView(w) = ShownView(v)
  PROVE  ActivityInv'
<1>1. <<outbox.view, outbox.about>> = ShownView(v) BY DEF ActivityInv, HostKnows
<1>2. <<outbox'.view, outbox'.about>> = ShownView(w) BY <1>1
<1>3. OutboxIs(outbox') BY DEF ActivityInv
<1> QED BY <1>2, <1>3, BrowserStep

(* The view that is open is the only one.                                   *)
LEMMA ViewOf ==
  ASSUME ActivityInv, NEW v \in browser
  PROVE  browser = {v} /\ ViewOn(items, v)
BY DEF ActivityInv, HostKnows

(* A key in the list: the selection goes round, an item is opened, or a     *)
(* question is asked about one.                                             *)
LEMMA ListKeyStep ==
  ASSUME ActivityInv, NEW v \in browser, v.view = "list", ListKey(v),
         UNCHANGED <<items, told, reportsLeft>>
  PROVE  ActivityInv'
<1> DEFINE n == Len(items)
           sel == Selected(v.sel)
           it == ordered[sel + 1]
<1>1. \/ browser' = {} /\ Says(NoView, "")
      \/ /\ n > 0
         /\ \/ browser' = {List((sel + n - 1) % n)} /\ UNCHANGED outbox
            \/ browser' = {List((sel + 1) % n)} /\ UNCHANGED outbox
            \/ browser' = {Detail(it.id, sel, 0, TRUE)} /\ Says("detail", it.id)
            \/ browser' = {Confirm(it.id, sel, FALSE)} /\ UNCHANGED outbox
  BY DEF ListKey
<1>2. ItemList(items) /\ browser = {v} /\ ViewOn(items, v) /\ v.sel \in Nat
  BY ViewOf DEF ActivityInv, ViewOn
<1>3. n \in Nat /\ DOMAIN items = 1 .. n BY <1>2, PlacesOf
<1>4. ShownView(v) = <<"list", "">> BY DEF ShownView
<1>5. CASE browser' = {} /\ Says(NoView, "") BY <1>5, ClosedStep
<1>6. ASSUME n > 0 PROVE sel \in 0 .. n - 1
  <2>1. sel = IF v.sel < n THEN v.sel ELSE n - 1 BY DEF Selected
  <2> HIDE DEF n
  <2> QED BY <1>2, <1>3, <1>6, <2>1
<1> HIDE DEF sel
<1>7. ASSUME n > 0 PROVE Has(items, it.id)
  <2>1. sel + 1 \in DOMAIN items BY <1>3, <1>6, <1>7
  <2>2. \E i \in DOMAIN items : ordered[sel + 1] = items[i] BY <1>2, <2>1, OrderedIn
  <2> QED BY <2>2 DEF Has
<1> HIDE DEF n, it
<1>8. ASSUME n > 0, NEW to \in Nat, browser' = {List(to % n)}, UNCHANGED outbox
      PROVE  ActivityInv'
  <2>1. to % n \in Nat BY <1>3, <1>8
  <2>2. ViewOn(items, List(to % n)) /\ ShownView(List(to % n)) = <<"list", "">>
    BY <2>1, ListShown
  <2> QED BY <1>4, <1>8, <2>2, QuietStep
<1>9. CASE n > 0 /\ browser' = {List((sel + n - 1) % n)} /\ UNCHANGED outbox
  <2>1. sel + n - 1 \in Nat BY <1>3, <1>6, <1>9
  <2> QED BY <1>8, <1>9, <2>1
<1>10. CASE n > 0 /\ browser' = {List((sel + 1) % n)} /\ UNCHANGED outbox
  <2>1. sel + 1 \in Nat BY <1>3, <1>6, <1>10
  <2> QED BY <1>8, <1>10, <2>1
<1>11. CASE n > 0 /\ browser' = {Detail(it.id, sel, 0, TRUE)} /\ Says("detail", it.id)
  <2>1. sel \in Nat BY <1>6, <1>11
  <2>2. OutboxIs(outbox') /\ outbox'.view = "detail" /\ outbox'.about = it.id
    BY <1>11, SaidKnown DEF ActivityInv
  <2>3. /\ ViewOn(items, Detail(it.id, sel, 0, TRUE))
        /\ ShownView(Detail(it.id, sel, 0, TRUE)) = <<"detail", it.id>>
    BY <1>7, <1>11, <2>1, DetailShown
  <2> QED BY <1>11, <2>2, <2>3, BrowserStep
<1>12. CASE n > 0 /\ browser' = {Confirm(it.id, sel, FALSE)} /\ UNCHANGED outbox
  <2>1. sel \in Nat BY <1>6, <1>12
  <2>2. /\ ViewOn(items, Confirm(it.id, sel, FALSE))
        /\ ShownView(Confirm(it.id, sel, FALSE)) = <<"list", "">>
    BY <1>7, <1>12, <2>1, ConfirmShown
  <2> QED BY <1>4, <1>12, <2>2, QuietStep
<1> QED BY <1>1, <1>5, <1>9, <1>10, <1>11, <1>12

(* Scrolled: still the same item's detail.                                  *)
LEMMA ScrolledOn ==
  ASSUME NEW list, NEW v, ViewOn(list, v), v.view = "detail", NEW to
  PROVE  /\ ViewOn(list, Scrolled(v, to)) /\ ShownView(Scrolled(v, to)) = <<"detail", v.id>>
<1> DEFINE w == Scrolled(v, to)
           max == IF Get(v.id).log > Page THEN Get(v.id).log - Page ELSE 0
           s == IF to < max THEN to ELSE max
           f == to = 0
<1>1. w = [v EXCEPT !.scroll = s, !.follow = f] BY DEF Scrolled
<1>2. /\ DOMAIN v = {"view", "id", "back", "scroll", "follow"} /\ v.back \in Nat /\ Has(list, v.id)
  BY DEF ViewOn
<1> HIDE DEF s, f, w
<1>3. DOMAIN w = DOMAIN v /\ w.view = "detail" /\ w.id = v.id /\ w.back = v.back
  BY <1>1, <1>2
<1>4. ViewOn(list, w) BY <1>2, <1>3 DEF ViewOn
<1>5. ShownView(w) = <<"detail", v.id>> BY <1>3 DEF ShownView
<1> QED BY <1>4, <1>5 DEF w

(* A key in an item's detail.                                               *)
LEMMA DetailKeyStep ==
  ASSUME ActivityInv, NEW v \in browser, v.view = "detail", DetailKey(v),
         UNCHANGED <<items, told, reportsLeft>>
  PROVE  ActivityInv'
<1>1. \/ browser' = {List(v.back)} /\ Says("list", "")
      \/ browser' = {} /\ Says(NoView, "")
      \/ \E to : browser' = {Scrolled(v, to)} /\ UNCHANGED outbox
      \/ browser' = {Confirm(v.id, v.back, TRUE)} /\ UNCHANGED outbox
  <2> DEFINE at == IF v.follow THEN 0 ELSE v.scroll
             T == {at + 1, IF at = 0 THEN 0 ELSE at - 1, at + Page,
                   IF at < Page THEN 0 ELSE at - Page, 0,
                   IF Get(v.id).log > Page THEN Get(v.id).log - Page ELSE 0}
  <2>1. \/ browser' = {List(v.back)} /\ Says("list", "")
        \/ browser' = {} /\ Says(NoView, "")
        \/ \E to \in T : browser' = {Scrolled(v, to)} /\ UNCHANGED outbox
        \/ browser' = {Confirm(v.id, v.back, TRUE)} /\ UNCHANGED outbox
    BY DEF DetailKey
  <2> HIDE DEF T
  <2> QED BY <2>1
<1>2. browser = {v} /\ ViewOn(items, v) /\ v.back \in Nat /\ Has(items, v.id)
  BY ViewOf DEF ViewOn
<1>3. ShownView(v) = <<"detail", v.id>> BY DEF ShownView
<1>4. CASE browser' = {List(v.back)} /\ Says("list", "") BY <1>2, <1>4, ListStep
<1>5. CASE browser' = {} /\ Says(NoView, "") BY <1>5, ClosedStep
<1>6. CASE \E to : browser' = {Scrolled(v, to)} /\ UNCHANGED outbox
  <2>1. PICK to : browser' = {Scrolled(v, to)} /\ UNCHANGED outbox BY <1>6
  <2>2. ViewOn(items, Scrolled(v, to)) /\ ShownView(Scrolled(v, to)) = <<"detail", v.id>>
    BY <1>2, ScrolledOn
  <2> QED BY <1>3, <2>1, <2>2, QuietStep
<1>7. CASE browser' = {Confirm(v.id, v.back, TRUE)} /\ UNCHANGED outbox
  <2>1. /\ ViewOn(items, Confirm(v.id, v.back, TRUE))
        /\ ShownView(Confirm(v.id, v.back, TRUE)) = <<"detail", v.id>>
    BY <1>2, ConfirmShown
  <2> QED BY <1>3, <1>7, <2>1, QuietStep
<1> QED BY <1>1, <1>4, <1>5, <1>6, <1>7

(* Back from a question: to the view it was asked from.                     *)
LEMMA BackOn ==
  ASSUME NEW list, NEW v, ViewOn(list, v), v.view = "confirm"
  PROVE  ViewOn(list, Back(v)) /\ ShownView(Back(v)) = ShownView(v)
<1>1. v.back \in Nat /\ Has(list, v.id) BY DEF ViewOn
<1>2. CASE v.detail
  <2>1. Back(v) = Detail(v.id, v.back, 0, TRUE) /\ ShownView(v) = <<"detail", v.id>>
    BY <1>2 DEF Back, ShownView
  <2> QED BY <1>1, <2>1, DetailShown
<1>3. CASE ~v.detail
  <2>1. Back(v) = List(v.back) /\ ShownView(v) = <<"list", "">>
    BY <1>3 DEF Back, ShownView
  <2> QED BY <1>1, <2>1, ListShown
<1> QED BY <1>2, <1>3

(* Any other key goes back.                                                 *)
LEMMA ConfirmKeyStep ==
  ASSUME ActivityInv, NEW v \in browser, v.view = "confirm", ConfirmKey(v),
         UNCHANGED <<items, told, reportsLeft>>
  PROVE  ActivityInv'
<1>1. browser = {v} /\ ViewOn(items, v) BY ViewOf
<1>2. ViewOn(items, Back(v)) /\ ShownView(Back(v)) = ShownView(v) BY <1>1, BackOn
<1>3. browser' = {Back(v)} /\ UNCHANGED outbox BY DEF ConfirmKey
<1> QED BY <1>2, <1>3, QuietStep

(* y stops the item, and goes back.                                         *)
LEMMA ConfirmStopStep ==
  ASSUME ActivityInv, NEW v \in browser, ConfirmStop(v), UNCHANGED <<told, reportsLeft>>
  PROVE  ActivityInv'
<1> DEFINE Put(i) == IF items[i].id = v.id THEN [items[i] EXCEPT !.stop_requested = TRUE]
                     ELSE items[i]
<1>1. /\ v.view = "confirm" /\ browser' = {Back(v)} /\ items' = [i \in DOMAIN items |-> Put(i)]
      /\ outbox' = [outbox EXCEPT !.stops = @ \cup {v.id}]
  BY DEF ConfirmStop
<1>2. browser = {v} /\ ViewOn(items, v) /\ <<outbox.view, outbox.about>> = ShownView(v)
  BY ViewOf DEF ActivityInv, HostKnows
<1>3. OutboxIs(outbox') /\ outbox'.view = outbox.view /\ outbox'.about = outbox.about
  BY <1>1 DEF ActivityInv, OutboxIs
<1>4. \A i \in DOMAIN items :
        IsItem(Put(i)) /\ Put(i).id = items[i].id /\ Put(i).status = items[i].status
  BY DEF ActivityInv, ItemList, IsItem
<1> HIDE DEF Put
<1>5. items' = [i \in DOMAIN items |-> items'[i]] /\ \A i \in DOMAIN items : items'[i] = Put(i)
  BY <1>1
<1>6. /\ ItemList(items') /\ ToldTracks(items', told)
      /\ \A w : ViewOn(items, w) => ViewOn(items', w)
  BY <1>4, <1>5, InPlaceStep
<1>7. ViewOn(items', Back(v)) /\ ShownView(Back(v)) = ShownView(v) BY <1>1, <1>2, <1>6, BackOn
<1>8. <<outbox'.view, outbox'.about>> = ShownView(Back(v)) BY <1>2, <1>3, <1>7
<1>9. HostKnows(items', browser', outbox') BY <1>1, <1>7, <1>8 DEF HostKnows
<1> QED BY <1>3, <1>6, <1>9 DEF ActivityInv

(* The invariant holds at the start, and every step keeps it.               *)
LEMMA ActivityStarts == ActivityInit => ActivityInv
<1> SUFFICES ASSUME ActivityInit PROVE ActivityInv OBVIOUS
<1>1. items = <<>> /\ browser = {} /\ told = [i \in Items |-> "none"]
      /\ outbox = [view |-> NoView, about |-> "", stops |-> {}] /\ reportsLeft = MaxReports
  BY DEF ActivityInit
<1>2. ItemList(<<>>) BY DEF ItemList, Range
<1>3. ToldTracks(items, told) BY <1>1 DEF ToldTracks
<1>4. OutboxIs(outbox) /\ outbox.view = NoView /\ outbox.about = "" BY <1>1 DEF OutboxIs
<1>5. reportsLeft \in 0 .. MaxReports
  <2>1. MaxReports \in Nat BY ActivityAssumption
  <2>2. reportsLeft = MaxReports BY <1>1
  <2>3. MaxReports \in 0 .. MaxReports BY <2>1
  <2> QED BY <2>2, <2>3
<1> QED BY <1>1, <1>2, <1>3, <1>4, <1>5 DEF ActivityInv, HostKnows

(* Every step keeps the invariant.                                          *)
LEMMA ActivityStep == ActivityInv /\ [ActivityNext]_activityVars => ActivityInv'
<1> SUFFICES ASSUME ActivityInv, [ActivityNext]_activityVars PROVE ActivityInv' OBVIOUS
<1>1. ASSUME NEW p \in Updates, ActivityUpdate(p) PROVE ActivityInv' BY <1>1, UpdateStep
<1>2. ASSUME NEW p \in Updates, ActivitySnapshot(<<p>>) PROVE ActivityInv'
  <2>1. Len(<<p>>) \in Nat /\ \A k \in 1 .. Len(<<p>>) : <<p>>[k].id \in Items
    BY ActivityAssumption
  <2> QED BY <1>2, <2>1, SnapshotStep
<1>3. ASSUME NEW p \in Updates, NEW q \in Updates, ActivitySnapshot(<<p, q>>)
      PROVE  ActivityInv'
  <2>1. p.id \in Items /\ q.id \in Items BY ActivityAssumption
  <2>2. Len(<<p, q>>) = 2 /\ <<p, q>>[1] = p /\ <<p, q>>[2] = q OBVIOUS
  <2>3. \A k \in 1 .. Len(<<p, q>>) : <<p, q>>[k].id \in Items
    <3> TAKE k \in 1 .. Len(<<p, q>>)
    <3>1. k = 1 \/ k = 2 BY <2>2
    <3> QED BY <2>1, <2>2, <3>1
  <2> QED BY <1>3, <2>2, <2>3, SnapshotStep
<1>4. ASSUME ActivitySnapshot(<<>>) PROVE ActivityInv'
  <2>1. Len(<<>>) \in Nat /\ \A k \in 1 .. Len(<<>>) : <<>>[k].id \in Items OBVIOUS
  <2> QED BY <1>4, <2>1, SnapshotStep
<1>5. ASSUME NEW i \in Items, ActivityRemoved(i) PROVE ActivityInv' BY <1>5, RemovedStep
<1>6. ASSUME NEW i \in Items, NEW n \in 0 .. 2, ActivityLog(i, n) PROVE ActivityInv'
  BY <1>6, LogStep
<1>7. ASSUME ActivityBrowserOpen PROVE ActivityInv'
  BY <1>7, ListStep DEF ActivityBrowserOpen
<1>8. ASSUME BrowserKey PROVE ActivityInv'
  <2>1. PICK v \in browser :
          \/ ConfirmStop(v)
          \/ /\ UNCHANGED items
             /\ \/ v.view = "list" /\ ListKey(v)
                \/ v.view = "detail" /\ DetailKey(v)
                \/ v.view = "confirm" /\ ConfirmKey(v)
    BY <1>8 DEF BrowserKey
  <2>2. UNCHANGED <<told, reportsLeft>> BY <1>8 DEF BrowserKey
  <2>3. CASE ConfirmStop(v) BY <2>2, <2>3, ConfirmStopStep
  <2>4. CASE UNCHANGED items /\ v.view = "list" /\ ListKey(v) BY <2>2, <2>4, ListKeyStep
  <2>5. CASE UNCHANGED items /\ v.view = "detail" /\ DetailKey(v) BY <2>2, <2>5, DetailKeyStep
  <2>6. CASE UNCHANGED items /\ v.view = "confirm" /\ ConfirmKey(v)
    BY <2>2, <2>6, ConfirmKeyStep
  <2> QED BY <2>1, <2>3, <2>4, <2>5, <2>6
<1>9. ASSUME UNCHANGED activityVars PROVE ActivityInv'
  <2>1. /\ items' = items /\ browser' = browser /\ outbox' = outbox /\ told' = told
        /\ reportsLeft' = reportsLeft
    BY <1>9 DEF activityVars
  <2> QED BY <2>1 DEF ActivityInv
<1> QED BY <1>1, <1>2, <1>3, <1>4, <1>5, <1>6, <1>7, <1>8, <1>9 DEF ActivityNext

(* Whatever the host reports and the user presses, the invariant holds.     *)
THEOREM ActivityInvHolds == ActivitySpec => []ActivityInv
<1>1. ActivityInit => ActivityInv BY ActivityStarts
<1>2. ActivityInv /\ [ActivityNext]_activityVars => ActivityInv' BY ActivityStep
<1> QED BY <1>1, <1>2, PTL DEF ActivitySpec

(* One item per id: the list is as long as there are ids.                   *)
LEMMA OneEach ==
  ASSUME ItemList(items)
  PROVE  Len(items) = Cardinality(Present) /\ Present \subseteq Items
<1> DEFINE n == Len(items)
           f == [k \in 1 .. n |-> items[k].id]
<1>1. n \in Nat /\ DOMAIN items = 1 .. n BY PlacesOf
<1>2. \A k \in 1 .. n : f[k] = items[k].id /\ items[k].id \in Items
  BY <1>1 DEF ItemList, IsItem
<1>3. Present = {items[k].id : k \in 1 .. n} BY <1>1 DEF Present
<1>4. f \in Bijection(1 .. n, Present)
  <2>1. f \in [1 .. n -> Present] BY <1>3
  <2>2. \A y \in Present : \E k \in 1 .. n : f[k] = y BY <1>3
  <2>3. \A a, b \in 1 .. n : f[a] = f[b] => a = b BY <1>1 DEF ItemList
  <2> HIDE DEF f, n
  <2> QED BY <2>1, <2>2, <2>3 DEF Bijection, Injection, Surjection, IsInjective
<1> HIDE DEF f, n
<1>5. ExistsBijection(1 .. n, Present) BY <1>4 DEF ExistsBijection
<1>6. Cardinality(Present) = n
  <2>1. IsFiniteSet(1 .. n) /\ Cardinality(1 .. n) = n BY <1>1, FS_Interval
  <2>2. IsFiniteSet(Present) /\ Cardinality(1 .. n) = Cardinality(Present)
    BY <1>5, <2>1, FS_Bijection
  <2> QED BY <2>1, <2>2
<1>7. Present \subseteq Items BY <1>2, <1>3
<1> QED BY <1>6, <1>7 DEF n

(* The list holds one item per id, each with a log within LOG_LINES, and at *)
(* most one view is open, in every state (ActivityTypeOK).                  *)
THEOREM ActivityTypeCorrect == ActivitySpec => []ActivityTypeOK
<1>1. ActivityInv => ActivityTypeOK
  <2> SUFFICES ASSUME ActivityInv PROVE ActivityTypeOK OBVIOUS
  <2>1. ItemList(items) BY DEF ActivityInv
  <2>2. Len(items) = Cardinality(Present) /\ Present \subseteq Items BY <2>1, OneEach
  <2>3. \A it \in ToSet(items) : it.log \in 0 .. LogCap /\ it.stop_requested \in BOOLEAN
    BY <2>1 DEF ToSet, ItemList, IsItem
  <2>4. Cardinality(browser) <= 1
    <3>1. browser = {} \/ \E v : browser = {v} BY DEF ActivityInv, HostKnows
    <3>2. Cardinality({}) = 0 BY FS_EmptySet
    <3>3. \A v : Cardinality({v}) = 1 BY FS_Singleton
    <3>4. CASE browser = {}
      <4>1. Cardinality(browser) = 0 BY <3>2, <3>4
      <4> QED BY <4>1
    <3>5. CASE \E v : browser = {v}
      <4>1. Cardinality(browser) = 1 BY <3>3, <3>5
      <4> QED BY <4>1
    <3> QED BY <3>1, <3>4, <3>5
  <2>5. told \in [Items -> {"none", "active", "ended"}] /\ reportsLeft \in 0 .. MaxReports
    BY DEF ActivityInv, ToldTracks
  <2> QED BY <2>2, <2>3, <2>4, <2>5 DEF ActivityTypeOK
<1> QED BY <1>1, ActivityInvHolds, PTL

(* Whatever is updated, removed or replaced under the browser, the host     *)
(* knows the view on the screen, it is of an item that is listed, and what  *)
(* was seen running is not shown as over without a line that says so        *)
(* (BrowserAndNoticesTrue).                                                 *)
THEOREM BrowserAndNotices == ActivitySpec => []BrowserAndNoticesTrue
<1>1. ActivityInv => BrowserAndNoticesTrue
  <2> SUFFICES ASSUME ActivityInv PROVE BrowserAndNoticesTrue OBVIOUS
  <2>1. <<outbox.view, outbox.about>> =
          IF browser = {} THEN <<NoView, "">> ELSE ShownView(CHOOSE v \in browser : TRUE)
    <3>1. CASE browser = {} BY <3>1 DEF ActivityInv, HostKnows
    <3>2. CASE browser # {}
      <4>1. PICK v : browser = {v} /\ <<outbox.view, outbox.about>> = ShownView(v)
        BY <3>2 DEF ActivityInv, HostKnows
      <4>2. (CHOOSE w \in browser : TRUE) = v BY <4>1
      <4> QED BY <4>1, <4>2
    <3> QED BY <3>1, <3>2
  <2>2. \A v \in browser : v.view # "list" => v.id \in Present
    <3> TAKE v \in browser
    <3> HAVE v.view # "list"
    <3>1. ViewOn(items, v) BY ViewOf
    <3>2. Has(items, v.id) BY <3>1 DEF ViewOn
    <3> QED BY <3>2 DEF Has, Present
  <2>3. \A it \in ToSet(items) : ~Active(it.status) => told[it.id] # "active"
    <3> TAKE it \in ToSet(items)
    <3> SUFFICES ASSUME ~Active(it.status), told[it.id] = "active" PROVE FALSE OBVIOUS
    <3>1. PICK k \in DOMAIN items : it = items[k] BY DEF ToSet
    <3>2. ItemList(items) /\ ToldTracks(items, told) BY DEF ActivityInv
    <3>3. it.id \in Items BY <3>1, <3>2 DEF ItemList, IsItem
    <3>4. PICK i \in DOMAIN items : items[i].id = it.id /\ Active(items[i].status)
      BY <3>2, <3>3 DEF ToldTracks
    <3>5. i = k BY <3>1, <3>2, <3>4 DEF ItemList
    <3> QED BY <3>1, <3>4, <3>5
  <2> QED BY <2>1, <2>2, <2>3 DEF BrowserAndNoticesTrue
<1> QED BY <1>1, ActivityInvHolds, PTL

=============================================================================
