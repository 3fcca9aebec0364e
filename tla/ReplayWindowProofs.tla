------------------------- MODULE ReplayWindowProofs -------------------------
(***************************************************************************)
(* Lemmas about replayWindow, for every window size: what noting a number  *)
(* does to the numbers a window shows and to those it will still take.     *)
(***************************************************************************)
EXTENDS ReplayWindow, TLAPS

\* Noting a fresh number keeps the window well formed (Check's shift and the
\* bit it sets).
LEMMA NotedType ==
  ASSUME NEW w \in Window, NEW s \in Nat, Fresh(w, s)
  PROVE  Noted(w, s) \in Window
<1>0. W \in Nat \ {0} BY WindowAssumption
<1>1. CASE s > w.max
  BY <1>0, <1>1 DEF Noted, Window, Shift
<1>2. CASE ~(s > w.max)
  <2>1. w.max - s \in 0 .. W - 1 BY <1>0, <1>2 DEF Fresh, Window
  <2> QED BY <1>2, <2>1 DEF Noted, Window
<1> QED BY <1>1, <1>2

\* A fresh number has not been received: what Check lets pass is new.
LEMMA FreshIsNew ==
  ASSUME NEW w \in Window, NEW received \in SUBSET (Nat \ {0}), NEW s \in Nat,
         Shows(w, received), Fresh(w, s)
  PROVE  s \notin received
<1>0. W \in Nat \ {0} BY WindowAssumption
<1> SUFFICES ASSUME s \in received PROVE FALSE
  OBVIOUS
<1>1. s <= w.max /\ s \in Nat \ {0} BY DEF Shows
<1>2. w.max - s \in 0 .. W - 1 /\ w.max - s \notin w.bits
  BY <1>0, <1>1 DEF Fresh, Window
<1>3. w.max - s < w.max /\ w.max - (w.max - s) \in received
  BY <1>1 DEF Window
<1> QED BY <1>2, <1>3 DEF Shows

\* Noting a fresh number adds exactly it to what the window shows.
LEMMA NotedShows ==
  ASSUME NEW w \in Window, NEW received \in SUBSET (Nat \ {0}), NEW s \in Nat \ {0},
         Shows(w, received), Fresh(w, s)
  PROVE  Shows(Noted(w, s), received \cup {s})
<1>0. W \in Nat \ {0} /\ w.max \in Nat BY WindowAssumption DEF Window
<1>1. CASE s > w.max
  <2> DEFINE n == Noted(w, s)
  <2>1. n.max = s /\ n.bits = Shift(w.bits, s - w.max) \cup {0}
    BY <1>1 DEF Noted
  <2>2. \A r \in received \cup {s} : r <= n.max
    <3>1. \A r \in received : r \in Nat /\ r <= w.max BY DEF Shows
    <3> QED BY <3>1, <1>0, <1>1, <2>1
  <2>3. ASSUME NEW d \in 0 .. W - 1
        PROVE  d \in n.bits <=> d < n.max /\ n.max - d \in received \cup {s}
    <3>1. CASE d = 0 BY <3>1, <2>1
    <3>2. CASE d # 0 /\ d < s - w.max
      <4>1. s - d > w.max /\ s - d # s BY <3>2, <1>0
      <4>2. s - d \notin received BY <4>1, <1>0 DEF Shows
      <4> QED BY <3>2, <4>1, <4>2, <2>1, <1>0 DEF Shift
    <3>3. CASE d >= s - w.max
      <4> DEFINE e == d - (s - w.max)
      <4>1. e \in 0 .. W - 1 /\ w.max - e = s - d BY <3>3, <1>0, <1>1
      <4>2. e \in w.bits <=> e < w.max /\ w.max - e \in received BY <4>1 DEF Shows
      <4>3. e < w.max <=> d < s BY <1>0, <1>1
      <4>4. d \in n.bits <=> e \in w.bits
        BY <3>3, <2>1, <1>0, <1>1 DEF Shift
      <4>5. s - d # s BY <3>3, <1>1, <1>0
      <4> QED BY <4>1, <4>2, <4>3, <4>4, <4>5, <2>1
    <3> QED BY <3>1, <3>2, <3>3, <1>0
  <2>4. n.bits \subseteq 0 .. W - 1 BY <2>1, <1>0 DEF Shift
  <2> HIDE DEF n
  <2>5. n.bits = {d \in 0 .. W - 1 : d < n.max /\ n.max - d \in received \cup {s}}
    BY <2>3, <2>4
  <2> QED BY <2>1, <2>2, <2>5 DEF Shows, n
<1>2. CASE ~(s > w.max)
  <2> DEFINE n == Noted(w, s)
  <2>1. n.max = w.max /\ n.bits = w.bits \cup {w.max - s} BY <1>2 DEF Noted, Window
  <2>2. w.max - s \in 0 .. W - 1 /\ w.max - s < w.max BY <1>0, <1>2 DEF Fresh
  <2>3. w.max # 0 BY <2>2, <1>0
  <2>4. \A d \in 0 .. W - 1 : w.max - d = s <=> d = w.max - s BY <1>0
  <2>5. ASSUME NEW d \in 0 .. W - 1
        PROVE  d \in n.bits <=> d < n.max /\ n.max - d \in received \cup {s}
    <3>1. d \in w.bits <=> d < w.max /\ w.max - d \in received BY DEF Shows
    <3> QED BY <3>1, <2>1, <2>2, <2>4
  <2>6. n.bits \subseteq 0 .. W - 1 BY <2>1, <2>2 DEF Window
  <2>7. \A r \in received \cup {s} : r <= n.max
    <3>1. \A r \in received : r \in Nat /\ r <= w.max BY DEF Shows
    <3> QED BY <3>1, <1>0, <1>2, <2>1
  <2> HIDE DEF n
  <2>8. n.bits = {d \in 0 .. W - 1 : d < n.max /\ n.max - d \in received \cup {s}}
    BY <2>5, <2>6
  <2> QED BY <2>1, <2>3, <2>7, <2>8 DEF Shows, n
<1> QED BY <1>1, <1>2

-----------------------------------------------------------------------------
(* Single numbers. *)

\* The window shows number n as received.
Holds(w, n) == n <= w.max /\ w.max - n \in w.bits

\* A number that the window does not show is new to it, or behind its end.
LEMMA NotShown ==
  ASSUME NEW w \in Window, NEW n \in Nat \ {0}, ~Holds(w, n)
  PROVE  Fresh(w, n) \/ w.max - n >= W
<1>1. w.max \in Nat /\ W \in Nat \ {0}
  BY WindowAssumption DEF Window
<1> QED BY <1>1 DEF Holds, Fresh

\* Noting a number adds it, and no other, to what the window shows.
LEMMA NotedHolds ==
  ASSUME NEW w \in Window, NEW n \in Nat, Fresh(w, n), NEW m \in Nat, Holds(Noted(w, n), m)
  PROVE  m = n \/ Holds(w, m)
<1>1. w.max \in Nat /\ w.bits \subseteq 0 .. W - 1 /\ W \in Nat \ {0}
  BY WindowAssumption DEF Window
<1>2. CASE n > w.max
  <2>1. Noted(w, n).max = n /\ Noted(w, n).bits = Shift(w.bits, n - w.max) \cup {0}
    BY <1>2 DEF Noted
  <2>2. m <= n /\ (n - m = 0 \/ n - m \in Shift(w.bits, n - w.max))
    BY <2>1 DEF Holds
  <2>3. CASE n - m \in Shift(w.bits, n - w.max)
    <3>1. n - m >= n - w.max /\ (n - m) - (n - w.max) \in w.bits
      BY <2>3 DEF Shift
    <3>2. m <= w.max /\ (n - m) - (n - w.max) = w.max - m
      BY <1>1, <3>1
    <3> QED BY <3>1, <3>2 DEF Holds
  <2> QED BY <2>2, <2>3
<1>3. CASE ~(n > w.max)
  <2>1. Noted(w, n).max = w.max /\ Noted(w, n).bits = w.bits \cup {w.max - n}
    <3>1. Noted(w, n) = [w EXCEPT !.bits = @ \cup {w.max - n}]
      BY <1>3 DEF Noted
    <3> QED BY <3>1 DEF Window
  <2>2. m <= w.max /\ (w.max - m = w.max - n \/ w.max - m \in w.bits)
    BY <2>1 DEF Holds
  <2> QED BY <1>1, <2>2 DEF Holds
<1> QED BY <1>2, <1>3

\* What noting a number does to another.
LEMMA NotedElsewhere ==
  ASSUME NEW w \in Window, NEW n \in Nat, Fresh(w, n), NEW m \in Nat, m # n
  PROVE  /\ Fresh(w, m) => Fresh(Noted(w, n), m) \/ Noted(w, n).max - m >= W
         /\ w.max - m >= W => Noted(w, n).max - m >= W
<1>1. w.max \in Nat /\ w.bits \subseteq 0 .. W - 1 /\ W \in Nat \ {0}
  BY WindowAssumption DEF Window
<1>2. CASE n > w.max
  <2>1. Noted(w, n).max = n /\ Noted(w, n).bits = Shift(w.bits, n - w.max) \cup {0}
    BY <1>2 DEF Noted
  <2>2. ASSUME Fresh(w, m), n - m < W, ~(m > n) PROVE n - m \notin Noted(w, n).bits
    <3>1. n - m # 0
      BY <1>1
    <3>2. m <= w.max => w.max - m \notin w.bits
      BY <1>1, <1>2, <2>2 DEF Fresh
    <3>3. n - m >= n - w.max => m <= w.max
      BY <1>1
    <3>4. (n - m) - (n - w.max) = w.max - m
      BY <1>1
    <3> QED BY <2>1, <3>1, <3>2, <3>3, <3>4 DEF Shift
  <2>3. w.max - m >= W => n - m >= W
    BY <1>1, <1>2
  <2>4. Fresh(w, m) => Fresh(Noted(w, n), m) \/ n - m >= W
    <3> SUFFICES ASSUME Fresh(w, m), ~(n - m >= W) PROVE Fresh(Noted(w, n), m)
      BY <1>1
    <3>1. m # 0
      BY DEF Fresh
    <3> QED BY <1>1, <2>1, <2>2, <3>1 DEF Fresh
  <2> QED BY <2>1, <2>3, <2>4
<1>3. CASE ~(n > w.max)
  <2>1. Noted(w, n).max = w.max /\ Noted(w, n).bits = w.bits \cup {w.max - n}
    <3>1. Noted(w, n) = [w EXCEPT !.bits = @ \cup {w.max - n}]
      BY <1>3 DEF Noted
    <3> QED BY <3>1 DEF Window
  <2>2. w.max - m # w.max - n
    BY <1>1
  <2> QED BY <2>1, <2>2 DEF Fresh
<1> QED BY <1>2, <1>3

\* Noting a number adds its bit, and the other bits stand for the numbers they stood for.
LEMMA NotedShown ==
  ASSUME NEW w \in Window, NEW n \in Nat, Fresh(w, n), NEW d \in Noted(w, n).bits
  PROVE  Noted(w, n).max - d = n \/ \E e \in w.bits : Noted(w, n).max - d = w.max - e
<1>1. w.max \in Nat /\ w.bits \subseteq 0 .. W - 1 /\ W \in Nat \ {0}
  BY WindowAssumption DEF Window
<1>2. CASE n > w.max
  <2>1. Noted(w, n).max = n /\ Noted(w, n).bits = Shift(w.bits, n - w.max) \cup {0}
    BY <1>2 DEF Noted
  <2>2. CASE d = 0
    BY <2>1, <2>2
  <2>3. CASE d # 0
    <3>1. d \in 0 .. W - 1 /\ d - (n - w.max) \in w.bits
      BY <2>1, <2>3 DEF Shift
    <3>2. n - d = w.max - (d - (n - w.max))
      BY <1>1, <3>1
    <3> QED BY <2>1, <3>1, <3>2
  <2> QED BY <2>2, <2>3
<1>3. CASE ~(n > w.max)
  <2>1. Noted(w, n).max = w.max /\ Noted(w, n).bits = w.bits \cup {w.max - n}
    <3>1. Noted(w, n) = [w EXCEPT !.bits = @ \cup {w.max - n}]
      BY <1>3 DEF Noted
    <3> QED BY <3>1 DEF Window
  <2> QED BY <1>1, <2>1
<1> QED BY <1>2, <1>3
=============================================================================
