-------------------------- MODULE TreeWalk_proofs --------------------------
(***************************************************************************)
(* For any budget, any trees and any changes of them by others: the        *)
(* descriptors of a walk are bounded, which needs no fact about the tree,  *)
(* and a walk has its footing, which needs several.  For as long as nobody *)
(* else is at work in the trees: a move loses nothing, and what a command  *)
(* says at its end is true, which need the history of a copy (Ruled).      *)
(***************************************************************************)
EXTENDS TreeWalk, SequenceTheorems, FiniteSetTheorems, NaturalsInduction,
        WellFoundedInduction, TLAPS

-----------------------------------------------------------------------------
(***************************************************************************)
(* The stack of a walk.                                                    *)
(***************************************************************************)
Fields == {"src", "dst", "name", "todo", "emptied", "mode", "parked"}

IsFrame(f) == DOMAIN f = Fields /\ f.parked \in BOOLEAN

IsStack(s) == \E S : s \in Seq(S) /\ \A f \in S : IsFrame(f)

Most == IF Budget > 2 THEN Budget ELSE 2

(* The levels from the second one up to the one below l, and only those,   *)
(* are parked; the others are few.                                         *)
Well(s, l) ==
    /\ IsStack(s)
    /\ l \in Nat /\ l >= 2 /\ (l = 2 \/ l <= Len(s))
    /\ \A i \in 1..Len(s) : s[i].parked => 1 < i /\ i < l
    /\ \A i \in 2..Len(s) : i < l => s[i].parked
    /\ Len(s) + 1 <= Most + l

Walked == {"entry", "open_src", "open_dst"}

Inv ==
    /\ Well(stack, low)
    /\ pc \in Walked => stack # << >>
    /\ pc \in {"idle", "rename", "begin", "one", "settle", "root", "over"} =>
           stack = << >>
    /\ pc = "root" => phase = "remove"
    /\ pc = "open_dst" => Len(stack) >= 2 /\ (low = 2 \/ low < Len(stack))
    /\ pc = "leave" => IsFrame(hand) /\ ~hand.parked

-----------------------------------------------------------------------------
LEMMA MostNat == Most \in Nat /\ Most >= 2
BY BudgetAssumption DEF Most

(* What is known of a stack by its type. *)
LEMMA StackFacts ==
    ASSUME NEW s, IsStack(s)
    PROVE  /\ Len(s) \in Nat
           /\ DOMAIN s = 1..Len(s)
           /\ \A i \in 1..Len(s) : IsFrame(s[i])
           /\ s # << >> => Len(s) >= 1
           /\ s = << >> => Len(s) = 0
<1>1. PICK S : s \in Seq(S) /\ \A f \in S : IsFrame(f)
  BY DEF IsStack
<1>2. Len(s) \in Nat /\ DOMAIN s = 1..Len(s) /\ \A i \in 1..Len(s) : s[i] \in S
  BY <1>1, ElementOfSeq, LenProperties
<1>3. s # << >> => Len(s) >= 1
  BY <1>1, EmptySeq
<1>4. s = << >> => Len(s) = 0
  OBVIOUS
<1> QED BY <1>1, <1>2, <1>3, <1>4

LEMMA StackIntro ==
    ASSUME NEW S, NEW s \in Seq(S), \A f \in S : IsFrame(f)
    PROVE  IsStack(s)
BY DEF IsStack

(* A stack is whatever lists frames. *)
LEMMA IsStackOf ==
    ASSUME NEW n \in Nat, NEW s, s = [i \in 1..n |-> s[i]],
           \A i \in 1..n : IsFrame(s[i])
    PROVE  IsStack(s) /\ Len(s) = n
<1>1. PICK S : S = {s[i] : i \in 1..n}
  OBVIOUS
<1>2. s \in [1..n -> S]
  BY <1>1
<1>3. s \in Seq(S)
  BY <1>2, SeqDef
<1>4. Len(s) = n
  BY <1>2, <1>3, LenProperties
<1>5. \A f \in S : IsFrame(f)
  BY <1>1
<1> QED BY <1>3, <1>4, <1>5, StackIntro

LEMMA EmptyIsWell ==
    ASSUME NEW s, s = << >>
    PROVE  Well(s, 2)
<1>0. PICK S : S = {}
  OBVIOUS
<1>1. s \in Seq(S) /\ Len(s) = 0
  BY EmptySeq
<1>2. \A f \in S : IsFrame(f)
  BY <1>0
<1>3. IsStack(s)
  BY <1>1, <1>2, StackIntro
<1> QED BY <1>1, <1>3, MostNat DEF Well

LEMMA OneIsWell ==
    ASSUME NEW f, IsFrame(f), ~f.parked, NEW s, s = <<f>>
    PROVE  Well(s, 2)
<1>0. PICK S : S = {f}
  OBVIOUS
<1>1. s \in Seq(S) /\ Len(s) = 1 /\ s[1] = f
  BY <1>0
<1>2. \A g \in S : IsFrame(g)
  BY <1>0
<1>3. IsStack(s)
  BY <1>1, <1>2, StackIntro
<1> QED BY <1>1, <1>3, MostNat DEF Well

(* The top may change in everything but its being open. *)
LEMMA TopIsWell ==
    ASSUME NEW s, NEW l, Well(s, l), s # << >>, NEW f, IsFrame(f), ~f.parked
    PROVE  /\ Well([s EXCEPT ![Len(s)] = f], l)
           /\ Len([s EXCEPT ![Len(s)] = f]) = Len(s)
           /\ [s EXCEPT ![Len(s)] = f] # << >>
<1> DEFINE t == [s EXCEPT ![Len(s)] = f]
<1>1. /\ Len(s) \in Nat /\ DOMAIN s = 1..Len(s)
      /\ \A i \in 1..Len(s) : IsFrame(s[i])
      /\ Len(s) >= 1
  BY StackFacts DEF Well
<1>2. /\ t = [i \in 1..Len(s) |-> t[i]]
      /\ \A i \in 1..Len(s) : t[i] = IF i = Len(s) THEN f ELSE s[i]
  BY <1>1
<1>3. IsStack(t) /\ Len(t) = Len(s)
  <2>1. \A i \in 1..Len(s) : IsFrame(t[i])
    BY <1>1, <1>2
  <2> HIDE DEF t
  <2> QED BY <1>1, <1>2, <2>1, IsStackOf
<1>4. t # << >>
  BY <1>1, <1>3, StackFacts
<1>5. Well(t, l)
  <2> HIDE DEF t
  <2>1. \A i \in 1..Len(t) : t[i].parked => 1 < i /\ i < l
    BY <1>2, <1>3 DEF Well
  <2>2. \A i \in 2..Len(t) : i < l => t[i].parked
    BY <1>1, <1>2, <1>3 DEF Well
  <2> QED BY <1>3, <2>1, <2>2 DEF Well
<1> QED BY <1>3, <1>4, <1>5

(* Nothing is parked at the top. *)
LEMMA TopIsOpen ==
    ASSUME NEW s, NEW l, Well(s, l), s # << >>
    PROVE  IsFrame(s[Len(s)]) /\ ~s[Len(s)].parked
<1>1. Len(s) \in Nat /\ Len(s) >= 1 /\ IsFrame(s[Len(s)])
  BY StackFacts DEF Well
<1> QED BY <1>1 DEF Well

(* Lowest() and the levels of Push(), from any first level that is open. *)
LowestFrom(n, l) ==
    IF n + 1 - l <= Budget THEN l
    ELSE IF Budget > 1 THEN n + 1 - Budget ELSE n - 1

LowAfter(s, f, l) == LowestFrom(Len(Append(s, f)), l)

Pushed(s, f, l) ==
    [i \in 1..Len(Append(s, f)) |->
        IF i \in l..(LowAfter(s, f, l) - 1) THEN Parked(Append(s, f)[i])
        ELSE Append(s, f)[i]]

(* A level is pushed on what is well, and parks none of the two highest. *)
LEMMA PushIsWell ==
    ASSUME NEW s, NEW l, Well(s, l), NEW f, IsFrame(f), ~f.parked
    PROVE  /\ Well(Pushed(s, f, l), LowAfter(s, f, l))
           /\ Len(Pushed(s, f, l)) = Len(s) + 1
           /\ LowAfter(s, f, l) = 2 \/ LowAfter(s, f, l) < Len(s) + 1
<1> PICK g, m, t : g = Append(s, f) /\ m = LowAfter(s, f, l) /\ t = Pushed(s, f, l)
  OBVIOUS
<1>0. m = IF Len(g) + 1 - l <= Budget THEN l
          ELSE IF Budget > 1 THEN Len(g) + 1 - Budget ELSE Len(g) - 1
  BY DEF LowAfter, LowestFrom
<1>1. /\ Len(s) \in Nat
      /\ \A i \in 1..Len(s) : IsFrame(s[i])
  BY StackFacts DEF Well
<1>2. PICK S : s \in Seq(S)
  BY DEF Well, IsStack
<1>3. /\ Len(g) = Len(s) + 1
      /\ \A i \in 1..Len(s) : g[i] = s[i]
      /\ g[Len(g)] = f
  <2>1. s \in Seq(S \cup {f})
    BY <1>2, ElementOfSeq, SeqDef
  <2> QED BY <2>1, AppendProperties
<1>4. \A i \in 1..Len(g) : IsFrame(g[i])
  BY <1>1, <1>3
<1>5. /\ l \in Nat /\ l >= 2 /\ (l = 2 \/ l <= Len(s)) /\ Len(s) + 1 <= Most + l
      /\ Budget \in Nat /\ Budget >= 1
  BY BudgetAssumption DEF Well
<1>6. m \in Nat /\ m >= l /\ (m = 2 \/ m < Len(g)) /\ Len(g) + 1 <= Most + m
  <2>1. Len(g) \in Nat /\ l <= Len(g) + 1 /\ (l = 2 \/ l < Len(g))
    BY <1>1, <1>3, <1>5
  <2>2. Most \in Nat /\ Most >= 2 /\ Most >= Budget
    BY <1>5 DEF Most
  <2>3. CASE Len(g) + 1 - l <= Budget
    BY <1>0, <2>1, <2>2, <2>3, <1>5
  <2>4. CASE Len(g) + 1 - l > Budget /\ Budget > 1
    <3>1. m = Len(g) + 1 - Budget
      BY <1>0, <2>1, <2>4, <1>5
    <3> QED BY <2>1, <2>2, <2>4, <3>1, <1>5
  <2>5. CASE Len(g) + 1 - l > Budget /\ Budget = 1
    <3>1. m = Len(g) - 1
      BY <1>0, <2>1, <2>5, <1>5
    <3> QED BY <2>1, <2>2, <2>5, <3>1, <1>5
  <2> QED BY <2>1, <2>3, <2>4, <2>5, <1>5
<1>7. /\ t = [i \in 1..Len(g) |-> t[i]]
      /\ \A i \in 1..Len(g) : t[i] = IF i \in l..(m - 1) THEN Parked(g[i]) ELSE g[i]
  BY DEF Pushed
<1>8. \A i \in 1..Len(g) : IsFrame(t[i])
  <2>1. \A h : IsFrame(h) => IsFrame(Parked(h)) /\ Parked(h).parked
    BY DEF IsFrame, Parked, Fields
  <2> QED BY <2>1, <1>4, <1>7
<1>9. Len(g) \in Nat
  BY <1>1, <1>3
<1>10. IsStack(t) /\ Len(t) = Len(g)
  BY <1>7, <1>8, <1>9, IsStackOf
<1>11. ASSUME NEW i \in 1..Len(t), t[i].parked PROVE 1 < i /\ i < m
  <2>1. CASE i \in l..(m - 1)
    BY <2>1, <1>5, <1>6, <1>9, <1>10
  <2>2. CASE i \notin l..(m - 1)
    <3>1. g[i].parked
      BY <2>2, <1>7, <1>10, <1>11
    <3>2. i \in 1..Len(s) /\ s[i].parked
      BY <3>1, <1>1, <1>3, <1>10
    <3>3. 1 < i /\ i < l
      BY <3>2 DEF Well
    <3> QED BY <3>2, <3>3, <1>5, <1>6, <1>1
  <2> QED BY <2>1, <2>2
<1>12. ASSUME NEW i \in 2..Len(t), i < m PROVE t[i].parked
  <2>1. i \in 1..Len(g) /\ i \in Nat
    BY <1>9, <1>10
  <2>2. CASE i >= l
    <3>1. i \in l..(m - 1)
      BY <2>1, <2>2, <1>5, <1>6, <1>12
    <3>2. t[i] = Parked(g[i]) /\ IsFrame(g[i])
      BY <2>1, <3>1, <1>7, <1>4
    <3> QED BY <3>2 DEF IsFrame, Parked, Fields
  <2>3. CASE i < l
    <3>1. i \in 2..Len(s)
      BY <2>1, <2>3, <1>1, <1>3, <1>5, <1>6, <1>10, <1>12
    <3>2. t[i] = s[i]
      BY <3>1, <2>1, <2>3, <1>1, <1>3, <1>5, <1>6, <1>7
    <3> QED BY <3>1, <3>2, <2>3 DEF Well
  <2> QED BY <2>1, <2>2, <2>3, <1>5
<1>13. Well(t, m)
  <2>1. m >= 2 /\ (m = 2 \/ m <= Len(t)) /\ Len(t) + 1 <= Most + m
    BY <1>5, <1>6, <1>9, <1>10
  <2> QED BY <2>1, <1>6, <1>10, <1>11, <1>12 DEF Well
<1> QED BY <1>3, <1>6, <1>10, <1>13

(* A stack without its top, which none of the parked levels is. *)
LEMMA FrontIsWell ==
    ASSUME NEW s, NEW l, Well(s, l), s # << >>, l = 2 \/ l < Len(s)
    PROVE  /\ Well(SubSeq(s, 1, Len(s) - 1), l)
           /\ Len(SubSeq(s, 1, Len(s) - 1)) = Len(s) - 1
<1> DEFINE t == SubSeq(s, 1, Len(s) - 1)
<1>1. /\ Len(s) \in Nat /\ Len(s) >= 1
      /\ \A i \in 1..Len(s) : IsFrame(s[i])
  BY StackFacts DEF Well
<1>2. PICK S : s \in Seq(S)
  BY DEF Well, IsStack
<1>3. /\ Len(t) = Len(s) - 1
      /\ \A i \in 1..(Len(s) - 1) : t[i] = s[i]
      /\ t = [i \in 1..(Len(s) - 1) |-> t[i]]
  <2>1. \A i \in 1..(Len(s) - 1) : s[i] \in S
    BY <1>1, <1>2, ElementOfSeq
  <2>2. PICK n \in Nat : n = Len(s) - 1
    BY <1>1
  <2>3. /\ t \in Seq(S)
        /\ Len(t) = IF 1 <= n THEN n - 1 + 1 ELSE 0
        /\ \A i \in 1..(n - 1 + 1) : t[i] = s[1 + i - 1]
    BY <2>1, <2>2, SubSeqProperties
  <2>4. Len(t) = n
    <3> HIDE DEF t
    <3> QED BY <2>2, <2>3
  <2>5. \A i \in 1..(Len(s) - 1) : t[i] = s[i]
    <3> HIDE DEF t
    <3> QED BY <2>2, <2>3
  <2>6. t = [i \in 1..Len(t) |-> t[i]]
    <3> HIDE DEF t
    <3> QED BY <2>3, LenProperties
  <2> HIDE DEF t
  <2> QED BY <2>2, <2>4, <2>5, <2>6
<1> HIDE DEF t
<1>4. IsStack(t)
  <2>1. Len(s) - 1 \in Nat /\ \A i \in 1..(Len(s) - 1) : IsFrame(t[i])
    BY <1>1, <1>3
  <2> QED BY <2>1, <1>3, IsStackOf
<1>5. Well(t, l)
  BY <1>1, <1>3, <1>4, MostNat DEF Well
<1> QED BY <1>3, <1>5 DEF t

LowBelow(s, l) == IF s[Len(s) - 1].parked THEN Len(s) - 1 ELSE l

(* The pop: the level below takes the place of the top, open again. *)
LEMMA PopIsWell ==
    ASSUME NEW s, NEW l, Well(s, l), Len(s) > 1, NEW f, IsFrame(f), ~f.parked
    PROVE  /\ Well([SubSeq(s, 1, Len(s) - 1) EXCEPT ![Len(s) - 1] = f],
                   LowBelow(s, l))
           /\ [SubSeq(s, 1, Len(s) - 1) EXCEPT ![Len(s) - 1] = f] # << >>
<1> PICK m : m = LowBelow(s, l)
  OBVIOUS
<1>0. m = IF s[Len(s) - 1].parked THEN Len(s) - 1 ELSE l
  BY DEF LowBelow
<1> DEFINE t == SubSeq(s, 1, Len(s) - 1)
<1> DEFINE u == [t EXCEPT ![Len(s) - 1] = f]
<1>1. /\ Len(s) \in Nat /\ Len(s) >= 2
      /\ \A i \in 1..Len(s) : IsFrame(s[i])
  BY StackFacts DEF Well
<1>2. PICK S : s \in Seq(S)
  BY DEF Well, IsStack
<1>3. /\ Len(t) = Len(s) - 1
      /\ \A i \in 1..(Len(s) - 1) : t[i] = s[i]
      /\ DOMAIN t = 1..(Len(s) - 1)
      /\ t = [i \in 1..(Len(s) - 1) |-> t[i]]
  BY <1>1, <1>2
<1>4. /\ u = [i \in 1..(Len(s) - 1) |-> u[i]]
      /\ \A i \in 1..(Len(s) - 1) : u[i] = IF i = Len(s) - 1 THEN f ELSE s[i]
  <2> HIDE DEF t
  <2> QED BY <1>1, <1>3
<1> HIDE DEF u
<1>5. IsStack(u) /\ Len(u) = Len(s) - 1
  <2>1. Len(s) - 1 \in Nat /\ \A i \in 1..(Len(s) - 1) : IsFrame(u[i])
    BY <1>1, <1>4
  <2> QED BY <2>1, <1>4, IsStackOf
<1>6. u # << >>
  BY <1>1, <1>5, StackFacts
<1>7. /\ l \in Nat /\ l >= 2 /\ (l = 2 \/ l <= Len(s)) /\ Len(s) + 1 <= Most + l
      /\ Most \in Nat /\ Most >= 2
  BY MostNat DEF Well
<1>8. m \in Nat /\ m >= 2 /\ m <= l /\ (m = 2 \/ m <= Len(u)) /\ Len(u) + 1 <= Most + m
  <2>1. CASE s[Len(s) - 1].parked
    <3>1. 1 < Len(s) - 1 /\ Len(s) - 1 < l
      BY <2>1, <1>1 DEF Well
    <3>2. m = Len(s) - 1 /\ l = Len(s)
      BY <1>0, <2>1, <3>1, <1>1, <1>7
    <3> QED BY <3>1, <3>2, <1>1, <1>5, <1>7
  <2>2. CASE ~s[Len(s) - 1].parked
    <3>1. l = 2 \/ l <= Len(s) - 1
      <4>1. Len(s) - 1 \in 2..Len(s) => ~(Len(s) - 1 < l)
        BY <2>2 DEF Well
      <4> QED BY <4>1, <1>1, <1>7
    <3>2. m = l
      BY <1>0, <2>2
    <3> QED BY <3>1, <3>2, <1>1, <1>5, <1>7
  <2> QED BY <2>1, <2>2
<1>9. ASSUME NEW i \in 1..Len(u), u[i].parked PROVE 1 < i /\ i < m
  <2>1. i \in 1..(Len(s) - 1) /\ i # Len(s) - 1 /\ s[i].parked
    BY <1>4, <1>5, <1>9
  <2>2. 1 < i /\ i < l
    BY <2>1, <1>1 DEF Well
  <2> QED BY <1>0, <2>1, <2>2, <1>1, <1>7
<1>10. ASSUME NEW i \in 2..Len(u), i < m PROVE u[i].parked
  <2>1. i \in 2..Len(s) /\ i < l /\ s[i].parked
    BY <1>1, <1>5, <1>7, <1>8, <1>10 DEF Well
  <2>2. i # Len(s) - 1
    <3>1. CASE s[Len(s) - 1].parked
      BY <1>0, <3>1, <1>1, <1>10
    <3>2. CASE ~s[Len(s) - 1].parked
      BY <3>2, <2>1
    <3> QED BY <3>1, <3>2
  <2> QED BY <2>1, <2>2, <1>1, <1>4, <1>5
<1>11. Well(u, m)
  BY <1>5, <1>7, <1>8, <1>9, <1>10 DEF Well
<1> QED BY <1>6, <1>11 DEF u

-----------------------------------------------------------------------------
(***************************************************************************)
(* What the actions do to the levels.                                      *)
(***************************************************************************)
LEMMA NewFrame ==
    ASSUME NEW a, NEW b, NEW c, NEW d
    PROVE  IsFrame(Frame(a, b, c, d)) /\ ~Frame(a, b, c, d).parked
BY DEF Frame, IsFrame, Fields

LEMMA ChangedFrame ==
    ASSUME NEW f, IsFrame(f), ~f.parked, NEW a, NEW b
    PROVE  /\ IsFrame([f EXCEPT !.todo = a, !.emptied = b])
           /\ ~[f EXCEPT !.todo = a, !.emptied = b].parked
           /\ IsFrame([f EXCEPT !.todo = a]) /\ ~[f EXCEPT !.todo = a].parked
           /\ IsFrame([f EXCEPT !.dst = a]) /\ ~[f EXCEPT !.dst = a].parked
           /\ IsFrame([f EXCEPT !.emptied = a]) /\ ~[f EXCEPT !.emptied = a].parked
BY DEF IsFrame, Fields

(* The end of a walk leaves no level. *)
LEMMA OverKeeps ==
    ASSUME NEW how, Over(how)
    PROVE  Inv'
<1>1. pc' = "over" /\ stack' = << >> /\ low' = 2
  BY DEF Over
<1>2. Well(stack', low')
  BY <1>1, EmptyIsWell
<1>3. Well(stack, low)'
  BY <1>2 DEF Well, IsStack, IsFrame, Fields, Most
<1> QED BY <1>1, <1>3 DEF Inv, Walked

Stepping == {"root", "entry", "open_src"}

LEMMA AtTop ==
    ASSUME Inv, pc \in Walked
    PROVE  /\ Well(stack, low) /\ stack # << >>
           /\ IsFrame(Top) /\ ~Top.parked
           /\ Len(stack) \in Nat /\ Len(stack) >= 1
<1>1. Well(stack, low) /\ stack # << >>
  BY DEF Inv
<1> QED BY <1>1, TopIsOpen, StackFacts DEF Top, Well

LEMMA WithTopKeeps ==
    ASSUME Inv, pc \in Walked, NEW f, IsFrame(f), ~f.parked, WithTop(f), low' = low
    PROVE  Well(stack, low)' /\ stack' # << >> /\ Len(stack') = Len(stack)
<1>1. /\ Well(stack, low) /\ stack # << >>
      /\ stack' = [stack EXCEPT ![Len(stack)] = f]
  BY AtTop DEF WithTop
<1>2. Well(stack', low') /\ stack' # << >> /\ Len(stack') = Len(stack)
  BY <1>1, TopIsWell
<1> QED BY <1>2 DEF Well, IsStack, IsFrame, Fields, Most

LEMMA AdvanceKeeps ==
    ASSUME Inv, pc \in Stepping, NEW gone, Advance(gone)
    PROVE  Inv'
<1>1. CASE pc = "root"
  BY <1>1, OverKeeps DEF Advance
<1>2. CASE pc \in {"entry", "open_src"}
  <2>1. PICK f : f = [Top EXCEPT !.todo = @ \ {Name}, !.emptied = @ /\ gone]
    OBVIOUS
  <2>2. IsFrame(f) /\ ~f.parked
    BY <1>2, <2>1, AtTop, ChangedFrame DEF Walked
  <2>3. WithTop(f) /\ pc' = "entry" /\ low' = low
    BY <1>2, <2>1 DEF Advance
  <2>4. Well(stack, low)' /\ stack' # << >>
    BY <1>2, <2>2, <2>3, WithTopKeeps DEF Walked
  <2> QED BY <2>3, <2>4 DEF Inv, Walked
<1> QED BY <1>1, <1>2 DEF Stepping

LEMMA ReportKeeps ==
    ASSUME Inv, pc \in Stepping, NEW n, Report(n)
    PROVE  Inv'
BY AdvanceKeeps, OverKeeps DEF Report

LEMMA PushKeeps ==
    ASSUME Inv, pc \in Stepping, NEW f, IsFrame(f), ~f.parked, Push(f)
    PROVE  /\ Well(stack, low)' /\ stack' # << >>
           /\ low' = 2 \/ low' < Len(stack')
           /\ pc # "root" => Len(stack') >= 2
<1>1. Well(stack, low)
  BY DEF Inv
<1>2. Well(Passed, low) /\ Len(Passed) = Len(stack)
  <2>1. CASE pc = "root"
    BY <1>1, <2>1 DEF Passed
  <2>2. CASE pc # "root"
    <3>1. PICK g : g = [Top EXCEPT !.todo = @ \ {Name}]
      OBVIOUS
    <3>2. pc \in Walked
      BY <2>2 DEF Walked, Stepping
    <3>3. IsFrame(g) /\ ~g.parked
      BY <3>1, <3>2, AtTop, ChangedFrame
    <3>4. Passed = [stack EXCEPT ![Len(stack)] = g]
      BY <2>2, <3>1 DEF Passed, Top
    <3> QED BY <1>1, <3>2, <3>3, <3>4, AtTop, TopIsWell
  <2> QED BY <2>1, <2>2
<1>3. PICK s, g, m : s = Passed /\ g = Append(s, f) /\ m = LowAfter(s, f, low)
  OBVIOUS
<1>4. Len(s) \in Nat
  BY <1>2, <1>3, StackFacts DEF Well
<1>5. Len(g) = Len(s) + 1
  BY <1>2, <1>3 DEF Well, IsStack
<1>6. /\ Budget \in Nat /\ Budget >= 1 /\ low \in Nat
  BY <1>1, BudgetAssumption DEF Well
<1>7. m = Lowest(Len(g))
  BY <1>3, <1>4, <1>5, <1>6 DEF Lowest, LowestFrom, LowAfter
<1>8. PICK t : t = Pushed(s, f, low)
  OBVIOUS
<1>9. Well(t, m) /\ Len(t) = Len(s) + 1 /\ (m = 2 \/ m < Len(t))
  BY <1>2, <1>3, <1>8, PushIsWell
<1>10. stack' = t /\ low' = m
  BY <1>3, <1>7, <1>8 DEF Push, Pushed
<1>11. Well(stack, low)'
  BY <1>9, <1>10 DEF Well, IsStack, IsFrame, Fields, Most
<1>12. stack' # << >>
  BY <1>4, <1>9, <1>10, StackFacts DEF Well
<1>13. pc # "root" => Len(stack) >= 1
  BY AtTop DEF Walked, Stepping
<1> QED BY <1>2, <1>3, <1>4, <1>9, <1>10, <1>11, <1>12, <1>13

LEMMA SameLevels ==
    ASSUME Inv, UNCHANGED <<stack, low>>
    PROVE  Well(stack, low)'
BY DEF Inv, Well, IsStack, IsFrame, Fields, Most

LEMMA PopKeeps ==
    ASSUME Inv, pc = "entry", Pop
    PROVE  Well(stack, low)' /\ IsFrame(hand') /\ ~hand'.parked
<1>1. /\ Well(stack, low) /\ stack # << >>
      /\ IsFrame(Top) /\ ~Top.parked
      /\ Len(stack) \in Nat /\ Len(stack) >= 1
  BY AtTop DEF Walked
<1>0. PICK n \in Nat : n = Len(stack) /\ n >= 1
  BY <1>1
<1>2. IsFrame(hand') /\ ~hand'.parked
  BY <1>1 DEF Pop
<1>3. Well(stack', low')
  <2>1. CASE n = 1
    <3>1. low = 2
      BY <1>0, <1>1, <2>1 DEF Well
    <3> QED BY <1>0, <2>1, <3>1, EmptyIsWell DEF Pop
  <2>2. CASE n > 1
    <3>1. PICK below : below = stack[Len(stack) - 1]
      OBVIOUS
    <3>2. PICK f : f = Revived(below, Top)
      OBVIOUS
    <3>3. IsFrame(below)
      BY <1>0, <1>1, <2>2, <3>1, StackFacts DEF Well
    <3>4. IsFrame(f) /\ ~f.parked
      BY <3>2, <3>3 DEF Revived, IsFrame, Fields
    <3>5. /\ stack' = [Front EXCEPT ![Len(stack) - 1] = f]
          /\ low' = IF below.parked THEN Len(stack) - 1 ELSE low
      <4>1. Len(stack) # 1
        BY <1>0, <2>2
      <4> QED BY <3>1, <3>2, <4>1 DEF Pop
    <3>6. low' = LowBelow(stack, low)
      BY <3>1, <3>5 DEF LowBelow
    <3>7. Well(stack, low)
      BY <1>1
    <3> QED BY <1>0, <2>2, <3>4, <3>5, <3>6, <3>7, PopIsWell DEF Front
  <2> QED BY <1>0, <2>1, <2>2
<1> QED BY <1>2, <1>3 DEF Well, IsStack, IsFrame, Fields, Most

(* The open levels are the lowest one that is open and those above it. *)
LEMMA FewOpen ==
    ASSUME Inv
    PROVE  BoundedDescriptors
<1>1. Well(stack, low) /\ low \in Nat /\ low >= 2 /\ Len(stack) + 1 <= Most + low
  BY DEF Inv, Well
<1>2. Len(stack) \in Nat
  BY <1>1, StackFacts DEF Well
<1>3. Live \subseteq low..Len(stack)
  <2> SUFFICES ASSUME NEW i \in 2..Len(stack), ~stack[i].parked PROVE i >= low
    BY <1>1, <1>2 DEF Live, Open
  <2> QED BY <1>1, <1>2 DEF Well
<1>4. /\ IsFiniteSet(low..Len(stack))
      /\ Cardinality(low..Len(stack)) = IF low > Len(stack) THEN 0 ELSE Len(stack) - low + 1
  <2>1. low \in Int /\ Len(stack) \in Int
    BY <1>1, <1>2
  <2> QED BY <2>1, FS_Interval
<1>5. Cardinality(Live) <= Cardinality(low..Len(stack)) /\ IsFiniteSet(Live)
  BY <1>3, <1>4, FS_Subset
<1>6. Cardinality(Live) \in Nat
  BY <1>5, FS_CardinalityType
<1>7. Cardinality(low..Len(stack)) <= Most
  BY <1>1, <1>2, <1>4, MostNat
<1>8. Cardinality(Live) <= Most
  BY <1>1, <1>2, <1>4, <1>5, <1>6, <1>7, MostNat
<1> QED BY <1>8 DEF BoundedDescriptors, Most

-----------------------------------------------------------------------------
LEMMA InitInv == Init => Inv
<1> SUFFICES ASSUME Init PROVE Inv
  OBVIOUS
<1>1. stack = << >> /\ low = 2 /\ pc = "idle"
  BY DEF Init
<1>2. Well(stack, low)
  BY <1>1, EmptyIsWell
<1> QED BY <1>1, <1>2 DEF Inv, Walked

(* Every action leaves the levels well, and the walk where it needs them.  *)
LEMMA NextInv == Inv /\ [Next]_vars => Inv'
<1> SUFFICES ASSUME Inv, [Next]_vars PROVE Inv'
  OBVIOUS
<1>1. CASE Begin
  <2>1. Well(stack, low)' /\ stack' = << >>
    BY <1>1, SameLevels DEF Begin, levels, Inv
  <2> QED BY <1>1, <2>1 DEF Begin, Inv, Walked
<1>2. CASE Refuse \/ Rename \/ CannotRename \/ Gone \/ CannotCopyOne
           \/ UnlinkSource \/ CannotBegin
  BY <1>2, OverKeeps
     DEF Refuse, Rename, CannotRename, Gone, CannotCopyOne, UnlinkSource, CannotBegin
<1>3. CASE CrossDevices
  <2>1. Well(stack, low)' /\ stack' = << >>
    BY <1>3, SameLevels DEF CrossDevices, levels, Inv
  <2>2. pc' \in {"begin", "one"}
    BY <1>3 DEF CrossDevices
  <2> QED BY <2>1, <2>2 DEF Inv, Walked
<1>4. CASE CopyOne
  <2>1. CASE job.cmd = "copy"
    BY <1>4, <2>1, OverKeeps DEF CopyOne
  <2>2. CASE job.cmd # "copy"
    <3>1. pc' = "settle" /\ UNCHANGED <<stack, low>> /\ stack = << >>
      BY <1>4, <2>2 DEF CopyOne, Inv
    <3> QED BY <3>1, SameLevels DEF Inv, Walked
  <2> QED BY <2>1, <2>2
<1>5. CASE BeginTree
  <2>1. PICK made : stack' = <<Frame(Source, made, "s", tree[Source].mode)>>
    BY <1>5 DEF BeginTree
  <2>2. pc' = "entry" /\ low' = 2
    BY <1>5 DEF BeginTree
  <2>3. Well(stack', 2) /\ stack' # << >>
    BY <2>1, NewFrame, OneIsWell
  <2>4. Well(stack, low)'
    BY <2>2, <2>3 DEF Well, IsStack, IsFrame, Fields, Most
  <2> QED BY <2>2, <2>3, <2>4 DEF Inv, Walked
<1>6. CASE List
  <2>1. PICK f : f = [Top EXCEPT !.todo = Listing(Top.src)]
    OBVIOUS
  <2>2. pc = "entry" /\ WithTop(f) /\ low' = low /\ pc' = pc
    BY <1>6, <2>1 DEF List
  <2>3. IsFrame(f) /\ ~f.parked
    BY <2>1, <2>2, AtTop, ChangedFrame DEF Walked
  <2>4. Well(stack, low)' /\ stack' # << >>
    BY <2>2, <2>3, WithTopKeeps DEF Walked
  <2> QED BY <2>2, <2>4 DEF Inv, Walked
<1>7. CASE CannotList
  <2>1. CASE phase = "count" \/ Reports
    <3>1. PICK f : f = [Top EXCEPT !.todo = {}, !.emptied = FALSE]
      OBVIOUS
    <3>2. pc = "entry" /\ WithTop(f) /\ low' = low /\ pc' = pc
      BY <1>7, <2>1, <3>1 DEF CannotList
    <3>3. IsFrame(f) /\ ~f.parked
      BY <3>1, <3>2, AtTop, ChangedFrame DEF Walked
    <3>4. Well(stack, low)' /\ stack' # << >>
      BY <3>2, <3>3, WithTopKeeps DEF Walked
    <3> QED BY <3>2, <3>4 DEF Inv, Walked
  <2>2. CASE ~(phase = "count" \/ Reports)
    BY <1>7, <2>2, OverKeeps DEF CannotList
  <2> QED BY <2>1, <2>2
<1>8. CASE Leave
  <2>1. pc = "entry" /\ Pop /\ pc' = "leave"
    BY <1>8 DEF Leave
  <2>2. Well(stack, low)' /\ IsFrame(hand') /\ ~hand'.parked
    BY <2>1, PopKeeps
  <2>3. IsFrame(hand)'
    BY <2>2 DEF IsFrame, Fields
  <2> QED BY <2>1, <2>2, <2>3 DEF Inv, Walked
<1>9. CASE LoseFooting
  BY <1>9, OverKeeps DEF LoseFooting
<1>10. CASE Count
  <2>1. pc \in {"root", "entry"}
    BY <1>10 DEF Count, Walking
  <2>2. CASE Kind(Entry) = "dir" /\ tree[Entry].mode # Sealed
    <3>1. Push(Frame(Entry, None, Name, None)) /\ pc' = pc /\ pc = "entry"
      BY <1>10, <2>1, <2>2 DEF Count, Inv
    <3>2. Well(stack, low)' /\ stack' # << >>
      BY <2>1, <3>1, NewFrame, PushKeeps DEF Stepping
    <3> QED BY <3>1, <3>2 DEF Inv, Walked
  <2>3. CASE ~(Kind(Entry) = "dir" /\ tree[Entry].mode # Sealed)
    BY <1>10, <2>1, <2>3, AdvanceKeeps DEF Count, Stepping
  <2> QED BY <2>2, <2>3
<1>11. CASE Counted
  <2>1. pc = "leave" /\ pc' = "entry" /\ low' = low /\ IsFrame(hand) /\ ~hand.parked
    BY <1>11 DEF Counted, Inv
  <2>2. CASE stack # << >>
    BY <1>11, <2>1, <2>2, SameLevels DEF Counted, Inv, Walked
  <2>3. CASE stack = << >>
    <3>1. PICK f : f = [hand EXCEPT !.todo = None, !.emptied = TRUE]
      OBVIOUS
    <3>2. stack' = <<f>> /\ IsFrame(f) /\ ~f.parked
      BY <1>11, <2>1, <2>3, <3>1, ChangedFrame DEF Counted
    <3>3. low = 2
      <4>1. Well(stack, low) /\ Len(stack) = 0
        BY <2>3, StackFacts DEF Inv, Well
      <4> QED BY <4>1 DEF Well
    <3>4. Well(stack', low') /\ stack' # << >>
      BY <2>1, <3>2, <3>3, OneIsWell
    <3>5. Well(stack, low)'
      BY <3>4 DEF Well, IsStack, IsFrame, Fields, Most
    <3> QED BY <2>1, <3>4, <3>5 DEF Inv, Walked
  <2> QED BY <2>2, <2>3
<1>12. CASE CopyEntry \/ SkipEntry \/ Vanished \/ Unlink
  <2>1. pc \in Stepping
    BY <1>12 DEF CopyEntry, SkipEntry, Vanished, Unlink, Walking, Stepping
  <2> QED BY <1>12, <2>1, AdvanceKeeps DEF CopyEntry, SkipEntry, Vanished, Unlink
<1>13. CASE CannotCopy \/ CannotOpenSource \/ StepOver
  <2>1. pc \in Stepping
    BY <1>13 DEF CannotCopy, CannotOpenSource, StepOver, Walking, Stepping
  <2> QED BY <1>13, <2>1, ReportKeeps DEF CannotCopy, CannotOpenSource, StepOver
<1>14. CASE MakeDirectory
  <2>1. pc = "entry" /\ pc' = "open_src" /\ UNCHANGED <<stack, low>>
    BY <1>14 DEF MakeDirectory, Walking, Inv, levels
  <2> QED BY <2>1, SameLevels DEF Inv, Walked
<1>15. CASE OpenSource
  <2>1. /\ pc = "open_src" /\ pc' = "open_dst"
        /\ Push(Frame(Entry, None, Name, tree[Entry].mode))
    BY <1>15 DEF OpenSource
  <2>2. /\ Well(stack, low)' /\ stack' # << >> /\ Len(stack') >= 2
        /\ low' = 2 \/ low' < Len(stack')
    BY <2>1, NewFrame, PushKeeps DEF Stepping
  <2> QED BY <2>1, <2>2 DEF Inv, Walked
<1>16. CASE OpenDestination
  <2>1. PICK f : f = [Top EXCEPT !.dst = Fresh]
    OBVIOUS
  <2>2. pc = "open_dst" /\ WithTop(f) /\ low' = low /\ pc' = "entry"
    BY <1>16, <2>1 DEF OpenDestination
  <2>3. IsFrame(f) /\ ~f.parked
    BY <2>1, <2>2, AtTop, ChangedFrame DEF Walked
  <2>4. Well(stack, low)' /\ stack' # << >>
    BY <2>2, <2>3, WithTopKeeps DEF Walked
  <2> QED BY <2>2, <2>4 DEF Inv, Walked
<1>17. CASE CannotOpenDestination
  <2>1. pc = "open_dst" /\ stack' = Front /\ low' = low /\ pc' = "entry"
    BY <1>17 DEF CannotOpenDestination, Truncate
  <2>2. /\ Well(stack, low) /\ stack # << >> /\ Len(stack) >= 2
        /\ low = 2 \/ low < Len(stack)
    BY <2>1 DEF Inv, Walked
  <2>3. Well(Front, low) /\ Len(Front) = Len(stack) - 1
    BY <2>2, FrontIsWell DEF Front
  <2>4. Well(stack', low') /\ stack' # << >>
    BY <2>1, <2>2, <2>3, StackFacts DEF Well
  <2>5. Well(stack, low)'
    BY <2>4 DEF Well, IsStack, IsFrame, Fields, Most
  <2> QED BY <2>1, <2>4, <2>5 DEF Inv, Walked
<1>18. CASE SealDirectory
  <2>1. CASE stack = << >>
    <3>1. CASE job.cmd = "move" /\ Complete
      <4>1. pc' = "root" /\ phase' = "remove" /\ stack' = << >> /\ low' = 2
        BY <1>18, <2>1, <3>1 DEF SealDirectory, AfterCopy
      <4>2. Well(stack', low')
        BY <4>1, EmptyIsWell
      <4>3. Well(stack, low)'
        BY <4>2 DEF Well, IsStack, IsFrame, Fields, Most
      <4> QED BY <4>1, <4>3 DEF Inv, Walked
    <3>2. CASE ~(job.cmd = "move" /\ Complete)
      BY <1>18, <2>1, <3>2, OverKeeps DEF SealDirectory, AfterCopy
    <3> QED BY <3>1, <3>2
  <2>2. CASE stack # << >>
    <3>1. pc' = "entry" /\ UNCHANGED <<stack, low>>
      BY <1>18, <2>2 DEF SealDirectory
    <3> QED BY <2>2, <3>1, SameLevels DEF Inv, Walked
  <2> QED BY <2>1, <2>2
<1>19. CASE Enter
  <2>1. /\ pc \in Stepping /\ pc' = "entry"
        /\ Push(Frame(Entry, None, Name, None))
    BY <1>19 DEF Enter, Walking, Stepping
  <2>2. Well(stack, low)' /\ stack' # << >>
    BY <2>1, NewFrame, PushKeeps
  <2> QED BY <2>1, <2>2 DEF Inv, Walked
<1>20. CASE RemoveDirectory
  <2>1. CASE stack = << >>
    BY <1>20, <2>1, OverKeeps DEF RemoveDirectory
  <2>2. CASE stack # << >>
    <3>1. pc' = "entry" /\ UNCHANGED <<stack, low>>
      BY <1>20, <2>2 DEF RemoveDirectory
    <3> QED BY <2>2, <3>1, SameLevels DEF Inv, Walked
  <2> QED BY <2>1, <2>2
<1>21. CASE KeepDirectory
  <2>1. CASE (hand.emptied /\ ~Reports) \/ stack = << >>
    BY <1>21, <2>1, OverKeeps DEF KeepDirectory
  <2>2. CASE ~(hand.emptied /\ ~Reports) /\ stack # << >>
    <3>1. PICK f : f = [Top EXCEPT !.emptied = FALSE]
      OBVIOUS
    <3>2. pc = "leave" /\ WithTop(f) /\ low' = low /\ pc' = "entry"
      BY <1>21, <2>2, <3>1 DEF KeepDirectory
    <3>3. Well(stack, low) /\ IsFrame(Top) /\ ~Top.parked
      BY <2>2, TopIsOpen DEF Inv, Top
    <3>4. IsFrame(f) /\ ~f.parked
      BY <3>1, <3>3, ChangedFrame
    <3>5. Well(stack', low') /\ stack' # << >>
      BY <2>2, <3>2, <3>3, <3>4, TopIsWell DEF WithTop
    <3>6. Well(stack, low)'
      BY <3>5 DEF Well, IsStack, IsFrame, Fields, Most
    <3> QED BY <3>2, <3>5, <3>6 DEF Inv, Walked
  <2> QED BY <2>1, <2>2
<1>22. CASE Change \/ UNCHANGED vars
  <2>1. UNCHANGED <<phase, pc, stack, low, hand>>
    BY <1>22 DEF Change, vars, levels
  <2> QED BY <2>1, SameLevels DEF Inv, Walked, IsFrame, Fields
<1> QED
  BY <1>1, <1>2, <1>3, <1>4, <1>5, <1>6, <1>7, <1>8, <1>9, <1>10, <1>11, <1>12, <1>13,
     <1>14, <1>15, <1>16, <1>17, <1>18, <1>19, <1>20, <1>21, <1>22
     DEF Next, Work

(* However deep the trees are, whatever others do in them and whatever     *)
(* fails, copy_tree_at(), count_tree_at() and rmtree_at() hold no more     *)
(* than a budget of levels open beyond the one they began with.            *)
THEOREM BoundedDescriptorsTheorem == Spec => []BoundedDescriptors
<1>1. Init => Inv
  BY InitInv
<1>2. Inv /\ [Next]_vars => Inv'
  BY NextInv
<1>3. Inv => BoundedDescriptors
  BY FewOpen
<1> QED BY <1>1, <1>2, <1>3, PTL DEF Spec

-----------------------------------------------------------------------------
(***************************************************************************)
(* What is below.                                                          *)
(***************************************************************************)
Under(t, tops) ==
    CHOOSE f : f = [n \in Nodes |->
        n \in tops \/ (t[n].parent # None /\ f[t[n].parent])]

Closed(t, S) == \A n \in Nodes : t[n].parent # None /\ t[n].parent \in S => n \in S

(* There is such a function: that of the least set that is closed.         *)
LEMMA UnderIs ==
    ASSUME NEW t \in [Nodes -> Inodes], NEW tops
    PROVE  Under(t, tops) = [n \in Nodes |->
               n \in tops \/ (t[n].parent # None /\ Under(t, tops)[t[n].parent])]
<1> DEFINE Good(S) == (\A n \in Nodes : n \in tops => n \in S) /\ Closed(t, S)
           L == {n \in Nodes : \A S \in SUBSET Nodes : Good(S) => n \in S}
           f == [n \in Nodes |-> n \in L]
           F(g) == [n \in Nodes |-> n \in tops \/ (t[n].parent # None /\ g[t[n].parent])]
<1>1. \A n \in Nodes : t[n].parent \in Nodes \cup {None}
    BY DEF Inodes
<1>2. \A n \in Nodes : n \in tops => n \in L
    OBVIOUS
<1>3. \A n \in Nodes : t[n].parent # None /\ t[n].parent \in L => n \in L
    BY <1>1 DEF Closed
<1>4. ASSUME NEW n \in L, n \notin tops, ~(t[n].parent # None /\ t[n].parent \in L)
      PROVE  FALSE
    <2> DEFINE S == L \ {n}
    <2>1. \A m \in Nodes : m \in tops => m \in S
        BY <1>2, <1>4
    <2>2. Closed(t, S)
        <3> HIDE DEF L
        <3> QED
            BY <1>3, <1>4 DEF Closed
    <2>3. S \in SUBSET Nodes /\ n \notin S
        OBVIOUS
    <2> HIDE DEF S
    <2> QED
        BY <1>4, <2>1, <2>2, <2>3
<1>5. \A n \in Nodes : n \in L <=> n \in tops \/ (t[n].parent # None /\ t[n].parent \in L)
    BY <1>2, <1>3, <1>4
<1>6. f = F(f)
    <2>1. \A n \in Nodes : f[n] = (n \in L)
        OBVIOUS
    <2>2. \A n \in Nodes : t[n].parent # None => f[t[n].parent] = (t[n].parent \in L)
        BY <1>1, <2>1
    <2> HIDE DEF L
    <2>3. ASSUME NEW n \in Nodes
          PROVE  (n \in L) = (n \in tops \/ (t[n].parent # None /\ f[t[n].parent]))
        <3> HIDE DEF f
        <3>1. CASE t[n].parent # None
            <4>1. f[t[n].parent] = (t[n].parent \in L)
                BY <2>2, <3>1, Zenon
            <4>2. (n \in L) = (n \in tops \/ t[n].parent \in L)
                BY <1>5, <3>1
            <4>3. (n \in tops \/ (t[n].parent # None /\ f[t[n].parent]))
                    = (n \in tops \/ t[n].parent \in L)
                BY <4>1, <3>1, Zenon
            <4> QED
                BY <4>2, <4>3, Zenon
        <3>2. CASE t[n].parent = None
            BY <1>5, <3>2
        <3> QED
            BY <3>1, <3>2
    <2> QED
        BY <2>3
<1> HIDE DEF f, L
<1>7. \E g : g = F(g)
    BY <1>6
<1> QED
    BY <1>7 DEF Under

LEMMA BelowIs ==
    ASSUME NEW t \in [Nodes -> Inodes], NEW tops
    PROVE  /\ Below(t, tops) \subseteq {n \in Nodes : t[n].linked}
           /\ \A n \in Nodes : t[n].linked /\ n \in tops => n \in Below(t, tops)
           /\ \A n \in Nodes :
                  /\ t[n].linked /\ t[n].parent # None
                  /\ t[t[n].parent].linked /\ t[n].parent \in Below(t, tops)
                  => n \in Below(t, tops)
           /\ \A n \in Below(t, tops) : n \in tops \/
                  /\ t[n].parent # None
                  /\ t[t[n].parent].linked => t[n].parent \in Below(t, tops)
<1> DEFINE u == Under(t, tops)
<1>1. u = [n \in Nodes |-> n \in tops \/ (t[n].parent # None /\ u[t[n].parent])]
    BY UnderIs
<1>2. Below(t, tops) = {n \in Nodes : t[n].linked /\ u[n]}
    BY DEF Below, Under
<1>3. \A n \in Nodes : t[n].parent \in Nodes \cup {None}
    BY DEF Inodes
<1> HIDE DEF u
<1>4. \A n \in Nodes : u[n] = (n \in tops \/ (t[n].parent # None /\ u[t[n].parent]))
    BY <1>1
<1>5. \A n \in Nodes : u[n] <=> (n \in tops \/ (t[n].parent # None /\ u[t[n].parent]))
    BY <1>4
<1> QED
    BY <1>2, <1>3, <1>5

-----------------------------------------------------------------------------
(***************************************************************************)
(* Changes of a tree.                                                      *)
(***************************************************************************)
LEMMA NodeFields ==
    ASSUME NEW t \in [Nodes -> Inodes], NEW n \in Nodes
    PROVE  /\ t[n] \in Inodes
           /\ t[n].kind \in {"dir", "file", "link", "special", "free"}
           /\ t[n].name \in Names \cup {"s", "t", None}
           /\ t[n].parent \in Nodes \cup {None} /\ t[n].linked \in BOOLEAN
           /\ t[n].mode \in Modes /\ t[n].copyOf \in Nodes \cup {None}
           /\ t[n].side \in {"source", "destination"}
BY DEF Inodes

LEMMA AtIs ==
    ASSUME NEW dir, NEW name
    PROVE  /\ At(dir, name) # None =>
                  /\ At(dir, name) \in Nodes /\ tree[At(dir, name)].linked
                  /\ tree[At(dir, name)].parent = dir
                  /\ tree[At(dir, name)].name = name
           /\ At(dir, name) = None => \A m \in Nodes :
                  ~(tree[m].linked /\ tree[m].parent = dir /\ tree[m].name = name)
<1> DEFINE found == {n \in Nodes : tree[n].linked /\ tree[n].parent = dir
                                   /\ tree[n].name = name}
<1>1. At(dir, name) = IF found = {} THEN None ELSE CHOOSE n \in found : TRUE
    BY DEF At
<1>2. found # {} => (CHOOSE n \in found : TRUE) \in found
    OBVIOUS
<1>3. None \notin found
    BY NoneAssumption
<1> HIDE DEF found
<1>4. At(dir, name) # None => At(dir, name) \in found
    BY <1>1, <1>2
<1>5. At(dir, name) = None => found = {}
    BY <1>1, <1>2, <1>3
<1> QED
    BY <1>4, <1>5 DEF found

(* A name in a directory names one inode. *)
LEMMA AtUnique ==
    ASSUME IsTree(tree), NEW n \in Nodes, tree[n].linked, tree[n].parent # None
    PROVE  At(tree[n].parent, tree[n].name) = n
<1>1. At(tree[n].parent, tree[n].name) # None
    BY AtIs
<1> DEFINE m == At(tree[n].parent, tree[n].name)
<1>2. m \in Nodes /\ tree[m].linked /\ tree[m].parent = tree[n].parent
      /\ tree[m].name = tree[n].name
    BY <1>1, AtIs
<1> HIDE DEF m
<1>3. m = n
    BY <1>2 DEF IsTree
<1> QED
    BY <1>3 DEF m

(* Only modes and histories differ, and what is unlinked has no entries.   *)
Shrunk(t, u) ==
    /\ u \in [Nodes -> Inodes]
    /\ \A n \in Nodes :
           /\ u[n].kind = t[n].kind /\ u[n].name = t[n].name
           /\ u[n].parent = t[n].parent /\ u[n].side = t[n].side
           /\ u[n].linked => t[n].linked
           /\ t[n].linked /\ ~u[n].linked =>
                  /\ n # Base
                  /\ \A m \in Nodes : ~(u[m].linked /\ u[m].parent = n)

LEMMA ShrunkTree ==
    ASSUME NEW t \in [Nodes -> Inodes], NEW u, IsTree(t), Shrunk(t, u)
    PROVE  IsTree(u)
<1>0. Base \in Nodes
    BY TreesAssumption
<1>1. u[Base].linked /\ u[Base].kind = "dir" /\ u[Base].parent = None
    BY <1>0, NodeFields DEF IsTree, Shrunk
<1>2. ASSUME NEW n \in Nodes, u[n].linked, u[n].parent # None
      PROVE  /\ u[u[n].parent].linked /\ u[u[n].parent].kind = "dir"
             /\ \A m \in Nodes \ {n} : ~ /\ u[m].linked
                                         /\ u[m].parent = u[n].parent
                                         /\ u[m].name = u[n].name
    <2>1. u[n].parent = t[n].parent /\ t[n].linked /\ t[n].parent \in Nodes
        BY <1>2, NodeFields DEF Shrunk
    <2>2. t[t[n].parent].linked /\ t[t[n].parent].kind = "dir"
        BY <2>1, <1>2 DEF IsTree
    <2>3. u[t[n].parent].linked /\ u[t[n].parent].kind = "dir"
        BY <2>1, <2>2, <1>2, NodeFields DEF Shrunk
    <2>4. \A m \in Nodes \ {n} : ~ /\ t[m].linked
                                   /\ t[m].parent = t[n].parent
                                   /\ t[m].name = t[n].name
        BY <2>1, <1>2 DEF IsTree
    <2>5. \A m \in Nodes \ {n} : ~ /\ u[m].linked
                                   /\ u[m].parent = u[n].parent
                                   /\ u[m].name = u[n].name
        BY <2>1, <2>4 DEF Shrunk
    <2> QED
        BY <2>1, <2>3, <2>5
<1> QED
    BY <1>1, <1>2 DEF IsTree

LEMMA ShrunkSided ==
    ASSUME NEW t \in [Nodes -> Inodes], NEW u, IsTree(t), Sided(t), Shrunk(t, u)
    PROVE  Sided(u)
<1>0. Base \in Nodes
    BY TreesAssumption
<1>1. u[Base].side = "destination"
    BY <1>0 DEF Sided, Shrunk
<1>2. ASSUME NEW n \in Nodes, u[n].linked
      PROVE  /\ u[n].parent = Base => (u[n].name = "t" <=> u[n].side = "destination")
             /\ u[n].parent \notin {None, Base} => u[n].side = u[u[n].parent].side
    <2>1. /\ u[n].parent = t[n].parent /\ t[n].linked /\ u[n].name = t[n].name
          /\ u[n].side = t[n].side
        BY <1>2 DEF Shrunk
    <2>2. t[n].parent # None => u[t[n].parent].side = t[t[n].parent].side
        BY NodeFields DEF Shrunk
    <2> QED
        BY <2>1, <2>2 DEF Sided
<1> QED
    BY <1>1, <1>2 DEF Sided

(* A new inode, where nothing of its name is. *)
Grown(t, u, new) ==
    /\ new \in Nodes /\ ~t[new].linked
    /\ u \in [Nodes -> Inodes] /\ \A n \in Nodes \ {new} : u[n] = t[n]
    /\ LET dir == u[new].parent IN
       /\ u[new].linked /\ u[new].side = t[dir].side
       /\ dir \in Nodes /\ t[dir].linked /\ t[dir].kind = "dir"
       /\ \A m \in Nodes : ~(t[m].linked /\ t[m].parent = dir
                             /\ t[m].name = u[new].name)

LEMMA GrownTree ==
    ASSUME NEW t \in [Nodes -> Inodes], NEW u, NEW new, IsTree(t), Grown(t, u, new)
    PROVE  IsTree(u)
<1>0. Base \in Nodes /\ new # Base
    BY TreesAssumption DEF Grown, IsTree
<1>1. u[Base].linked /\ u[Base].kind = "dir" /\ u[Base].parent = None
    BY <1>0 DEF IsTree, Grown
<1>2. ASSUME NEW n \in Nodes, u[n].linked, u[n].parent # None
      PROVE  /\ u[u[n].parent].linked /\ u[u[n].parent].kind = "dir"
             /\ \A m \in Nodes \ {n} : ~ /\ u[m].linked
                                         /\ u[m].parent = u[n].parent
                                         /\ u[m].name = u[n].name
    <2>1. CASE n = new
        <3> DEFINE dir == u[new].parent
        <3>1. dir \in Nodes /\ dir # new /\ t[dir].linked /\ t[dir].kind = "dir"
            BY DEF Grown
        <3>2. u[dir].linked /\ u[dir].kind = "dir"
            BY <3>1 DEF Grown
        <3>3. \A m \in Nodes \ {new} : ~(u[m].linked /\ u[m].parent = dir
                                         /\ u[m].name = u[new].name)
            BY DEF Grown
        <3> QED
            BY <2>1, <3>2, <3>3
    <2>2. CASE n # new
        <3>1. u[n] = t[n]
            BY <2>2 DEF Grown
        <3>2. t[n].parent \in Nodes /\ t[t[n].parent].linked
              /\ t[t[n].parent].kind = "dir"
            BY <1>2, <3>1, NodeFields DEF IsTree
        <3>3. u[t[n].parent] = t[t[n].parent]
            BY <3>2 DEF Grown
        <3>4. \A m \in Nodes \ {n, new} : ~ /\ u[m].linked
                                            /\ u[m].parent = u[n].parent
                                            /\ u[m].name = u[n].name
            BY <1>2, <3>1 DEF IsTree, Grown
        <3>5. ~(u[new].parent = u[n].parent /\ u[new].name = u[n].name)
            BY <1>2, <3>1 DEF Grown
        <3> QED
            BY <3>1, <3>2, <3>3, <3>4, <3>5
    <2> QED
        BY <2>1, <2>2
<1> QED
    BY <1>1, <1>2 DEF IsTree

LEMMA GrownSided ==
    ASSUME NEW t \in [Nodes -> Inodes], NEW u, NEW new, IsTree(t), Sided(t),
           Grown(t, u, new), u[new].parent = Base => u[new].name = "t"
    PROVE  Sided(u)
<1>0. Base \in Nodes /\ new # Base
    BY TreesAssumption DEF Grown, IsTree
<1>1. u[Base].side = "destination"
    BY <1>0 DEF Sided, Grown
<1>2. ASSUME NEW n \in Nodes, u[n].linked
      PROVE  /\ u[n].parent = Base => (u[n].name = "t" <=> u[n].side = "destination")
             /\ u[n].parent \notin {None, Base} => u[n].side = u[u[n].parent].side
    <2>1. CASE n = new
        <3>1. u[new].parent \in Nodes /\ u[new].parent # new
              /\ u[new].side = t[u[new].parent].side
            BY DEF Grown
        <3>2. u[u[new].parent] = t[u[new].parent]
            BY <3>1 DEF Grown
        <3>3. u[new].parent = Base => u[new].side = "destination"
            BY <3>1 DEF Sided
        <3> QED
            BY <2>1, <3>1, <3>2, <3>3
    <2>2. CASE n # new
        <3>1. u[n] = t[n]
            BY <2>2 DEF Grown
        <3>2. t[n].parent # None => /\ t[n].parent \in Nodes /\ t[n].parent # new
                                    /\ u[t[n].parent] = t[t[n].parent]
            BY <1>2, <3>1, NodeFields DEF IsTree, Grown
        <3> QED
            BY <1>2, <3>1, <3>2 DEF Sided
    <2> QED
        BY <2>1, <2>2
<1> QED
    BY <1>1, <1>2 DEF Sided

(* One entry goes to another directory. *)
Moved(t, u, n, d) ==
    /\ n \in Nodes /\ t[n].linked /\ n # Base
    /\ d \in Nodes /\ d # n /\ t[d].linked /\ t[d].kind = "dir"
    /\ \A m \in Nodes : ~(t[m].linked /\ t[m].parent = d /\ t[m].name = t[n].name)
    /\ u = [t EXCEPT ![n].parent = d]

LEMMA MovedTree ==
    ASSUME NEW t \in [Nodes -> Inodes], NEW u, NEW n, NEW d, IsTree(t), Moved(t, u, n, d)
    PROVE  u \in [Nodes -> Inodes] /\ IsTree(u)
<1>0. Base \in Nodes
    BY TreesAssumption
<1>1. /\ n \in Nodes /\ d \in Nodes /\ n # Base
      /\ u = [t EXCEPT ![n].parent = d]
    BY DEF Moved
<1>2. [t[n] EXCEPT !.parent = d] \in Inodes
    BY <1>1, NodeFields DEF Inodes
<1>3. /\ \A m \in Nodes \ {n} : u[m] = t[m]
      /\ u[n].parent = d /\ u[n].name = t[n].name /\ u[n].linked = t[n].linked
      /\ u[n].kind = t[n].kind
    BY <1>1, NodeFields DEF Inodes
<1>4. u \in [Nodes -> Inodes]
    BY <1>1, <1>2
<1>5. u[Base].linked /\ u[Base].kind = "dir" /\ u[Base].parent = None
    BY <1>0, <1>1, <1>3 DEF IsTree
<1>6. \A m \in Nodes : u[m].linked = t[m].linked /\ u[m].kind = t[m].kind
                       /\ u[m].name = t[m].name
    BY <1>3
<1>7. ASSUME NEW x \in Nodes, u[x].linked, u[x].parent # None
      PROVE  /\ u[u[x].parent].linked /\ u[u[x].parent].kind = "dir"
             /\ \A m \in Nodes \ {x} : ~ /\ u[m].linked
                                         /\ u[m].parent = u[x].parent
                                         /\ u[m].name = u[x].name
    <2>1. CASE x = n
        <3>1. u[d].linked /\ u[d].kind = "dir"
            BY <1>1, <1>6 DEF Moved
        <3>2. \A m \in Nodes \ {n} : ~ /\ u[m].linked /\ u[m].parent = d
                                       /\ u[m].name = t[n].name
            BY <1>3 DEF Moved
        <3> QED
            BY <2>1, <3>1, <3>2, <1>3
    <2>2. CASE x # n
        <3>1. u[x] = t[x] /\ t[x].parent \in Nodes
            BY <2>2, <1>3, <1>7, NodeFields
        <3>2. u[t[x].parent].linked /\ u[t[x].parent].kind = "dir"
            BY <3>1, <1>6, <1>7 DEF IsTree
        <3>3. \A m \in Nodes \ {x, n} : ~ /\ u[m].linked
                                          /\ u[m].parent = u[x].parent
                                          /\ u[m].name = u[x].name
            BY <3>1, <1>3, <1>7 DEF IsTree
        <3>4. ~(u[n].parent = u[x].parent /\ u[n].name = u[x].name)
            BY <3>1, <1>3, <1>7 DEF Moved
        <3> QED
            BY <3>1, <3>2, <3>3, <3>4
    <2> QED
        BY <2>1, <2>2
<1> QED
    BY <1>4, <1>5, <1>7 DEF IsTree

LEMMA MovedSided ==
    ASSUME NEW t \in [Nodes -> Inodes], NEW u, NEW n, NEW d, IsTree(t), Sided(t),
           Moved(t, u, n, d), t[n].side = t[d].side, d # Base
    PROVE  Sided(u)
<1>0. Base \in Nodes
    BY TreesAssumption
<1>1. /\ n \in Nodes /\ d \in Nodes /\ n # Base
      /\ u = [t EXCEPT ![n].parent = d]
    BY DEF Moved
<1>2. /\ \A m \in Nodes \ {n} : u[m] = t[m]
      /\ u[n].parent = d /\ u[n].name = t[n].name /\ u[n].linked = t[n].linked
      /\ u[n].side = t[n].side
    BY <1>1, NodeFields DEF Inodes
<1>3. \A m \in Nodes : u[m].side = t[m].side /\ u[m].linked = t[m].linked
                       /\ u[m].name = t[m].name
    BY <1>2
<1>4. u[Base].side = "destination"
    BY <1>0, <1>3 DEF Sided
<1>5. ASSUME NEW x \in Nodes, u[x].linked
      PROVE  /\ u[x].parent = Base => (u[x].name = "t" <=> u[x].side = "destination")
             /\ u[x].parent \notin {None, Base} => u[x].side = u[u[x].parent].side
    <2>1. CASE x = n
        BY <2>1, <1>1, <1>2, <1>3
    <2>2. CASE x # n
        <3>1. u[x] = t[x] /\ t[x].parent \in Nodes \cup {None}
            BY <2>2, <1>2, NodeFields
        <3>2. t[x].parent # None => u[t[x].parent].side = t[t[x].parent].side
            BY <3>1, <1>3
        <3> QED
            BY <3>1, <3>2, <1>5 DEF Sided
    <2> QED
        BY <2>1, <2>2
<1> QED
    BY <1>4, <1>5 DEF Sided

-----------------------------------------------------------------------------
(***************************************************************************)
(* What is within.                                                         *)
(***************************************************************************)
Within(t, w) ==
    \A n \in Nodes : t[n].linked /\ (n \in Roots(t) \/ t[n].parent \in w) => n \in w

TreeSound(t, w) ==
    /\ t \in [Nodes -> Inodes] /\ IsTree(t)
    /\ w \subseteq Nodes \ {Base} /\ Within(t, w)

(* What a walk relies on of its directories.                               *)
Stays(t, u) == \A n \in Nodes :
    t[n].linked /\ t[n].kind = "dir" /\ t[n].side = "destination" =>
        u[n].linked /\ u[n].kind = "dir" /\ u[n].side = "destination"

LEMMA RecordWithin ==
    ASSUME tree' \in [Nodes -> Inodes], IsTree(tree'), within \subseteq Nodes \ {Base},
           Record
    PROVE  TreeSound(tree', within') /\ within \subseteq within'
<1> DEFINE tops == within \cup Roots(tree')
           B == Below(tree', tops)
<1>1. within' = within \cup B
    BY DEF Record
<1>2. /\ B \subseteq {n \in Nodes : tree'[n].linked}
      /\ \A n \in Nodes : tree'[n].linked /\ n \in tops => n \in B
      /\ \A n \in Nodes : /\ tree'[n].linked /\ tree'[n].parent # None
                          /\ tree'[tree'[n].parent].linked /\ tree'[n].parent \in B
                          => n \in B
    BY BelowIs
<1>3. \A n \in B : n \in tops \/ tree'[n].parent # None
    BY BelowIs
<1>4. Base \notin B
    <2>1. tree'[Base].parent = None
        BY DEF IsTree
    <2>2. Base \notin Roots(tree')
        BY <2>1, TreesAssumption, NoneAssumption DEF Roots
    <2> QED
        BY <2>1, <2>2, <1>3
<1> HIDE DEF B
<1>5. ASSUME NEW n \in Nodes, tree'[n].linked, n \in Roots(tree') \/ tree'[n].parent \in within'
      PROVE  n \in within'
    <2>1. CASE n \in Roots(tree')
        BY <1>1, <1>2, <1>5, <2>1
    <2>2. CASE tree'[n].parent \in within'
        <3>1. tree'[n].parent \in Nodes /\ tree'[n].parent # None
            BY <2>2, <1>1, <1>2, NoneAssumption
        <3>2. tree'[tree'[n].parent].linked
            BY <3>1, <1>5 DEF IsTree
        <3>3. tree'[n].parent \in B
            BY <2>2, <3>1, <3>2, <1>1, <1>2
        <3> QED
            BY <3>1, <3>2, <3>3, <1>1, <1>2, <1>5
    <2> QED
        BY <1>5, <2>1, <2>2
<1>6. Within(tree', within')
    BY <1>5 DEF Within
<1>7. within' \subseteq Nodes \ {Base} /\ within \subseteq within'
    BY <1>1, <1>2, <1>4
<1> QED
    BY <1>6, <1>7 DEF TreeSound

LEMMA ShrunkSound ==
    ASSUME NEW t, NEW u, NEW w, TreeSound(t, w), Shrunk(t, u)
    PROVE  TreeSound(u, w)
<1>1. IsTree(u) /\ u \in [Nodes -> Inodes]
    BY ShrunkTree DEF TreeSound, Shrunk
<1>2. \A n \in Nodes : n \in Roots(u) => n \in Roots(t)
    BY DEF Roots, Shrunk
<1>3. Within(u, w)
    BY <1>2 DEF TreeSound, Within, Shrunk
<1> QED
    BY <1>1, <1>3 DEF TreeSound

LEMMA GrownStays ==
    ASSUME NEW t, NEW u, NEW new, Grown(t, u, new)
    PROVE  Stays(t, u)
BY DEF Grown, Stays

(* A walk removes no directory of the destination. *)
LEMMA ShrunkStays ==
    ASSUME NEW t, NEW u, Shrunk(t, u),
           \A n \in Nodes : t[n].linked /\ ~u[n].linked =>
               t[n].kind # "dir" \/ t[n].side # "destination"
    PROVE  Stays(t, u)
<1>1. \A n \in Nodes : u[n].linked \in BOOLEAN
    BY NodeFields DEF Shrunk
<1> QED
    BY <1>1 DEF Shrunk, Stays

LEMMA StaysThrough ==
    ASSUME NEW t, NEW u, NEW v, Stays(t, u), Stays(u, v)
    PROVE  Stays(t, v)
BY DEF Stays

LEMMA MovedStays ==
    ASSUME NEW t \in [Nodes -> Inodes], NEW u, NEW n, NEW d, Moved(t, u, n, d)
    PROVE  Stays(t, u)
<1>1. \A m \in Nodes : /\ u[m].linked = t[m].linked /\ u[m].kind = t[m].kind
                       /\ u[m].side = t[m].side
    <2>1. n \in Nodes /\ u = [t EXCEPT ![n].parent = d]
        BY DEF Moved
    <2> QED
        BY <2>1, NodeFields DEF Inodes
<1> QED
    BY <1>1 DEF Stays

-----------------------------------------------------------------------------
(***************************************************************************)
(* What the walk does to the tree.                                         *)
(***************************************************************************)
LEMMA Unlinkable ==
    ASSUME NEW r \in Inodes, NEW b \in BOOLEAN
    PROVE  [r EXCEPT !.linked = b] \in Inodes
BY DEF Inodes

(* An entry that others can have no use for is unlinked. *)
Unlinks(t, n) == [t EXCEPT ![n].linked = FALSE]

LEMMA UnlinksShrinks ==
    ASSUME NEW t \in [Nodes -> Inodes], IsTree(t), NEW n \in Nodes, n # Base,
           \A m \in Nodes : ~(t[m].linked /\ t[m].parent = n)
    PROVE  Shrunk(t, Unlinks(t, n))
<1> DEFINE u == Unlinks(t, n)
<1>1. [t[n] EXCEPT !.linked = FALSE] \in Inodes
    <2>1. t[n] \in Inodes /\ FALSE \in BOOLEAN
        BY NodeFields
    <2> QED
        BY <2>1, Unlinkable
<1>2. u \in [Nodes -> Inodes]
    BY <1>1 DEF Unlinks
<1>3. /\ \A m \in Nodes \ {n} : u[m] = t[m]
      /\ u[n].parent = t[n].parent /\ u[n].name = t[n].name /\ ~u[n].linked
      /\ u[n].kind = t[n].kind /\ u[n].side = t[n].side
    BY NodeFields DEF Unlinks, Inodes
<1> HIDE DEF u
<1>4. \A m \in Nodes : u[m].linked => t[m].linked
    BY <1>3
<1> QED
    BY <1>2, <1>3, <1>4 DEF Shrunk, u

LEMMA LeafHasNoEntries ==
    ASSUME NEW t \in [Nodes -> Inodes], IsTree(t), NEW n \in Nodes, t[n].kind # "dir"
    PROVE  \A m \in Nodes : ~(t[m].linked /\ t[m].parent = n)
BY NoneAssumption DEF IsTree

LEMMA ShrunkTwice ==
    ASSUME NEW t \in [Nodes -> Inodes], NEW u, NEW v, Shrunk(t, u), Shrunk(u, v)
    PROVE  Shrunk(t, v)
<1>1. v \in [Nodes -> Inodes]
    BY DEF Shrunk
<1>2. ASSUME NEW n \in Nodes
      PROVE  /\ v[n].kind = t[n].kind /\ v[n].name = t[n].name
             /\ v[n].parent = t[n].parent /\ v[n].side = t[n].side
             /\ v[n].linked => t[n].linked
    BY DEF Shrunk
<1>3. ASSUME NEW n \in Nodes, t[n].linked, ~v[n].linked
      PROVE  /\ n # Base
             /\ \A m \in Nodes : ~(v[m].linked /\ v[m].parent = n)
    <2>1. CASE u[n].linked
        BY <1>3, <2>1 DEF Shrunk
    <2>2. CASE ~u[n].linked
        BY <1>3, <2>2 DEF Shrunk
    <2> QED
        BY <2>1, <2>2
<1> QED
    BY <1>1, <1>2, <1>3 DEF Shrunk

(* Another mode, and another history. *)
Remade(t, n, mode, copyOf) == [t EXCEPT ![n].mode = mode, ![n].copyOf = copyOf]

LEMMA ModeShrinks ==
    ASSUME NEW t \in [Nodes -> Inodes], NEW n \in Nodes, NEW mode \in Modes
    PROVE  Shrunk(t, [t EXCEPT ![n].mode = mode])
<1> DEFINE u == [t EXCEPT ![n].mode = mode]
<1>1. [t[n] EXCEPT !.mode = mode] \in Inodes
    BY NodeFields DEF Inodes
<1>2. u \in [Nodes -> Inodes]
    BY <1>1
<1>3. /\ \A m \in Nodes \ {n} : u[m] = t[m]
      /\ u[n].parent = t[n].parent /\ u[n].name = t[n].name
      /\ u[n].linked = t[n].linked
      /\ u[n].kind = t[n].kind /\ u[n].side = t[n].side
    BY NodeFields DEF Inodes
<1> HIDE DEF u
<1> QED
    BY <1>2, <1>3 DEF Shrunk, u

LEMMA CopyOfShrinks ==
    ASSUME NEW t \in [Nodes -> Inodes], NEW n \in Nodes, NEW c \in Nodes
    PROVE  Shrunk(t, [t EXCEPT ![n].copyOf = c])
<1> DEFINE u == [t EXCEPT ![n].copyOf = c]
<1>1. [t[n] EXCEPT !.copyOf = c] \in Inodes
    BY NodeFields DEF Inodes
<1>2. u \in [Nodes -> Inodes]
    BY <1>1
<1>3. /\ \A m \in Nodes \ {n} : u[m] = t[m]
      /\ u[n].parent = t[n].parent /\ u[n].name = t[n].name
      /\ u[n].linked = t[n].linked
      /\ u[n].kind = t[n].kind /\ u[n].side = t[n].side
    BY NodeFields DEF Inodes
<1> HIDE DEF u
<1> QED
    BY <1>2, <1>3 DEF Shrunk, u

LEMMA RemadeShrinks ==
    ASSUME NEW t \in [Nodes -> Inodes], NEW n \in Nodes, NEW mode \in Modes, NEW c \in Nodes
    PROVE  Shrunk(t, Remade(t, n, mode, c))
<1> DEFINE u == [t EXCEPT ![n].mode = mode]
           v == [u EXCEPT ![n].copyOf = c]
<1>1. Shrunk(t, u)
    BY ModeShrinks
<1>2. Remade(t, n, mode, c) = v
    BY DEF Remade
<1>3. u \in [Nodes -> Inodes]
    BY <1>1 DEF Shrunk
<1> HIDE DEF u
<1>4. Shrunk(u, v)
    BY <1>3, CopyOfShrinks
<1> QED
    BY <1>1, <1>2, <1>4, ShrunkTwice
-----------------------------------------------------------------------------
(***************************************************************************)
(* Where a walk stands.                                                    *)
(***************************************************************************)
(* The directories of a level: its own one of the source, which has been   *)
(* in the trees, and of a copy one that is in the destination, to stay.    *)
Placed(f, t, w) ==
    /\ f.src \in w
    /\ f.dst # None => /\ f.dst \in w /\ f.mode \in Modes
                       /\ t[f.dst].linked /\ t[f.dst].kind = "dir"
                       /\ t[f.dst].side = "destination"

Standing(s, t, w) == s \in Seq(Frames) /\ \A i \in 1..Len(s) : Placed(s[i], t, w)

(* The first n levels have a directory of the copy, or none has one.       *)
Paired(s, n) == \A i \in 1..n : s[i].dst # None

Single(s) == \A i \in 1..Len(s) : s[i].dst = None

(* Which levels are of a copy: all of them but one that is being opened,   *)
(* the first of a count, none of a removal.                                *)
InStep(s, h, p, ph) ==
    /\ p \in {"open_src", "open_dst"} => ph = "copy"
    /\ p \in {"entry", "open_src", "leave"} /\ ph = "copy" => Paired(s, Len(s))
    /\ p = "open_dst" => Paired(s, Len(s) - 1) /\ s[Len(s)].mode \in Modes
    /\ p = "open_src" => s[Len(s)].todo \notin {None, {}}
    /\ p = "leave" /\ ph = "copy" => h.dst # None
    /\ p \in {"entry", "leave"} /\ ph = "count" =>
           IF s = << >> THEN h.dst # None ELSE s[1].dst # None
    /\ ph = "remove" => Single(s)
    /\ p = "leave" /\ ph = "remove" => h.dst = None

Stand ==
    /\ TreeSound(tree, within) /\ (pc # "over" => Sided(tree))
    /\ Standing(stack, tree, within)
    /\ pc = "leave" => hand \in Frames /\ Placed(hand, tree, within)
    /\ InStep(stack, hand, pc, phase)

(* What is bounded, and what is told.                                      *)
Counts ==
    /\ was \in Trees /\ job \in Jobs /\ phase \in {"count", "copy", "remove"}
    /\ pc \in PCs /\ hand \in Frames \cup {None}
    /\ reported \subseteq Nodes \cup {None} /\ skipped \in Nat
    /\ end \in {None, "ok", "partial", "error", "stale"}
    /\ (pc = "over") <=> (end # None)
    /\ faults \in 0..MaxFaults /\ changes \in 0..MaxChanges

Footed == Inv /\ Stand /\ Counts

LEMMA PlacedStays ==
    ASSUME NEW f, NEW t, NEW u, NEW w \in SUBSET Nodes, NEW x, Placed(f, t, w), w \subseteq x,
           f.dst = None \/ Stays(t, u)
    PROVE  Placed(f, u, x)
BY DEF Placed, Stays

LEMMA StandingStays ==
    ASSUME NEW s, NEW t, NEW u, NEW w \in SUBSET Nodes, NEW x, Standing(s, t, w), w \subseteq x,
           Single(s) \/ Stays(t, u)
    PROVE  Standing(s, u, x)
BY PlacedStays DEF Standing, Single

LEMMA StandingFrames ==
    ASSUME NEW s, NEW t, NEW w, Standing(s, t, w)
    PROVE  /\ Len(s) \in Nat /\ DOMAIN s = 1..Len(s)
           /\ \A i \in 1..Len(s) : s[i] \in Frames /\ Placed(s[i], t, w)
           /\ s # << >> => Len(s) >= 1
           /\ s = << >> => Len(s) = 0
<1>1. s \in Seq(Frames)
    BY DEF Standing
<1>2. Len(s) \in Nat /\ DOMAIN s = 1..Len(s) /\ \A i \in 1..Len(s) : s[i] \in Frames
    BY <1>1, ElementOfSeq, LenProperties
<1>3. s # << >> => Len(s) >= 1
    BY <1>1, EmptySeq
<1> QED
    BY <1>2, <1>3 DEF Standing

LEMMA StandingOf ==
    ASSUME NEW n \in Nat, NEW s, s = [i \in 1..n |-> s[i]], NEW t, NEW w,
           \A i \in 1..n : s[i] \in Frames /\ Placed(s[i], t, w)
    PROVE  Standing(s, t, w) /\ Len(s) = n
<1>1. s \in [1..n -> Frames]
    OBVIOUS
<1>2. s \in Seq(Frames)
    BY <1>1, SeqDef
<1>3. Len(s) = n
    BY <1>1, <1>2, LenProperties
<1> QED
    BY <1>2, <1>3 DEF Standing

LEMMA StandingNone ==
    ASSUME NEW t, NEW w
    PROVE  Standing(<< >>, t, w) /\ Single(<< >>)
<1>1. << >> \in Seq(Frames) /\ Len(<< >>) = 0
    BY EmptySeq
<1> QED
    BY <1>1 DEF Standing, Single

LEMMA StandingOne ==
    ASSUME NEW f \in Frames, NEW t, NEW w, Placed(f, t, w)
    PROVE  Standing(<<f>>, t, w) /\ Len(<<f>>) = 1 /\ <<f>>[1] = f /\ <<f>> # << >>
<1>1. <<f>> \in Seq(Frames) /\ Len(<<f>>) = 1 /\ <<f>>[1] = f /\ <<f>> # << >>
    OBVIOUS
<1> QED
    BY <1>1 DEF Standing

LEMMA StandingTop ==
    ASSUME NEW s, NEW t, NEW w, Standing(s, t, w), s # << >>, NEW f \in Frames, Placed(f, t, w)
    PROVE  LET r == [s EXCEPT ![Len(s)] = f]
           IN /\ Standing(r, t, w) /\ Len(r) = Len(s) /\ r # << >>
              /\ r[Len(s)] = f /\ \A i \in 1..(Len(s) - 1) : r[i] = s[i]
<1> DEFINE r == [s EXCEPT ![Len(s)] = f]
<1>1. /\ Len(s) \in Nat /\ DOMAIN s = 1..Len(s) /\ Len(s) >= 1
      /\ \A i \in 1..Len(s) : s[i] \in Frames /\ Placed(s[i], t, w)
    BY StandingFrames
<1>2. /\ r = [i \in 1..Len(s) |-> r[i]]
      /\ \A i \in 1..Len(s) : r[i] = IF i = Len(s) THEN f ELSE s[i]
    BY <1>1
<1> HIDE DEF r
<1>3. \A i \in 1..Len(s) : r[i] \in Frames /\ Placed(r[i], t, w)
    BY <1>1, <1>2
<1>4. Standing(r, t, w) /\ Len(r) = Len(s)
    BY <1>1, <1>2, <1>3, StandingOf
<1>5. r # << >>
    BY <1>1, <1>4, StandingFrames
<1>6. r[Len(s)] = f /\ \A i \in 1..(Len(s) - 1) : r[i] = s[i]
    BY <1>1, <1>2
<1> QED
    BY <1>4, <1>5, <1>6 DEF r

LEMMA StandingFront ==
    ASSUME NEW s, NEW t, NEW w, Standing(s, t, w), s # << >>
    PROVE  LET r == SubSeq(s, 1, Len(s) - 1)
           IN /\ Standing(r, t, w) /\ Len(r) = Len(s) - 1
              /\ \A i \in 1..(Len(s) - 1) : r[i] = s[i]
<1> DEFINE r == SubSeq(s, 1, Len(s) - 1)
<1>1. /\ Len(s) \in Nat /\ DOMAIN s = 1..Len(s) /\ Len(s) >= 1
      /\ \A i \in 1..Len(s) : s[i] \in Frames /\ Placed(s[i], t, w)
    BY StandingFrames
<1>2. s \in Seq(Frames)
    BY DEF Standing
<1>3. /\ r = [i \in 1..(Len(s) - 1) |-> r[i]]
      /\ \A i \in 1..(Len(s) - 1) : r[i] = s[i]
    BY <1>1, <1>2
<1>4. Len(s) - 1 \in Nat
    BY <1>1
<1> HIDE DEF r
<1>5. \A i \in 1..(Len(s) - 1) : r[i] \in Frames /\ Placed(r[i], t, w)
    BY <1>1, <1>3
<1>6. Standing(r, t, w) /\ Len(r) = Len(s) - 1
    BY <1>3, <1>4, <1>5, StandingOf
<1> QED
    BY <1>3, <1>6 DEF r

LEMMA StandingPushed ==
    ASSUME NEW s, NEW t, NEW w, Standing(s, t, w), NEW f \in Frames, Placed(f, t, w), NEW l
    PROVE  LET r == Pushed(s, f, l)
           IN /\ Standing(r, t, w) /\ Len(r) = Len(s) + 1 /\ r # << >>
              /\ r[Len(s) + 1].dst = f.dst /\ r[Len(s) + 1].mode = f.mode
              /\ \A i \in 1..Len(s) : r[i].dst = s[i].dst
<1> DEFINE r == Pushed(s, f, l)
           g == Append(s, f)
<1>1. /\ Len(s) \in Nat
      /\ \A i \in 1..Len(s) : s[i] \in Frames /\ Placed(s[i], t, w)
    BY StandingFrames
<1>2. /\ Len(g) = Len(s) + 1 /\ g[Len(s) + 1] = f
      /\ \A i \in 1..Len(s) : g[i] = s[i]
    <2>1. s \in Seq(Frames)
        BY DEF Standing
    <2> QED
        BY <2>1, AppendProperties
<1> HIDE DEF g
<1>3. /\ r = [i \in 1..Len(g) |-> r[i]]
      /\ \A i \in 1..Len(g) : r[i] = Parked(g[i]) \/ r[i] = g[i]
    BY DEF Pushed, g
<1> HIDE DEF r
<1>4. \A i \in 1..Len(g) : g[i] \in Frames /\ Placed(g[i], t, w)
    BY <1>1, <1>2
<1>5. ASSUME NEW i \in 1..Len(g)
      PROVE  r[i] \in Frames /\ Placed(r[i], t, w) /\ r[i].dst = g[i].dst /\ r[i].mode = g[i].mode
    <2>1. /\ Parked(g[i]) \in Frames /\ Parked(g[i]).src = g[i].src
          /\ Parked(g[i]).dst = g[i].dst /\ Parked(g[i]).mode = g[i].mode
        BY <1>4 DEF Frames, Parked
    <2>2. Placed(Parked(g[i]), t, w)
        BY <1>4, <2>1 DEF Placed
    <2> QED
        BY <1>3, <1>4, <2>1, <2>2
<1>6. Len(g) \in Nat /\ Len(s) + 1 \in 1..Len(g) /\ \A i \in 1..Len(s) : i \in 1..Len(g)
    BY <1>1, <1>2
<1>7. Standing(r, t, w) /\ Len(r) = Len(g)
    BY <1>3, <1>5, <1>6, StandingOf
<1>8. r # << >>
    BY <1>1, <1>2, <1>7, StandingFrames
<1>9. r[Len(s) + 1].dst = f.dst /\ r[Len(s) + 1].mode = f.mode
    BY <1>2, <1>5, <1>6
<1>10. \A i \in 1..Len(s) : r[i].dst = s[i].dst
    BY <1>2, <1>5, <1>6
<1> QED
    BY <1>2, <1>7, <1>8, <1>9, <1>10 DEF r

-----------------------------------------------------------------------------
(***************************************************************************)
(* What an action does to the tree.                                        *)
(***************************************************************************)
TreeStep(t, w, u, x) == TreeSound(u, x) /\ w \subseteq x /\ Sided(u) /\ Stays(t, u)

LEMMA TreeSame ==
    ASSUME NEW t, NEW w, TreeSound(t, w), Sided(t)
    PROVE  TreeStep(t, w, t, w)
BY DEF TreeStep, Stays

LEMMA TreeShrinks ==
    ASSUME NEW t, NEW w, TreeSound(t, w), Sided(t), NEW u, Shrunk(t, u), Stays(t, u)
    PROVE  TreeStep(t, w, u, w)
<1>1. TreeSound(u, w)
    BY ShrunkSound
<1>2. Sided(u)
    BY ShrunkSided DEF TreeSound
<1> QED
    BY <1>1, <1>2 DEF TreeStep

LEMMA TreeRecorded ==
    ASSUME NEW t, Stays(t, tree'), tree' \in [Nodes -> Inodes], IsTree(tree'), Sided(tree'),
           within \subseteq Nodes \ {Base}, Record
    PROVE  TreeStep(t, within, tree', within')
BY RecordWithin DEF TreeStep

LEMMA TreeMade ==
    ASSUME TreeSound(tree, within), Sided(tree),
           NEW cut, Shrunk(tree, cut), Stays(tree, cut),
           NEW kind \in {"dir", "file", "link", "special", "free"},
           NEW name \in Names \cup {"s", "t", None}, NEW dir \in Nodes,
           NEW mode \in Modes, NEW copyOf \in Nodes \cup {None},
           cut[dir].linked, cut[dir].kind = "dir",
           \A m \in Nodes : ~(cut[m].linked /\ cut[m].parent = dir /\ cut[m].name = name),
           dir = Base => name = "t",
           Make(cut, kind, name, dir, mode, copyOf), Record
    PROVE  TreeStep(tree, within, tree', within')
<1> DEFINE made == [kind |-> kind, name |-> name, parent |-> dir, linked |-> TRUE,
                    mode |-> mode, copyOf |-> copyOf, side |-> cut[dir].side]
           new == New
<1>1. new \in Nodes /\ ~tree[new].linked
    BY DEF Make, New, Spare
<1>2. cut \in [Nodes -> Inodes] /\ IsTree(cut) /\ Sided(cut)
    BY ShrunkTree, ShrunkSided DEF TreeSound, Shrunk
<1>3. ~cut[new].linked
    BY <1>1 DEF Shrunk
<1>4. tree' = [cut EXCEPT ![new] = made]
    BY DEF Make
<1> HIDE DEF new
<1>5. cut[dir].side \in {"source", "destination"}
    BY <1>2, NodeFields
<1>6. made \in Inodes
    BY <1>5 DEF Inodes
<1>7. /\ tree' \in [Nodes -> Inodes]
      /\ tree'[new] = made
      /\ \A n \in Nodes \ {new} : tree'[n] = cut[n]
    <2> HIDE DEF made
    <2> QED
        BY <1>1, <1>2, <1>4, <1>6
<1>8. Grown(cut, tree', new)
    <2>1. tree'[new].parent = dir /\ tree'[new].linked /\ tree'[new].name = name
          /\ tree'[new].side = cut[dir].side
        BY <1>7
    <2> HIDE DEF made
    <2> QED
        BY <1>1, <1>3, <1>7, <2>1 DEF Grown
<1>9. tree'[new].parent = Base => tree'[new].name = "t"
    BY <1>7
<1>10. IsTree(tree')
    BY <1>2, <1>8, GrownTree
<1>11. Sided(tree')
    BY <1>2, <1>8, <1>9, GrownSided
<1>12. Stays(cut, tree')
    BY <1>8, GrownStays
<1>13. Stays(tree, tree')
    BY <1>12, StaysThrough
<1> QED
    BY <1>7, <1>10, <1>11, <1>13, TreeRecorded DEF TreeSound

(* What is not a directory is unlinked. *)
LEMMA LeafUnlinked ==
    ASSUME NEW t, IsTree(t), t \in [Nodes -> Inodes], NEW n \in Nodes, t[n].kind # "dir"
    PROVE  /\ Shrunk(t, Unlinks(t, n)) /\ Stays(t, Unlinks(t, n))
           /\ \A m \in Nodes : Unlinks(t, n)[m].linked => m # n
<1>1. n # Base
    BY DEF IsTree
<1>2. Shrunk(t, Unlinks(t, n))
    BY <1>1, LeafHasNoEntries, UnlinksShrinks
<1>3. /\ \A m \in Nodes \ {n} : Unlinks(t, n)[m] = t[m]
      /\ ~Unlinks(t, n)[n].linked
    BY NodeFields DEF Unlinks, Inodes
<1>4. Stays(t, Unlinks(t, n))
    BY <1>3 DEF Stays
<1> QED
    BY <1>2, <1>3, <1>4

LEMMA TreeCopied ==
    ASSUME TreeSound(tree, within), Sided(tree), NEW n \in Nodes,
           NEW name \in Names \cup {"s", "t", None}, NEW dir \in Nodes,
           tree[dir].linked, tree[dir].kind = "dir", dir = Base => name = "t",
           Kind(At(dir, name)) # "dir",
           Copy(n, name, dir), Record
    PROVE  TreeStep(tree, within, tree', within')
<1> DEFINE old == At(dir, name)
           cut == IF old = None THEN tree ELSE Unlinks(tree, old)
<1>1. /\ old # None => /\ old \in Nodes /\ tree[old].linked
                       /\ tree[old].parent = dir /\ tree[old].name = name
      /\ old = None => \A m \in Nodes :
             ~(tree[m].linked /\ tree[m].parent = dir /\ tree[m].name = name)
    BY AtIs
<1>2. Make(cut, tree[n].kind, name, dir, tree[n].mode, n)
    BY DEF Copy, Unlinks
<1>3. old # None => tree[old].kind # "dir"
    BY DEF Kind
<1> HIDE DEF old
<1>4. tree \in [Nodes -> Inodes] /\ IsTree(tree)
    BY DEF TreeSound
<1>5. /\ Shrunk(tree, cut) /\ Stays(tree, cut)
      /\ cut[dir].linked /\ cut[dir].kind = "dir"
      /\ \A m \in Nodes : ~(cut[m].linked /\ cut[m].parent = dir /\ cut[m].name = name)
    <2>1. CASE old = None
        BY <1>1, <1>4, <2>1 DEF Shrunk, Stays
    <2>2. CASE old # None
        <3>1. /\ Shrunk(tree, cut) /\ Stays(tree, cut)
              /\ \A m \in Nodes : cut[m].linked => m # old
            BY <1>1, <1>3, <1>4, <2>2, LeafUnlinked
        <3>2. old # dir
            BY <1>3, <2>2
        <3>3. cut[dir] = tree[dir]
            BY <3>2, <2>2, <1>1, <1>4 DEF Unlinks
        <3>4. \A m \in Nodes : m # old =>
                  ~(tree[m].linked /\ tree[m].parent = dir /\ tree[m].name = name)
            BY <1>1, <1>4, <2>2, NoneAssumption DEF IsTree
        <3> HIDE DEF cut
        <3>5. \A m \in Nodes :
                  ~(cut[m].linked /\ cut[m].parent = dir /\ cut[m].name = name)
            BY <3>1, <3>4 DEF Shrunk
        <3> QED
            BY <3>1, <3>3, <3>5
    <2> QED
        BY <2>1, <2>2
<1> HIDE DEF cut
<1>6. tree[n].kind \in {"dir", "file", "link", "special", "free"} /\ tree[n].mode \in Modes
    BY <1>4, NodeFields
<1> QED
    BY <1>2, <1>5, <1>6, TreeMade

(* The two ends, and the entry in hand. *)
LEMMA EndsAre ==
    ASSUME TreeSound(tree, within)
    PROVE  /\ Source # None => /\ Source \in Nodes /\ tree[Source].linked /\ Source # Base
                               /\ tree[Source].parent = Base /\ tree[Source].name = "s"
                               /\ Source \in within
           /\ Destination # None =>
                  /\ Destination \in Nodes /\ tree[Destination].linked /\ Destination # Base
                  /\ tree[Destination].parent = Base /\ tree[Destination].name = "t"
                  /\ Destination \in within
<1>1. \A n \in Nodes : n \in Roots(tree) => n \in within
    BY DEF TreeSound, Within, Roots
<1>2. tree[Base].parent # Base
    BY TreesAssumption, NoneAssumption DEF TreeSound, IsTree
<1>3. Source # None => /\ Source \in Nodes /\ tree[Source].linked
                       /\ tree[Source].parent = Base /\ tree[Source].name = "s"
    BY AtIs DEF Source
<1>4. Destination # None => /\ Destination \in Nodes /\ tree[Destination].linked
                       /\ tree[Destination].parent = Base /\ tree[Destination].name = "t"
    BY AtIs DEF Destination
<1>5. Source # None => Source \in within /\ Source # Base
    BY <1>1, <1>2, <1>3 DEF Roots
<1>6. Destination # None => Destination \in within /\ Destination # Base
    BY <1>1, <1>2, <1>4 DEF Roots
<1> QED
    BY <1>3, <1>4, <1>5, <1>6

LEMMA StandTop ==
    ASSUME Inv, Stand, pc \in Walked
    PROVE  /\ Standing(stack, tree, within) /\ stack # << >> /\ Len(stack) \in Nat
           /\ Len(stack) >= 1 /\ Top \in Frames /\ Placed(Top, tree, within)
           /\ Top = stack[Len(stack)] /\ Top.src \in Nodes \ {Base}
<1>1. Standing(stack, tree, within) /\ stack # << >>
    BY DEF Inv, Stand
<1>2. Len(stack) \in Nat /\ Len(stack) >= 1 /\ Top \in Frames /\ Placed(Top, tree, within)
    BY <1>1, StandingFrames DEF Top
<1> QED
    BY <1>1, <1>2 DEF Top, Placed, Stand, TreeSound

Handling == Walking \/ pc = "open_src"

LEMMA EntryIs ==
    ASSUME Inv, Stand, Handling
    PROVE  /\ pc # "root" => Name \in Names /\ Top.todo \in SUBSET Names /\ Name \in Top.todo
           /\ pc = "root" => Name = "s"
           /\ Dir \in Nodes
           /\ Entry # None => /\ Entry \in Nodes /\ tree[Entry].linked
                              /\ tree[Entry].parent = Dir /\ tree[Entry].name = Name
                              /\ Entry \in within
<1>1. pc # "root" => pc \in Walked
    BY DEF Handling, Walking, Walked
<1>2. pc # "root" => Top \in Frames /\ Top.src \in within /\ Top.src \in Nodes
                     /\ Top = stack[Len(stack)]
    BY <1>1, StandTop DEF Placed
<1>3. pc # "root" => Top.todo \notin {None, {}}
    <2>1. CASE pc = "open_src"
        BY <2>1, <1>2 DEF Stand, InStep
    <2>2. CASE pc # "open_src"
        BY <2>2 DEF Handling, Walking
    <2> QED
        BY <2>1, <2>2
<1>4. pc # "root" => Top.todo \in SUBSET Names
    BY <1>2, <1>3 DEF Frames
<1>5. pc # "root" => Name \in Top.todo
    BY <1>3, <1>4 DEF Name
<1>6. pc = "root" => Name = "s" /\ Dir = Base
    BY DEF Name, Dir
<1>7. pc # "root" => Dir = Top.src
    BY DEF Dir
<1>8. Dir \in Nodes
    BY <1>2, <1>6, <1>7, TreesAssumption
<1>9. Entry # None => /\ Entry \in Nodes /\ tree[Entry].linked
                      /\ tree[Entry].parent = Dir /\ tree[Entry].name = Name
    BY AtIs DEF Entry
<1>10. Entry # None => Entry \in within
    <2>1. CASE pc = "root"
        BY <2>1, <1>6, <1>9 DEF Stand, TreeSound, Within, Roots
    <2>2. CASE pc # "root"
        BY <2>2, <1>2, <1>7, <1>9 DEF Stand, TreeSound, Within
    <2> QED
        BY <2>1, <2>2
<1> QED
    BY <1>4, <1>5, <1>6, <1>8, <1>9, <1>10

LEMMA TopDst ==
    ASSUME Inv, Stand, Handling, phase = "copy", pc # "root"
    PROVE  /\ Top.dst \in Nodes \ {Base} /\ Top.dst \in within
           /\ tree[Top.dst].linked /\ tree[Top.dst].kind = "dir"
           /\ tree[Top.dst].side = "destination"
<1>1. pc \in {"entry", "open_src"}
    BY DEF Handling, Walking
<1>2. Placed(Top, tree, within) /\ Top = stack[Len(stack)] /\ Len(stack) \in 1..Len(stack)
    BY <1>1, StandTop DEF Walked
<1>3. Top.dst # None
    BY <1>1, <1>2 DEF Stand, InStep, Paired
<1> QED
    BY <1>2, <1>3 DEF Placed, Stand, TreeSound

TreeMoved == TreeStep(tree, within, tree', within')

LEMMA CrossDevicesTree == Inv /\ Stand /\ CrossDevices => TreeMoved
<1> SUFFICES ASSUME Inv, Stand, CrossDevices PROVE TreeMoved
    OBVIOUS
<1>1. TreeSound(tree, within) /\ Sided(tree) /\ within' = within
    BY DEF Stand, CrossDevices
<1>2. CASE tree' = tree
    BY <1>1, <1>2, TreeSame DEF TreeMoved
<1>3. CASE tree' # tree
    <2>1. /\ tree' = [tree EXCEPT ![Destination].linked = FALSE]
          /\ Kind(Destination) \notin {"none", "dir"}
        BY <1>3 DEF CrossDevices
    <2>2. Destination # None /\ tree[Destination].kind # "dir"
        BY <2>1 DEF Kind
    <2>3. Destination \in Nodes /\ tree' = Unlinks(tree, Destination)
        BY <1>1, <2>1, <2>2, EndsAre DEF Unlinks
    <2>4. Shrunk(tree, tree') /\ Stays(tree, tree')
        BY <1>1, <2>2, <2>3, LeafUnlinked DEF TreeSound
    <2> QED
        BY <1>1, <2>4, TreeShrinks DEF TreeMoved
<1> QED
    BY <1>2, <1>3

LEMMA BaseIs ==
    ASSUME TreeSound(tree, within)
    PROVE  Base \in Nodes /\ tree[Base].linked /\ tree[Base].kind = "dir"
BY TreesAssumption DEF TreeSound, IsTree

LEMMA CopyOneTree == Inv /\ Stand /\ CopyOne => TreeMoved
<1> SUFFICES ASSUME Inv, Stand, CopyOne PROVE TreeMoved
    OBVIOUS
<1>1. TreeSound(tree, within) /\ Sided(tree)
    BY DEF Stand, CopyOne
<1>2. /\ Kind(Source) \in {"file", "link"} /\ Yields(Kind(Source), Kind(Destination))
      /\ Copy(Source, "t", Base) /\ Record
    BY DEF CopyOne
<1>3. Source # None
    BY <1>2 DEF Kind
<1>4. Source \in Nodes
    BY <1>1, <1>3, EndsAre
<1>5. Kind(At(Base, "t")) # "dir"
    BY <1>2 DEF Yields, Destination
<1> QED
    BY <1>1, <1>2, <1>4, <1>5, BaseIs, TreeCopied DEF TreeMoved

LEMMA CannotCopyOneTree == Inv /\ Stand /\ CannotCopyOne => TreeMoved
<1> SUFFICES ASSUME Inv, Stand, CannotCopyOne PROVE TreeMoved
    OBVIOUS
<1>1. TreeSound(tree, within) /\ Sided(tree) /\ Record
    BY DEF Stand, CannotCopyOne
<1>2. CASE tree' = tree
    <2>1. tree' \in [Nodes -> Inodes] /\ IsTree(tree') /\ Sided(tree')
          /\ within \subseteq Nodes \ {Base} /\ Stays(tree, tree')
        BY <1>1, <1>2 DEF TreeSound, Stays
    <2> QED
        BY <1>1, <2>1, TreeRecorded DEF TreeMoved
<1>3. CASE tree' # tree
    <2>1. Destination = None /\ Make(tree, "file", "t", Base, Free, None)
        BY <1>3 DEF CannotCopyOne
    <2>2. \A m \in Nodes : ~(tree[m].linked /\ tree[m].parent = Base /\ tree[m].name = "t")
        BY <2>1, AtIs DEF Destination
    <2>3. Shrunk(tree, tree) /\ Stays(tree, tree)
        BY <1>1 DEF Shrunk, Stays, TreeSound
    <2>4. Free \in Modes
        BY DEF Modes
    <2> QED
        BY <1>1, <2>1, <2>2, <2>3, <2>4, BaseIs, TreeMade DEF TreeMoved
<1> QED
    BY <1>2, <1>3

LEMMA UnlinkSourceTree == Inv /\ Stand /\ UnlinkSource => TreeMoved
<1> SUFFICES ASSUME Inv, Stand, UnlinkSource PROVE TreeMoved
    OBVIOUS
<1>1. TreeSound(tree, within) /\ Sided(tree) /\ within' = within
    BY DEF Stand, UnlinkSource
<1>2. CASE tree' = tree
    BY <1>1, <1>2, TreeSame DEF TreeMoved
<1>3. CASE tree' # tree
    <2>1. /\ tree' = [tree EXCEPT ![Source].linked = FALSE]
          /\ Kind(Source) \notin {"none", "dir"}
        BY <1>3 DEF UnlinkSource
    <2>2. Source # None /\ tree[Source].kind # "dir"
        BY <2>1 DEF Kind
    <2>3. Source \in Nodes /\ tree' = Unlinks(tree, Source)
        BY <1>1, <2>1, <2>2, EndsAre DEF Unlinks
    <2>4. Shrunk(tree, tree') /\ Stays(tree, tree')
        BY <1>1, <2>2, <2>3, LeafUnlinked DEF TreeSound
    <2> QED
        BY <1>1, <2>4, TreeShrinks DEF TreeMoved
<1> QED
    BY <1>2, <1>3

LEMMA RemadeStays ==
    ASSUME NEW t \in [Nodes -> Inodes], NEW n \in Nodes, NEW mode \in Modes, NEW c \in Nodes
    PROVE  Stays(t, Remade(t, n, mode, c)) /\ Stays(t, [t EXCEPT ![n].mode = mode])
<1> DEFINE u == [t EXCEPT ![n].mode = mode]
           v == [u EXCEPT ![n].copyOf = c]
<1>1. \A m \in Nodes : u[m].kind = t[m].kind /\ u[m].linked = t[m].linked
                       /\ u[m].side = t[m].side
    BY NodeFields DEF Inodes
<1>2. u \in [Nodes -> Inodes]
    BY ModeShrinks DEF Shrunk
<1>3. Remade(t, n, mode, c) = v
    BY DEF Remade
<1> HIDE DEF u
<1>4. \A m \in Nodes : v[m].kind = u[m].kind /\ v[m].linked = u[m].linked
                       /\ v[m].side = u[m].side
    BY <1>2, NodeFields DEF Inodes
<1>5. Stays(t, v)
    BY <1>1, <1>4 DEF Stays
<1>6. Stays(t, u)
    BY <1>1 DEF Stays
<1> QED
    BY <1>3, <1>5, <1>6 DEF u

LEMMA BeginTreeTree == Inv /\ Stand /\ BeginTree => TreeMoved
<1> SUFFICES ASSUME Inv, Stand, BeginTree PROVE TreeMoved
    OBVIOUS
<1>1. TreeSound(tree, within) /\ Sided(tree) /\ Record
    BY DEF Stand, BeginTree
<1>2. Source # None
    BY DEF Kind, BeginTree
<1>3. Source \in Nodes /\ Free \in Modes
    BY <1>1, <1>2, EndsAre DEF Modes
<1>4. Shrunk(tree, tree) /\ Stays(tree, tree)
    BY <1>1 DEF Shrunk, Stays, TreeSound
<1>5. CASE Destination = None
    <2>1. Make(tree, "dir", "t", Base, Free, Source)
        BY <1>5 DEF BeginTree
    <2>2. \A m \in Nodes : ~(tree[m].linked /\ tree[m].parent = Base /\ tree[m].name = "t")
        BY <1>5, AtIs DEF Destination
    <2> QED
        BY <1>1, <1>3, <1>4, <2>1, <2>2, BaseIs, TreeMade DEF TreeMoved
<1>6. CASE Destination # None
    <2>1. tree' = Remade(tree, Destination, Free, Source)
        BY <1>6 DEF BeginTree, Remade
    <2>2. Destination \in Nodes
        BY <1>1, <1>6, EndsAre
    <2>3. tree \in [Nodes -> Inodes] /\ IsTree(tree) /\ within \subseteq Nodes \ {Base}
        BY <1>1 DEF TreeSound
    <2>4. Shrunk(tree, tree')
        BY <1>3, <2>1, <2>2, <2>3, RemadeShrinks
    <2>5. Stays(tree, tree')
        BY <1>3, <2>1, <2>2, <2>3, RemadeStays
    <2>6. IsTree(tree') /\ Sided(tree') /\ tree' \in [Nodes -> Inodes]
        BY <1>1, <2>3, <2>4, ShrunkTree, ShrunkSided DEF Shrunk
    <2> QED
        BY <1>1, <2>3, <2>5, <2>6, TreeRecorded DEF TreeMoved
<1> QED
    BY <1>5, <1>6

LEMMA CopyEntryTree == Inv /\ Stand /\ CopyEntry => TreeMoved
<1> SUFFICES ASSUME Inv, Stand, CopyEntry PROVE TreeMoved
    OBVIOUS
<1>1. TreeSound(tree, within) /\ Handling /\ phase = "copy" /\ pc # "root"
    BY DEF Stand, CopyEntry, Handling, Inv
<1>0. Sided(tree)
    BY DEF Stand, CopyEntry, Walking
<1>2. /\ Kind(Entry) \in {"file", "link"} /\ Yields(Kind(Entry), Kind(There))
      /\ Copy(Entry, Name, Top.dst) /\ Record
    BY DEF CopyEntry
<1>3. Entry # None
    BY <1>2 DEF Kind
<1>4. Entry \in Nodes /\ Name \in Names
    BY <1>1, <1>3, EntryIs
<1>5. Kind(At(Top.dst, Name)) # "dir"
    BY <1>2 DEF Yields, There
<1>6. /\ Top.dst \in Nodes \ {Base} /\ tree[Top.dst].linked /\ tree[Top.dst].kind = "dir"
    BY <1>1, TopDst
<1> QED
    BY <1>0, <1>1, <1>2, <1>4, <1>5, <1>6, TreeCopied DEF TreeMoved

LEMMA CannotCopyTree == Inv /\ Stand /\ CannotCopy => TreeMoved
<1> SUFFICES ASSUME Inv, Stand, CannotCopy PROVE TreeMoved
    OBVIOUS
<1>1. TreeSound(tree, within) /\ Record /\ Handling /\ phase = "copy" /\ pc # "root"
    BY DEF Stand, CannotCopy, Handling, Inv
<1>0. Sided(tree)
    BY DEF Stand, CannotCopy, Walking
<1>2. CASE tree' = tree
    <2>1. tree' \in [Nodes -> Inodes] /\ IsTree(tree') /\ Sided(tree')
          /\ within \subseteq Nodes \ {Base} /\ Stays(tree, tree')
        BY <1>0, <1>1, <1>2 DEF TreeSound, Stays
    <2> QED
        BY <1>1, <2>1, TreeRecorded DEF TreeMoved
<1>3. CASE tree' # tree
    <2>1. There = None /\ Make(tree, "file", Name, Top.dst, Free, None)
        BY <1>3 DEF CannotCopy
    <2>2. \A m \in Nodes :
              ~(tree[m].linked /\ tree[m].parent = Top.dst /\ tree[m].name = Name)
        BY <2>1, AtIs DEF There
    <2>3. Shrunk(tree, tree) /\ Stays(tree, tree)
        BY <1>1 DEF Shrunk, Stays, TreeSound
    <2>4. Free \in Modes /\ Name \in Names
        BY <1>1, EntryIs DEF Modes
    <2>5. /\ Top.dst \in Nodes \ {Base} /\ tree[Top.dst].linked /\ tree[Top.dst].kind = "dir"
        BY <1>1, TopDst
    <2> QED
        BY <1>0, <1>1, <2>1, <2>2, <2>3, <2>4, <2>5, TreeMade DEF TreeMoved
<1> QED
    BY <1>2, <1>3

LEMMA MakeDirectoryTree == Inv /\ Stand /\ MakeDirectory => TreeMoved
<1> SUFFICES ASSUME Inv, Stand, MakeDirectory PROVE TreeMoved
    OBVIOUS
<1>1. TreeSound(tree, within) /\ Record /\ Handling /\ phase = "copy" /\ pc # "root"
    BY DEF Stand, MakeDirectory, Handling, Inv
<1>0. Sided(tree)
    BY DEF Stand, MakeDirectory, Walking
<1>2. CASE There # None
    <2>0. tree' = tree
        BY <1>2 DEF MakeDirectory
    <2>1. tree' \in [Nodes -> Inodes] /\ IsTree(tree') /\ Sided(tree')
          /\ within \subseteq Nodes \ {Base} /\ Stays(tree, tree')
        BY <1>0, <1>1, <2>0 DEF TreeSound, Stays
    <2> QED
        BY <1>1, <2>1, TreeRecorded DEF TreeMoved
<1>3. CASE There = None
    <2>1. Make(tree, "dir", Name, Top.dst, Free, Entry)
        BY <1>3 DEF MakeDirectory
    <2>2. \A m \in Nodes :
              ~(tree[m].linked /\ tree[m].parent = Top.dst /\ tree[m].name = Name)
        BY <1>3, AtIs DEF There
    <2>3. Shrunk(tree, tree) /\ Stays(tree, tree)
        BY <1>1 DEF Shrunk, Stays, TreeSound
    <2>4. Free \in Modes /\ Name \in Names
        BY <1>1, EntryIs DEF Modes
    <2>5. /\ Top.dst \in Nodes \ {Base} /\ tree[Top.dst].linked /\ tree[Top.dst].kind = "dir"
        BY <1>1, TopDst
    <2>6. Entry \in Nodes \cup {None}
        BY <1>1, EntryIs
    <2> QED
        BY <1>0, <1>1, <2>1, <2>2, <2>3, <2>4, <2>5, <2>6, TreeMade DEF TreeMoved
<1> QED
    BY <1>2, <1>3

LEMMA OpenDestinationTree ==
    Inv /\ Stand /\ OpenDestination =>
        /\ TreeMoved /\ Fresh \in within
        /\ tree'[Fresh].linked /\ tree'[Fresh].kind = "dir" /\ tree'[Fresh].side = "destination"
<1> SUFFICES ASSUME Inv, Stand, OpenDestination
             PROVE  /\ TreeMoved /\ Fresh \in within
                    /\ tree'[Fresh].linked /\ tree'[Fresh].kind = "dir"
                    /\ tree'[Fresh].side = "destination"
    OBVIOUS
<1>1. TreeSound(tree, within) /\ Sided(tree) /\ within' = within /\ pc = "open_dst"
    BY DEF Stand, OpenDestination
<1>2. /\ Standing(stack, tree, within) /\ stack # << >> /\ Len(stack) \in Nat
      /\ Len(stack) >= 1 /\ Placed(Top, tree, within) /\ Len(stack) >= 2
      /\ Top.src \in Nodes
    BY <1>1, StandTop DEF Walked, Inv
<1> DEFINE below == stack[Len(stack) - 1]
<1>3. Placed(below, tree, within) /\ below.dst # None
    <2>1. Len(stack) - 1 \in 1..Len(stack) /\ Len(stack) - 1 \in 1..(Len(stack) - 1)
        BY <1>2
    <2>2. Placed(below, tree, within)
        BY <1>2, <2>1, StandingFrames
    <2>3. Paired(stack, Len(stack) - 1)
        BY <1>1 DEF Stand, InStep
    <2> QED
        BY <2>1, <2>2, <2>3 DEF Paired
<1>4. Fresh = At(below.dst, Top.name)
    BY DEF Fresh
<1> HIDE DEF below
<1>5. Fresh # None /\ tree[Fresh].kind = "dir"
    BY DEF OpenDestination, Kind
<1>6. /\ Fresh \in Nodes /\ tree[Fresh].linked /\ tree[Fresh].parent = below.dst
    BY <1>4, <1>5, AtIs
<1>7. below.dst \in within /\ below.dst \in Nodes \ {Base} /\ tree[below.dst].side = "destination"
    BY <1>1, <1>3 DEF Placed, TreeSound
<1>8. Fresh \in within
    BY <1>1, <1>6, <1>7 DEF TreeSound, Within
<1>9. tree[Fresh].side = "destination"
    BY <1>1, <1>6, <1>7, NoneAssumption DEF Sided
<1>10. tree' = Remade(tree, Fresh, Free, Top.src)
    BY DEF OpenDestination, Remade
<1>11. Free \in Modes /\ tree \in [Nodes -> Inodes]
    BY <1>1 DEF Modes, TreeSound
<1>12. Shrunk(tree, tree') /\ Stays(tree, tree')
    <2>1. Shrunk(tree, tree')
        BY <1>2, <1>6, <1>10, <1>11, RemadeShrinks
    <2>2. Stays(tree, tree')
        BY <1>2, <1>6, <1>10, <1>11, RemadeStays
    <2> QED
        BY <2>1, <2>2
<1>13. TreeMoved
    BY <1>1, <1>12, TreeShrinks DEF TreeMoved
<1>14. tree'[Fresh].linked /\ tree'[Fresh].kind = "dir" /\ tree'[Fresh].side = "destination"
    BY <1>5, <1>6, <1>9, <1>12 DEF Stays
<1> QED
    BY <1>8, <1>13, <1>14

LEMMA SealDirectoryTree == Inv /\ Stand /\ SealDirectory => TreeMoved
<1> SUFFICES ASSUME Inv, Stand, SealDirectory PROVE TreeMoved
    OBVIOUS
<1>1. TreeSound(tree, within) /\ Sided(tree) /\ within' = within
    BY DEF Stand, SealDirectory
<1>2. tree' = [tree EXCEPT ![hand.dst].mode = hand.mode]
    BY DEF SealDirectory, SealedAs
<1>3. hand.dst \in Nodes /\ hand.mode \in Modes /\ tree \in [Nodes -> Inodes]
    BY DEF SealDirectory, Stand, Placed, InStep, TreeSound
<1>4. Shrunk(tree, tree')
    BY <1>2, <1>3, ModeShrinks
<1>5. Stays(tree, tree')
    <2>1. PICK c \in Nodes : c = hand.dst
        BY <1>3
    <2> QED
        BY <1>2, <1>3, <2>1, RemadeStays
<1> QED
    BY <1>1, <1>4, <1>5, TreeShrinks DEF TreeMoved

LEMMA WithoutShrinks ==
    ASSUME TreeSound(tree, within), NEW n \in Nodes, NEW dir \in Nodes, n # Base,
           \A m \in Nodes : ~(tree[m].linked /\ tree[m].parent = n)
    PROVE  /\ Shrunk(tree, Without(n, dir))
           /\ \A m \in Nodes : m # n => Without(n, dir)[m].linked = tree[m].linked
<1>1. tree \in [Nodes -> Inodes] /\ IsTree(tree)
    BY DEF TreeSound
<1> DEFINE u == Unlinks(tree, n)
           mode == IF dir = Base THEN u[dir].mode ELSE Free
           v == [u EXCEPT ![dir].mode = mode]
<1>2. Shrunk(tree, u)
    BY <1>1, UnlinksShrinks
<1>3. \A m \in Nodes : m # n => u[m] = tree[m]
    BY <1>1 DEF Unlinks
<1>4. Without(n, dir) = v
    BY DEF Without, Unlinks
<1>5. u \in [Nodes -> Inodes]
    BY <1>2 DEF Shrunk
<1> HIDE DEF u
<1>6. mode \in Modes
    BY <1>5, NodeFields DEF Modes
<1> HIDE DEF mode
<1>7. Shrunk(u, v)
    BY <1>5, <1>6, ModeShrinks
<1>8. \A m \in Nodes : v[m].linked = u[m].linked
    BY <1>5, NodeFields DEF Inodes
<1>9. Shrunk(tree, v)
    BY <1>1, <1>2, <1>7, ShrunkTwice
<1> QED
    BY <1>3, <1>4, <1>8, <1>9

LEMMA UnlinkTree == Inv /\ Stand /\ Unlink => TreeMoved
<1> SUFFICES ASSUME Inv, Stand, Unlink PROVE TreeMoved
    OBVIOUS
<1>1. TreeSound(tree, within) /\ within' = within /\ Handling
    BY DEF Stand, Unlink, Handling
<1>0. Sided(tree)
    BY DEF Stand, Unlink, Walking
<1>2. Entry # None /\ tree[Entry].kind # "dir" /\ tree' = Without(Entry, Dir)
    BY DEF Unlink, Kind
<1>3. Entry \in Nodes /\ Dir \in Nodes
    BY <1>1, <1>2, EntryIs
<1>4. Entry # Base
    BY <1>1, <1>2, BaseIs
<1>5. \A m \in Nodes : ~(tree[m].linked /\ tree[m].parent = Entry)
    BY <1>1, <1>2, <1>3, LeafHasNoEntries DEF TreeSound
<1>6. /\ Shrunk(tree, tree')
      /\ \A m \in Nodes : m # Entry => tree'[m].linked = tree[m].linked
    BY <1>1, <1>2, <1>3, <1>4, <1>5, WithoutShrinks
<1>7. Stays(tree, tree')
    BY <1>2, <1>6, ShrunkStays
<1> QED
    BY <1>0, <1>1, <1>6, <1>7, TreeShrinks DEF TreeMoved

LEMMA EnterTree == Inv /\ Stand /\ Enter => TreeMoved
<1> SUFFICES ASSUME Inv, Stand, Enter PROVE TreeMoved
    OBVIOUS
<1>1. TreeSound(tree, within) /\ within' = within /\ Handling
    BY DEF Stand, Enter, Handling
<1>0. Sided(tree)
    BY DEF Stand, Enter, Walking
<1>2. Entry # None
    BY DEF Enter, Kind
<1>3. Entry \in Nodes /\ tree \in [Nodes -> Inodes] /\ Free \in Modes
    BY <1>1, <1>2, EntryIs DEF TreeSound, Modes
<1>4. CASE tree' = tree
    BY <1>0, <1>1, <1>4, TreeSame DEF TreeMoved
<1>5. CASE tree' # tree
    <2>1. tree' = [tree EXCEPT ![Entry].mode = Free]
        BY <1>5 DEF Enter
    <2>2. Shrunk(tree, tree')
        BY <1>3, <2>1, ModeShrinks
    <2>3. Stays(tree, tree')
        BY <1>3, <2>1, RemadeStays
    <2> QED
        BY <1>0, <1>1, <2>2, <2>3, TreeShrinks DEF TreeMoved
<1> QED
    BY <1>4, <1>5

(* A removal may take a directory of either side. *)
LEMMA RemoveDirectoryTree ==
    Inv /\ Stand /\ RemoveDirectory =>
        TreeSound(tree', within') /\ within' = within /\ Sided(tree')
<1> SUFFICES ASSUME Inv, Stand, RemoveDirectory
             PROVE  TreeSound(tree', within') /\ within' = within /\ Sided(tree')
    OBVIOUS
<1>1. TreeSound(tree, within) /\ Sided(tree) /\ within' = within
    BY DEF Stand, RemoveDirectory
<1>2. Left # None /\ Children(Left) = {} /\ tree' = Without(Left, Above)
    BY DEF RemoveDirectory, Empty, Kind
<1>3. Above \in Nodes
    <2>1. CASE stack = << >>
        BY <2>1, TreesAssumption DEF Above
    <2>2. CASE stack # << >>
        <3>1. Standing(stack, tree, within)
            BY DEF Stand
        <3>2. Len(stack) \in 1..Len(stack)
            BY <2>2, <3>1, StandingFrames
        <3>3. Placed(Top, tree, within)
            BY <3>1, <3>2, StandingFrames DEF Top
        <3> QED
            BY <1>1, <2>2, <3>3 DEF Above, Placed, TreeSound
    <2> QED
        BY <2>1, <2>2
<1>4. Left \in Nodes /\ tree[Left].parent = Above
    BY <1>2, AtIs DEF Left
<1>5. Left # Base
    BY <1>1, <1>3, <1>4, NoneAssumption DEF TreeSound, IsTree
<1>6. \A m \in Nodes : ~(tree[m].linked /\ tree[m].parent = Left)
    BY <1>2 DEF Children
<1>7. Shrunk(tree, tree')
    BY <1>1, <1>2, <1>3, <1>4, <1>5, <1>6, WithoutShrinks
<1> QED
    BY <1>1, <1>7, ShrunkSound, ShrunkSided DEF TreeSound

LEMMA ChangeTree == Inv /\ Stand /\ Change => TreeMoved
<1> SUFFICES ASSUME Inv, Stand, Change PROVE TreeMoved
    OBVIOUS
<1>1. TreeSound(tree, within) /\ Sided(tree) /\ Record
    BY DEF Stand, Change
<1>2. /\ tree \in [Nodes -> Inodes] /\ IsTree(tree) /\ within \subseteq Nodes \ {Base}
      /\ tree[Base].side = "destination"
    BY <1>1 DEF TreeSound, Sided
<1> DEFINE theirs == {n \in Nodes : tree[n].linked /\ tree[n].side = "source"}
           dirs == {d \in theirs : Kind(d) = "dir"}
           moves == \E n \in theirs \ {Outside}, d \in dirs :
                /\ d \notin Below(tree, {n}) /\ At(d, tree[n].name) = None
                /\ tree' = [tree EXCEPT ![n].parent = d]
           removes == \E n \in theirs \ {Outside} :
                /\ Children(n) = {}
                /\ tree' = [tree EXCEPT ![n].linked = FALSE]
           makes == \E d \in dirs, name \in Names :
                /\ At(d, name) = None
                /\ Make(tree, "file", name, d, Free, None)
<1>3. moves \/ removes \/ makes
    BY DEF Change
<1>4. \A n \in theirs : /\ n \in Nodes /\ tree[n].linked /\ tree[n].side = "source"
                        /\ n # Base
    BY <1>2
<1>5. \A d \in dirs : d \in theirs /\ tree[d].kind = "dir"
    BY NoneAssumption DEF Kind
<1> HIDE DEF theirs, dirs
<1>6. ASSUME moves PROVE TreeMoved
    <2>1. PICK n \in theirs, d \in dirs : /\ d \notin Below(tree, {n})
                                          /\ At(d, tree[n].name) = None
                                          /\ tree' = [tree EXCEPT ![n].parent = d]
        BY <1>6
    <2>2. d # n
        <3>1. n \in {n} /\ n \in Nodes /\ tree[n].linked
            BY <1>4
        <3>2. n \in Below(tree, {n})
            BY <1>2, <3>1, BelowIs
        <3> QED
            BY <2>1, <3>2
    <2>3. \A m \in Nodes : ~(tree[m].linked /\ tree[m].parent = d
                             /\ tree[m].name = tree[n].name)
        BY <2>1, AtIs
    <2>4. Moved(tree, tree', n, d)
        BY <1>4, <1>5, <2>1, <2>2, <2>3 DEF Moved
    <2>5. tree' \in [Nodes -> Inodes] /\ IsTree(tree')
        BY <1>2, <2>4, MovedTree
    <2>6. tree[n].side = tree[d].side /\ d # Base
        BY <1>4, <1>5
    <2>7. Sided(tree')
        BY <1>1, <1>2, <2>4, <2>6, MovedSided
    <2>8. Stays(tree, tree')
        BY <1>2, <2>4, MovedStays
    <2> QED
        BY <1>1, <1>2, <2>5, <2>7, <2>8, TreeRecorded DEF TreeMoved
<1>7. ASSUME removes PROVE TreeMoved
    <2>1. PICK n \in theirs : /\ Children(n) = {}
                              /\ tree' = [tree EXCEPT ![n].linked = FALSE]
        BY <1>7
    <2>2. n \in Nodes /\ n # Base /\ tree[n].side = "source"
          /\ \A m \in Nodes : ~(tree[m].linked /\ tree[m].parent = n)
        BY <1>4, <2>1 DEF Children
    <2>3. tree' = Unlinks(tree, n)
        BY <2>1 DEF Unlinks
    <2>4. Shrunk(tree, tree')
        BY <1>2, <2>2, <2>3, UnlinksShrinks
    <2>5. \A m \in Nodes : m # n => tree'[m] = tree[m]
        BY <1>2, <2>1
    <2>6. \A m \in Nodes : tree[m].linked /\ ~tree'[m].linked => m = n
        BY <2>5
    <2>7. Stays(tree, tree')
        BY <2>2, <2>4, <2>6, ShrunkStays
    <2>8. IsTree(tree') /\ Sided(tree') /\ tree' \in [Nodes -> Inodes]
        BY <1>1, <1>2, <2>4, ShrunkTree, ShrunkSided DEF Shrunk
    <2> QED
        BY <1>1, <1>2, <2>7, <2>8, TreeRecorded DEF TreeMoved
<1>8. ASSUME makes PROVE TreeMoved
    <2>1. PICK d \in dirs, name \in Names : /\ At(d, name) = None
                                            /\ Make(tree, "file", name, d, Free, None)
        BY <1>8
    <2>2. \A m \in Nodes : ~(tree[m].linked /\ tree[m].parent = d /\ tree[m].name = name)
        BY <2>1, AtIs
    <2>3. Shrunk(tree, tree) /\ Stays(tree, tree)
        BY <1>2 DEF Shrunk, Stays
    <2>4. Free \in Modes
        BY DEF Modes
    <2>5. d \in Nodes /\ tree[d].linked /\ tree[d].kind = "dir" /\ d # Base
        BY <1>4, <1>5
    <2> QED
        BY <1>1, <2>1, <2>2, <2>3, <2>4, <2>5, TreeMade DEF TreeMoved
<1> QED
    BY <1>3, <1>6, <1>7, <1>8

LEMMA NamesDiffer ==
    ASSUME NEW t, IsTree(t), NEW n \in Nodes, t[n].linked, t[n].parent # None
    PROVE  \A m \in Nodes \ {n} : ~ /\ t[m].linked
                                    /\ t[m].parent = t[n].parent
                                    /\ t[m].name = t[n].name
BY DEF IsTree

(* The source takes the name of the destination, and what had it is gone. *)
LEMMA RenameTree ==
    Inv /\ Stand /\ Rename => TreeSound(tree', within') /\ within \subseteq within'
<1> SUFFICES ASSUME Inv, Stand, Rename
             PROVE  TreeSound(tree', within') /\ within \subseteq within'
    OBVIOUS
<1>1. TreeSound(tree, within) /\ Record /\ tree \in [Nodes -> Inodes] /\ IsTree(tree)
    BY DEF Stand, Rename, TreeSound
<1>2. /\ Source \in Nodes /\ tree[Source].linked /\ Source # Base
      /\ tree[Source].parent = Base /\ tree[Source].name = "s"
    BY <1>1, EndsAre DEF Rename
<1> DEFINE s == Source
           d == Destination
           u == IF d = None THEN tree ELSE Unlinks(tree, d)
           v == [u EXCEPT ![s].name = "t"]
<1>3. d # None => /\ d \in Nodes /\ d # Base /\ tree[d].linked
                  /\ tree[d].parent = Base /\ tree[d].name = "t"
    BY <1>1, EndsAre
<1>4. d = None => \A m \in Nodes :
          ~(tree[m].linked /\ tree[m].parent = Base /\ tree[m].name = "t")
    BY AtIs DEF Destination
<1>5. d # None => \A m \in Nodes : ~(tree[m].linked /\ tree[m].parent = d)
    <2>1. CASE Kind(d) # "dir"
        BY <1>1, <1>3, <2>1, LeafHasNoEntries DEF Kind
    <2>2. CASE Kind(d) = "dir"
        <3>1. d # None => Children(d) = {}
            BY <2>2 DEF Rename
        <3> QED
            BY <3>1 DEF Children
    <2> QED
        BY <2>1, <2>2
<1>6. tree' = Renamed
    BY DEF Rename
<1>7. s # d
    BY <1>2, <1>3, NoneAssumption
<1> HIDE DEF s, d
<1>8. Shrunk(tree, u)
    <2>1. CASE d = None
        BY <1>1, <2>1 DEF Shrunk
    <2>2. CASE d # None
        BY <1>1, <1>3, <1>5, <2>2, UnlinksShrinks
    <2> QED
        BY <2>1, <2>2
<1>9. u \in [Nodes -> Inodes] /\ IsTree(u)
    BY <1>1, <1>8, ShrunkTree DEF Shrunk
<1>10. s \in Nodes /\ u[s] = tree[s]
    BY <1>1, <1>2, <1>3, <1>7 DEF s, Unlinks
<1>11. \A m \in Nodes : ~(u[m].linked /\ u[m].parent = Base /\ u[m].name = "t")
    <2>1. CASE d = None
        BY <1>4, <2>1
    <2>2. CASE d # None
        <3>1. ~u[d].linked
            <4>1. tree[d] \in Inodes
                BY <1>1, <1>3, <2>2
            <4> QED
                BY <1>1, <1>3, <2>2, <4>1 DEF Unlinks, Inodes
        <3>2. \A m \in Nodes : m # d =>
                  ~(tree[m].linked /\ tree[m].parent = Base /\ tree[m].name = "t")
            <4>1. \A m \in Nodes \ {d} :
                      ~(tree[m].linked /\ tree[m].parent = tree[d].parent
                        /\ tree[m].name = tree[d].name)
                <5>1. tree[d].parent # None
                    BY <1>3, <2>2, NoneAssumption, BaseIs, <1>1
                <5>2. d \in Nodes /\ tree[d].linked
                    BY <1>3, <2>2
                <5>3. IsTree(tree)
                    BY <1>1
                <5> QED
                    BY <5>1, <5>2, <5>3, NamesDiffer
            <4> QED
                BY <1>3, <2>2, <4>1
        <3> HIDE DEF u
        <3>3. ASSUME NEW m \in Nodes, u[m].linked, u[m].parent = Base, u[m].name = "t"
              PROVE  FALSE
            <4>1. m # d /\ tree[m].linked /\ tree[m].parent = Base /\ tree[m].name = "t"
                BY <1>8, <3>1, <3>3 DEF Shrunk
            <4> QED
                BY <3>2, <4>1
        <3> QED
            BY <3>3
    <2> QED
        BY <2>1, <2>2
<1>12. tree' = v
    <2> DEFINE r(n) == CASE n = s -> [tree[n] EXCEPT !.name = "t"]
                         [] n = d -> [tree[n] EXCEPT !.linked = FALSE]
                         [] OTHER -> tree[n]
    <2>0. Renamed = [n \in Nodes |-> r(n)]
        BY DEF Renamed, s, d
    <2>1. ASSUME NEW n \in Nodes PROVE v[n] = r(n)
        <3>1. CASE n = s
            <4>1. r(n) = [tree[s] EXCEPT !.name = "t"]
                BY <1>7, <3>1
            <4>2. v[n] = [u[s] EXCEPT !.name = "t"]
                BY <1>9, <1>10, <3>1
            <4> QED
                BY <1>10, <4>1, <4>2
        <3>2. CASE n # s
            <4>1. v[n] = u[n]
                BY <1>9, <3>2
            <4>2. CASE n = d
                <5>1. d # None
                    BY <4>2, NoneAssumption
                <5>2. u[n] = [tree[n] EXCEPT !.linked = FALSE]
                    BY <1>1, <4>2, <5>1 DEF Unlinks
                <5> QED
                    BY <3>2, <4>1, <4>2, <5>2
            <4>3. CASE n # d
                <5>1. u[n] = tree[n]
                    BY <1>1, <4>3 DEF Unlinks
                <5> QED
                    BY <3>2, <4>1, <4>3, <5>1
            <4> QED
                BY <4>2, <4>3
        <3> QED
            BY <3>1, <3>2
    <2>2. v = [n \in Nodes |-> v[n]]
        BY <1>9
    <2> HIDE DEF v, r
    <2> QED
        BY <1>6, <2>0, <2>1, <2>2
<1> HIDE DEF u
<1>13. /\ \A n \in Nodes \ {s} : v[n] = u[n]
       /\ v[s].name = "t" /\ v[s].parent = Base /\ v[s].linked /\ v[s].kind = u[s].kind
       /\ v[s].linked = u[s].linked
    <2>1. u[s] \in Inodes
        BY <1>9, <1>10
    <2> QED
        BY <1>2, <1>9, <1>10, <2>1 DEF Inodes, s
<1>14. v \in [Nodes -> Inodes]
    <2>1. [u[s] EXCEPT !.name = "t"] \in Inodes
        BY <1>9, <1>10 DEF Inodes
    <2> QED
        BY <1>9, <2>1
<1>15. s # Base /\ u[s].parent = Base
    BY <1>2, <1>10 DEF s
<1> HIDE DEF v
<1>16. IsTree(v)
    <2>1. v[Base].linked /\ v[Base].kind = "dir" /\ v[Base].parent = None
        BY <1>9, <1>13, <1>15, TreesAssumption DEF IsTree
    <2>2. ASSUME NEW n \in Nodes, v[n].linked, v[n].parent # None
          PROVE  /\ v[v[n].parent].linked /\ v[v[n].parent].kind = "dir"
                 /\ \A m \in Nodes \ {n} : ~ /\ v[m].linked
                                             /\ v[m].parent = v[n].parent
                                             /\ v[m].name = v[n].name
        <3>1. \A m \in Nodes : v[m].linked = u[m].linked /\ v[m].kind = u[m].kind
                               /\ v[m].parent = u[m].parent
            BY <1>13, <1>15
        <3>2. u[n].linked /\ u[n].parent # None /\ u[n].parent \in Nodes
            BY <1>9, <2>2, <3>1, NodeFields
        <3>3. v[v[n].parent].linked /\ v[v[n].parent].kind = "dir"
            BY <1>9, <3>1, <3>2 DEF IsTree
        <3>4. CASE n = s
            BY <1>11, <1>13, <3>1, <3>3, <3>4
        <3>5. CASE n # s
            <4>1. \A m \in Nodes \ {n, s} : ~ /\ v[m].linked
                                              /\ v[m].parent = v[n].parent
                                              /\ v[m].name = v[n].name
                BY <1>9, <1>13, <3>2, <3>5 DEF IsTree
            <4>2. ~(v[s].parent = v[n].parent /\ v[s].name = v[n].name)
                BY <1>11, <1>13, <3>2, <3>5
            <4> QED
                BY <3>3, <4>1, <4>2
        <3> QED
            BY <3>4, <3>5
    <2> QED
        BY <2>1, <2>2 DEF IsTree
<1> QED
    BY <1>1, <1>12, <1>14, <1>16, RecordWithin DEF TreeSound

-----------------------------------------------------------------------------
(***************************************************************************)
(* What an action does to the levels of a copy.                            *)
(***************************************************************************)
Carried ==
    /\ TreeSound(tree', within') /\ Sided(tree') /\ within \subseteq within'
    /\ phase = "remove" \/ Stays(tree, tree')

LEMMA MovedCarries == TreeMoved => Carried
BY DEF TreeMoved, TreeStep, Carried

LEMMA SameCarries ==
    ASSUME Inv, Stand, pc # "over", UNCHANGED <<tree, within>>
    PROVE  Carried
<1>1. TreeSound(tree, within) /\ Sided(tree)
    BY DEF Stand
<1>2. TreeMoved
    BY <1>1, TreeSame DEF TreeMoved
<1> QED
    BY <1>2, MovedCarries

LEMMA CarriedNext ==
    ASSUME Inv, Stand, Next, ~Rename
    PROVE  Carried
<1>1. CASE CrossDevices \/ CopyOne \/ CannotCopyOne \/ UnlinkSource \/ BeginTree
           \/ CopyEntry \/ CannotCopy \/ MakeDirectory \/ OpenDestination
           \/ SealDirectory \/ Unlink \/ Enter \/ Change
    BY <1>1, CrossDevicesTree, CopyOneTree, CannotCopyOneTree, UnlinkSourceTree,
       BeginTreeTree, CopyEntryTree, CannotCopyTree, MakeDirectoryTree,
       OpenDestinationTree, SealDirectoryTree, UnlinkTree, EnterTree, ChangeTree,
       MovedCarries
<1>2. CASE RemoveDirectory
    <2>1. TreeSound(tree', within') /\ within' = within /\ Sided(tree')
        BY <1>2, RemoveDirectoryTree
    <2>2. phase = "remove"
        BY <1>2 DEF RemoveDirectory
    <2> QED
        BY <2>1, <2>2 DEF Carried
<1>3. CASE Begin \/ Refuse \/ CannotRename \/ Gone \/ CannotBegin
    <2>1. pc # "over" /\ UNCHANGED <<tree, within>>
        BY <1>3 DEF Begin, Refuse, CannotRename, Gone, CannotBegin
    <2> QED
        BY <2>1, SameCarries
<1>4. CASE List \/ CannotList \/ Leave \/ LoseFooting \/ Counted
    <2>1. pc # "over" /\ UNCHANGED <<tree, within>>
        BY <1>4 DEF List, CannotList, Leave, LoseFooting, Counted
    <2> QED
        BY <2>1, SameCarries
<1>5. CASE Count \/ SkipEntry \/ Vanished \/ StepOver
    <2>1. pc # "over" /\ UNCHANGED <<tree, within>>
        BY <1>5 DEF Count, SkipEntry, Vanished, StepOver, Walking
    <2> QED
        BY <2>1, SameCarries
<1>6. CASE OpenSource \/ CannotOpenSource \/ CannotOpenDestination \/ KeepDirectory
    <2>1. pc # "over" /\ UNCHANGED <<tree, within>>
        BY <1>6 DEF OpenSource, CannotOpenSource, CannotOpenDestination, KeepDirectory
    <2> QED
        BY <2>1, SameCarries
<1> QED
    BY <1>1, <1>2, <1>3, <1>4, <1>5, <1>6 DEF Next, Work

LEMMA CarriedStanding ==
    ASSUME Stand, Carried
    PROVE  /\ Standing(stack, tree', within')
           /\ within \in SUBSET Nodes
<1>1. Standing(stack, tree, within) /\ within \in SUBSET Nodes
    BY DEF Stand, TreeSound
<1>2. Single(stack) \/ Stays(tree, tree')
    BY DEF Stand, InStep, Carried
<1> QED
    BY <1>1, <1>2, StandingStays DEF Carried

LEMMA OverStands ==
    ASSUME TreeSound(tree', within'), NEW how, Over(how)
    PROVE  Stand'
<1>1. pc' = "over" /\ stack' = << >>
    BY DEF Over
<1>2. Standing(stack', tree', within') /\ Single(stack')
    BY <1>1, StandingNone
<1>3. InStep(stack', hand', pc', phase')
    BY <1>1, <1>2 DEF InStep
<1> QED
    BY <1>1, <1>2, <1>3 DEF Stand

LEMMA BareStands ==
    ASSUME Carried, stack' = << >>,
           pc' \in {"idle", "rename", "begin", "one", "settle", "root"}
    PROVE  Stand'
<1>1. Standing(stack', tree', within') /\ Single(stack')
    BY StandingNone
<1>2. InStep(stack', hand', pc', phase')
    BY <1>1 DEF InStep
<1> QED
    BY <1>1, <1>2 DEF Stand, Carried

LEMMA SameStands ==
    ASSUME Stand, Carried, UNCHANGED <<stack, phase, pc, hand>>
    PROVE  Stand'
<1>1. Standing(stack', tree', within')
    BY CarriedStanding
<1>2. ASSUME pc = "leave" PROVE hand' \in Frames /\ Placed(hand', tree', within')
    <2>1. hand \in Frames /\ Placed(hand, tree, within) /\ within \in SUBSET Nodes
        BY <1>2 DEF Stand, TreeSound
    <2>2. hand.dst = None \/ Stays(tree, tree')
        BY <1>2 DEF Stand, InStep, Carried
    <2> QED
        BY <2>1, <2>2, PlacedStays DEF Carried
<1> QED
    BY <1>1, <1>2 DEF Stand, Carried

(* The levels have the directories of the copy that they had.              *)
Kept(r, s) == Len(r) = Len(s) /\ \A i \in 1..Len(s) : r[i].dst = s[i].dst

LEMMA KeptPairs ==
    ASSUME NEW r, NEW s, Kept(r, s), Len(s) \in Nat
    PROVE  /\ Paired(s, Len(s)) => Paired(r, Len(r))
           /\ Single(s) => Single(r)
           /\ Len(s) >= 1 => r[1].dst = s[1].dst
BY DEF Kept, Paired, Single

LEMMA WithTopStands ==
    ASSUME Inv, Stand, Carried, stack # << >>,
           NEW f \in Frames, f.src = Top.src, f.dst = Top.dst, f.mode = Top.mode, WithTop(f)
    PROVE  /\ Standing(stack', tree', within') /\ Kept(stack', stack)
           /\ stack' # << >> /\ Len(stack) \in Nat /\ Len(stack) >= 1
<1>1. Standing(stack, tree', within')
    BY CarriedStanding
<1>2. /\ Len(stack) \in Nat /\ Len(stack) >= 1 /\ Placed(Top, tree', within')
    BY <1>1, StandingFrames DEF Top
<1>3. Placed(f, tree', within')
    BY <1>2 DEF Placed
<1> DEFINE r == [stack EXCEPT ![Len(stack)] = f]
<1>4. stack' = r
    BY DEF WithTop
<1>5. /\ Standing(r, tree', within') /\ Len(r) = Len(stack) /\ r # << >>
      /\ r[Len(stack)] = f /\ \A i \in 1..(Len(stack) - 1) : r[i] = stack[i]
    BY <1>1, <1>3, StandingTop
<1> HIDE DEF r
<1>6. ASSUME NEW i \in 1..Len(stack) PROVE r[i].dst = stack[i].dst
    <2>1. CASE i = Len(stack)
        BY <1>5, <2>1 DEF Top
    <2>2. CASE i # Len(stack)
        BY <1>2, <1>5, <2>2
    <2> QED
        BY <2>1, <2>2
<1>7. Kept(r, stack)
    BY <1>5, <1>6 DEF Kept
<1> QED
    BY <1>2, <1>4, <1>5, <1>7

(* On to what is next in the same level. *)
LEMMA EntryStands ==
    ASSUME Inv, Stand, Carried, stack # << >>, pc \in {"entry", "open_src", "leave"},
           NEW f \in Frames, f.src = Top.src, f.dst = Top.dst, f.mode = Top.mode, WithTop(f),
           pc' = "entry", phase' = phase
    PROVE  Stand'
<1>1. /\ Standing(stack', tree', within') /\ Kept(stack', stack)
      /\ stack' # << >> /\ Len(stack) \in Nat /\ Len(stack) >= 1
    BY WithTopStands
<1>2. /\ Paired(stack, Len(stack)) => Paired(stack', Len(stack'))
      /\ Single(stack) => Single(stack')
      /\ stack'[1].dst = stack[1].dst
    BY <1>1, KeptPairs
<1>3. InStep(stack, hand, pc, phase)
    BY DEF Stand
<1>4. phase = "count" => pc # "open_src"
    BY <1>3 DEF InStep
<1>5. InStep(stack', hand', pc', phase')
    BY <1>1, <1>2, <1>3, <1>4 DEF InStep
<1> QED
    BY <1>1, <1>5 DEF Stand, Carried

Listed(g, todo) == [g EXCEPT !.todo = todo]

Marked(g, emptied) == [g EXCEPT !.emptied = emptied]

(* The rest of a frame is as it was. *)
Alike(f, g) == f \in Frames /\ f.src = g.src /\ f.dst = g.dst /\ f.mode = g.mode

LEMMA ListedAlike ==
    ASSUME NEW g \in Frames, NEW todo \in (SUBSET Names) \cup {None}
    PROVE  Alike(Listed(g, todo), g)
BY DEF Frames, Listed, Alike

LEMMA MarkedAlike ==
    ASSUME NEW g \in Frames, NEW emptied \in BOOLEAN
    PROVE  Alike(Marked(g, emptied), g)
BY DEF Frames, Marked, Alike

LEMMA BothAlike ==
    ASSUME NEW g \in Frames, NEW todo \in (SUBSET Names) \cup {None}, NEW emptied \in BOOLEAN
    PROVE  Alike(Marked(Listed(g, todo), emptied), g)
<1>1. Alike(Listed(g, todo), g)
    BY ListedAlike
<1>2. Alike(Marked(Listed(g, todo), emptied), Listed(g, todo))
    BY <1>1, MarkedAlike DEF Alike
<1> QED
    BY <1>1, <1>2 DEF Alike

LEMMA AdvanceStands ==
    ASSUME Inv, Stand, Carried, Handling, NEW gone \in BOOLEAN, Advance(gone),
           phase' = phase
    PROVE  Stand'
<1>1. CASE pc = "root"
    <2>1. TreeSound(tree', within')
        BY DEF Carried
    <2> QED
        BY <1>1, <2>1, OverStands DEF Advance
<1>2. CASE pc # "root"
    <2> DEFINE todo == Top.todo \ {Name}
               emptied == Top.emptied /\ gone
               f == Marked(Listed(Top, todo), emptied)
    <2>1. pc \in {"entry", "open_src"}
        BY <1>2 DEF Handling, Walking
    <2>2. Top \in Frames /\ stack # << >>
        BY <2>1, StandTop DEF Walked
    <2>3. todo \in (SUBSET Names) \cup {None}
        BY <1>2, EntryIs
    <2>4. emptied \in BOOLEAN
        OBVIOUS
    <2>5. WithTop(f) /\ pc' = "entry"
        BY <1>2 DEF Advance, Marked, Listed
    <2> HIDE DEF todo, emptied
    <2>6. f \in Frames /\ f.src = Top.src /\ f.dst = Top.dst /\ f.mode = Top.mode
        BY <2>2, <2>3, <2>4, BothAlike DEF Alike
    <2> HIDE DEF f
    <2> QED
        BY <2>1, <2>2, <2>5, <2>6, EntryStands
<1> QED
    BY <1>1, <1>2

LEMMA ReportStands ==
    ASSUME Inv, Stand, Carried, Handling, NEW n, Report(n), phase' = phase
    PROVE  Stand'
<1>1. CASE Reports
    BY <1>1, AdvanceStands DEF Report
<1>2. CASE ~Reports
    BY <1>2, OverStands DEF Report, Carried
<1> QED
    BY <1>1, <1>2

LEMMA PushStands ==
    ASSUME Inv, Stand, Carried, Handling, NEW f \in Frames, Placed(f, tree', within'),
           f.dst = None, Push(f), pc' \in {"entry", "open_dst"}, phase' = phase,
           pc' = "entry" => phase \in {"count", "remove"} /\ pc \in {"root", "entry"},
           pc' = "open_dst" => phase = "copy" /\ f.mode \in Modes /\ pc # "root"
    PROVE  Stand'
<1>1. Standing(stack, tree', within') /\ Len(stack) \in Nat
      /\ (stack # << >> => Len(stack) >= 1)
    BY CarriedStanding, StandingFrames
<1>2. /\ Standing(Passed, tree', within') /\ Kept(Passed, stack)
    <2>1. CASE pc = "root"
        BY <1>1, <2>1 DEF Passed, Kept
    <2>2. CASE pc # "root"
        <3> DEFINE todo == Top.todo \ {Name}
                   g == Listed(Top, todo)
                   r == [stack EXCEPT ![Len(stack)] = g]
        <3>1. pc \in Walked
            BY <2>2 DEF Handling, Walking, Walked
        <3>2. /\ stack # << >> /\ Top \in Frames /\ Top = stack[Len(stack)]
              /\ Len(stack) >= 1
            BY <3>1, StandTop
        <3>3. todo \in (SUBSET Names) \cup {None}
            BY <2>2, EntryIs
        <3>4. Passed = r
            BY <2>2 DEF Passed, Top, Listed
        <3> HIDE DEF todo
        <3>5. g \in Frames /\ g.src = Top.src /\ g.dst = Top.dst /\ g.mode = Top.mode
            BY <3>2, <3>3, ListedAlike DEF Alike
        <3> HIDE DEF g
        <3>6. Placed(Top, tree', within')
            BY <1>1, <3>2, StandingFrames
        <3>7. Placed(g, tree', within')
            BY <3>5, <3>6 DEF Placed
        <3>8. /\ Standing(r, tree', within') /\ Len(r) = Len(stack)
              /\ r[Len(stack)] = g /\ \A i \in 1..(Len(stack) - 1) : r[i] = stack[i]
            BY <1>1, <3>2, <3>5, <3>7, StandingTop
        <3> HIDE DEF r
        <3>9. ASSUME NEW i \in 1..Len(stack) PROVE r[i].dst = stack[i].dst
            <4>1. CASE i = Len(stack)
                BY <3>2, <3>5, <3>8, <4>1
            <4>2. CASE i # Len(stack)
                BY <1>1, <3>8, <4>2
            <4> QED
                BY <4>1, <4>2
        <3> QED
            BY <3>4, <3>8, <3>9 DEF Kept
    <2> QED
        BY <2>1, <2>2
<1> DEFINE s == Passed
           r == Pushed(s, f, low)
<1>3. stack' = r
    <2>0. Well(stack, low)
        BY DEF Inv
    <2>1. low \in Nat
        BY <2>0 DEF Well
    <2>2. Len(s) \in Nat /\ Len(Append(s, f)) = Len(s) + 1
        <3>1. s \in Seq(Frames)
            BY <1>2 DEF Standing
        <3> QED
            BY <3>1, AppendProperties
    <2>3. LowAfter(s, f, low) = Lowest(Len(Append(s, f)))
        BY <2>1, <2>2, BudgetAssumption DEF LowAfter, LowestFrom, Lowest
    <2> QED
        BY <2>3 DEF Push, Pushed
<1> HIDE DEF s
<1>4. /\ Standing(r, tree', within') /\ Len(r) = Len(s) + 1 /\ r # << >>
      /\ r[Len(s) + 1].dst = f.dst /\ r[Len(s) + 1].mode = f.mode
      /\ \A i \in 1..Len(s) : r[i].dst = s[i].dst
    BY <1>2, StandingPushed DEF s
<1> HIDE DEF r
<1>5. Len(s) = Len(stack) /\ \A i \in 1..Len(stack) : r[i].dst = stack[i].dst
    BY <1>2, <1>4 DEF Kept, s
<1>6. InStep(stack, hand, pc, phase)
    BY DEF Stand
<1>7. /\ Paired(stack, Len(stack)) => Paired(r, Len(r) - 1)
      /\ Single(stack) => Single(r)
      /\ stack # << >> => r[1].dst = stack[1].dst
    BY <1>1, <1>4, <1>5 DEF Paired, Single
<1>8. pc = "root" => phase = "remove"
    BY DEF Inv
<1>9. pc # "root" => stack # << >>
    BY StandTop DEF Handling, Walking, Walked
<1>10. pc # "root" => pc \in {"entry", "open_src"}
    BY DEF Handling, Walking
<1>11. InStep(r, hand', pc', phase')
    BY <1>1, <1>4, <1>5, <1>6, <1>7, <1>8, <1>9, <1>10 DEF InStep
<1> QED
    BY <1>3, <1>4, <1>11 DEF Stand, Carried

(* The level that is opened again is the one that was parked. *)
LEMMA RevivedAlike ==
    ASSUME NEW f \in Frames, NEW child, Revivable(f, child)
    PROVE  Alike(Revived(f, child), f)
<1>1. CASE ~f.parked
    BY <1>1 DEF Revived, Alike
<1>2. CASE f.parked
    <2> DEFINE a == IF f.src = None THEN None ELSE Up(child.src)
               b == IF f.dst = None THEN None ELSE Up(child.dst)
               g == [f EXCEPT !.src = a]
               h == [g EXCEPT !.dst = b]
               k == [h EXCEPT !.parked = FALSE]
    <2>1. a = f.src /\ b = f.dst
        BY <1>2 DEF Revivable, SameParent
    <2>2. Revived(f, child) = k
        BY <1>2 DEF Revived
    <2> HIDE DEF a, b
    <2>3. g \in Frames /\ g.src = f.src /\ g.dst = f.dst /\ g.mode = f.mode
        BY <2>1 DEF Frames
    <2> HIDE DEF g
    <2>4. h \in Frames /\ h.src = f.src /\ h.dst = f.dst /\ h.mode = f.mode
        BY <2>1, <2>3 DEF Frames
    <2> HIDE DEF h
    <2>5. k \in Frames /\ k.src = f.src /\ k.dst = f.dst /\ k.mode = f.mode
        BY <2>4 DEF Frames
    <2> QED
        BY <2>2, <2>5 DEF Alike
<1> QED
    BY <1>1, <1>2

LEMMA LeaveStands == Inv /\ Stand /\ Carried /\ Leave => Stand'
<1> SUFFICES ASSUME Inv, Stand, Carried, Leave PROVE Stand'
    OBVIOUS
<1>1. pc = "entry" /\ pc' = "leave" /\ phase' = phase /\ Pop /\ tree' = tree
    BY DEF Leave
<1>2. /\ Standing(stack, tree', within') /\ stack # << >> /\ Len(stack) \in Nat
      /\ Len(stack) >= 1
    BY <1>1, StandTop, CarriedStanding DEF Walked
<1>3. /\ hand' = Top /\ Top = stack[Len(stack)]
      /\ Top \in Frames /\ Placed(Top, tree', within')
    BY <1>1, <1>2, StandingFrames DEF Pop, Top
<1>4. InStep(stack, hand, pc, phase)
    BY DEF Stand
<1>5. Len(stack) \in 1..Len(stack)
    BY <1>2
<1>6. CASE Len(stack) = 1
    <2>1. stack' = << >>
        BY <1>1, <1>6 DEF Pop
    <2>2. Standing(stack', tree', within') /\ Single(stack') /\ Paired(stack', Len(stack'))
        BY <2>1, StandingNone DEF Paired
    <2>3. InStep(stack', hand', pc', phase')
        BY <1>1, <1>2, <1>3, <1>4, <1>5, <1>6, <2>1, <2>2 DEF InStep, Paired, Single
    <2> QED
        BY <1>3, <2>2, <2>3 DEF Stand, Carried
<1>7. CASE Len(stack) # 1
    <2> DEFINE n == Len(stack) - 1
               below == stack[n]
               f == Revived(below, Top)
               s == SubSeq(stack, 1, n)
               r == [s EXCEPT ![n] = f]
    <2>0. Len(stack) \in Nat /\ Len(stack) >= 1 /\ Len(stack) # 1
        BY <1>2, <1>7
    <2>1. n \in Nat /\ n >= 1 /\ n \in 1..Len(stack)
        <3>1. PICK k \in Nat : k = Len(stack)
            BY <2>0
        <3>2. k - 1 \in Nat /\ k - 1 >= 1 /\ k - 1 \in 1..k
            BY <2>0, <3>1
        <3> QED
            BY <3>1, <3>2
    <2>2. /\ Standing(s, tree', within') /\ Len(s) = n
          /\ \A i \in 1..n : s[i] = stack[i]
        BY <1>2, StandingFront
    <2>3. Revivable(below, Top) /\ stack' = r
        BY <1>1, <1>7 DEF Pop, Front
    <2>4. below \in Frames /\ Placed(below, tree', within')
        BY <1>2, <2>1, StandingFrames
    <2>5. f \in Frames /\ f.dst = below.dst /\ Placed(f, tree', within')
        <3>1. Alike(f, below)
            BY <2>3, <2>4, RevivedAlike
        <3> HIDE DEF f
        <3> QED
            BY <2>4, <3>1 DEF Alike, Placed
    <2> HIDE DEF f, s
    <2>6. s # << >>
        BY <2>1, <2>2, StandingFrames
    <2>7. /\ Standing(r, tree', within') /\ Len(r) = n /\ r # << >>
          /\ r[n] = f /\ \A i \in 1..(n - 1) : r[i] = s[i]
        BY <2>2, <2>5, <2>6, StandingTop
    <2> HIDE DEF r
    <2>8. ASSUME NEW i \in 1..n PROVE r[i].dst = stack[i].dst
        <3>1. CASE i = n
            BY <2>5, <2>7, <3>1
        <3>2. CASE i # n
            <4>1. i \in 1..(n - 1)
                <5> HIDE DEF n
                <5> QED
                    BY <2>1, <3>2
            <4> QED
                BY <2>2, <2>7, <4>1
        <3> QED
            BY <3>1, <3>2
    <2>9. /\ Paired(stack, Len(stack)) => Paired(r, Len(r)) /\ Top.dst # None
          /\ Single(stack) => Single(r) /\ Top.dst = None
          /\ r[1].dst = stack[1].dst
        BY <1>2, <1>3, <1>5, <2>1, <2>7, <2>8 DEF Paired, Single
    <2>10. InStep(r, hand', pc', phase')
        BY <1>1, <1>2, <1>3, <1>4, <2>7, <2>9 DEF InStep
    <2> QED
        BY <1>1, <1>3, <2>3, <2>7, <2>10 DEF Stand, Carried
<1> QED
    BY <1>6, <1>7

LEMMA BeginTreeStands == Inv /\ Stand /\ Carried /\ BeginTree => Stand'
<1> SUFFICES ASSUME Inv, Stand, Carried, BeginTree PROVE Stand'
    OBVIOUS
<1>1. TreeSound(tree, within) /\ Sided(tree) /\ Record
    BY DEF Stand, BeginTree
<1> DEFINE dst == IF Destination = None THEN New ELSE Destination
           f == Frame(Source, dst, "s", tree[Source].mode)
<1>2. stack' = <<f>> /\ pc' = "entry" /\ phase' \in {"count", "copy"}
    BY DEF BeginTree
<1>3. Source \in Nodes /\ Source \in within /\ tree[Source].mode \in Modes
    BY <1>1, EndsAre, NodeFields DEF TreeSound, BeginTree, Kind
<1>4. TreeSound(tree', within') /\ Sided(tree')
    BY DEF Carried
<1>5. /\ dst \in Nodes /\ tree'[dst].linked /\ tree'[dst].kind = "dir"
      /\ tree'[dst].parent = Base /\ tree'[dst].name = "t"
    <2>1. CASE Destination = None
        <3>1. /\ New \in Nodes
              /\ tree' = [tree EXCEPT ![New] =
                     [kind |-> "dir", name |-> "t", parent |-> Base, linked |-> TRUE,
                      mode |-> Free, copyOf |-> Source, side |-> tree[Base].side]]
            BY <2>1 DEF BeginTree, Make, New, Spare
        <3>2. dst = New
            BY <2>1
        <3> HIDE DEF dst
        <3>3. tree \in [Nodes -> Inodes]
            BY <1>1 DEF TreeSound
        <3> QED
            BY <3>1, <3>2, <3>3
    <2>2. CASE Destination # None
        <3>1. /\ dst = Destination /\ dst \in Nodes /\ tree[dst].linked
              /\ tree[dst].parent = Base /\ tree[dst].name = "t"
            BY <1>1, <2>2, EndsAre
        <3>2. tree[dst].kind = "dir"
            BY <2>2 DEF BeginTree, Receives, Kind
        <3>3. tree' = Remade(tree, dst, Free, Source)
            BY <2>2 DEF BeginTree, Remade
        <3> HIDE DEF dst
        <3>4. Shrunk(tree, tree') /\ Stays(tree, tree')
            <4>1. tree \in [Nodes -> Inodes] /\ Free \in Modes
                BY <1>1 DEF TreeSound, Modes
            <4>2. Shrunk(tree, tree')
                BY <1>3, <3>1, <3>3, <4>1, RemadeShrinks
            <4>3. Stays(tree, tree')
                BY <1>3, <3>1, <3>3, <4>1, RemadeStays
            <4> QED
                BY <4>2, <4>3
        <3>5. tree[dst].side = "destination"
            BY <1>1, <3>1 DEF Sided
        <3>6. tree'[dst].linked
            BY <3>1, <3>2, <3>4, <3>5 DEF Stays
        <3>7. tree'[dst].kind = "dir" /\ tree'[dst].parent = Base /\ tree'[dst].name = "t"
            BY <3>1, <3>2, <3>4 DEF Shrunk
        <3> QED
            BY <3>1, <3>6, <3>7
    <2> QED
        BY <2>1, <2>2
<1> HIDE DEF dst
<1>6. tree'[dst].side = "destination"
    BY <1>4, <1>5 DEF Sided
<1>7. dst \in within'
    BY <1>4, <1>5 DEF TreeSound, Within, Roots
<1>8. Source \in within'
    BY <1>3 DEF Carried
<1>9. f \in Frames /\ f.src = Source /\ f.dst = dst /\ f.mode = tree[Source].mode
    BY <1>3, <1>5 DEF Frame, Frames
<1> HIDE DEF f
<1>10. Placed(f, tree', within')
    BY <1>3, <1>5, <1>6, <1>7, <1>8, <1>9 DEF Placed
<1>11. Standing(<<f>>, tree', within') /\ Len(<<f>>) = 1 /\ <<f>>[1] = f /\ <<f>> # << >>
    BY <1>9, <1>10, StandingOne
<1>12. f.dst # None
    BY <1>5, <1>9, NoneAssumption
<1>13. InStep(<<f>>, hand', pc', phase')
    BY <1>2, <1>11, <1>12 DEF InStep, Paired
<1> QED
    BY <1>2, <1>4, <1>11, <1>13 DEF Stand

LEMMA EnteredFrame ==
    ASSUME Inv, Stand, Handling, Entry # None, Carried, NEW mode \in Modes \cup {None}
    PROVE  LET f == Frame(Entry, None, Name, mode)
           IN f \in Frames /\ Placed(f, tree', within') /\ f.dst = None /\ f.mode = mode
<1> DEFINE f == Frame(Entry, None, Name, mode)
<1>1. /\ Entry \in Nodes /\ Entry \in within /\ Name \in Names \cup {"s"}
    BY EntryIs
<1>2. f \in Frames /\ f.src = Entry /\ f.dst = None /\ f.mode = mode
    BY <1>1 DEF Frame, Frames
<1> HIDE DEF f
<1>3. Placed(f, tree', within')
    BY <1>1, <1>2 DEF Placed, Carried
<1> QED
    BY <1>2, <1>3 DEF f

LEMMA CountStands == Inv /\ Stand /\ Carried /\ Count => Stand'
<1> SUFFICES ASSUME Inv, Stand, Carried, Count PROVE Stand'
    OBVIOUS
<1>1. Handling /\ phase = "count" /\ phase' = phase
    BY DEF Count, Handling
<1>2. CASE Kind(Entry) = "dir" /\ tree[Entry].mode # Sealed
    <2> DEFINE f == Frame(Entry, None, Name, None)
    <2>1. pc # "root"
        BY <1>1 DEF Inv
    <2>2. Push(f) /\ pc' = "entry" /\ pc = "entry"
        BY <1>2, <2>1 DEF Count, Walking
    <2>3. Entry # None
        BY <1>2 DEF Kind
    <2>4. f \in Frames /\ Placed(f, tree', within') /\ f.dst = None
        BY <1>1, <2>3, EnteredFrame
    <2> HIDE DEF f
    <2> QED
        BY <1>1, <2>2, <2>4, PushStands
<1>3. CASE ~(Kind(Entry) = "dir" /\ tree[Entry].mode # Sealed)
    BY <1>1, <1>3, AdvanceStands DEF Count
<1> QED
    BY <1>2, <1>3

LEMMA EnterStands == Inv /\ Stand /\ Carried /\ Enter => Stand'
<1> SUFFICES ASSUME Inv, Stand, Carried, Enter PROVE Stand'
    OBVIOUS
<1> DEFINE f == Frame(Entry, None, Name, None)
<1>1. Handling /\ phase = "remove" /\ phase' = phase /\ pc \in {"root", "entry"}
      /\ Push(f) /\ pc' = "entry" /\ Entry # None
    BY DEF Enter, Handling, Walking, Kind
<1>2. f \in Frames /\ Placed(f, tree', within') /\ f.dst = None
    BY <1>1, EnteredFrame
<1> HIDE DEF f
<1> QED
    BY <1>1, <1>2, PushStands

LEMMA OpenSourceStands == Inv /\ Stand /\ Carried /\ OpenSource => Stand'
<1> SUFFICES ASSUME Inv, Stand, Carried, OpenSource PROVE Stand'
    OBVIOUS
<1> DEFINE f == Frame(Entry, None, Name, tree[Entry].mode)
<1>1. Handling /\ phase' = phase /\ pc = "open_src" /\ Push(f) /\ pc' = "open_dst"
      /\ Entry # None
    BY DEF OpenSource, Handling, Kind
<1>2. phase = "copy"
    BY <1>1 DEF Stand, InStep
<1>3. Entry \in Nodes /\ tree \in [Nodes -> Inodes]
    BY <1>1, EntryIs DEF Stand, TreeSound
<1>4. tree[Entry].mode \in Modes
    BY <1>3, NodeFields
<1>5. f \in Frames /\ Placed(f, tree', within') /\ f.dst = None /\ f.mode \in Modes
    BY <1>1, <1>4, EnteredFrame
<1> HIDE DEF f
<1> QED
    BY <1>1, <1>2, <1>5, PushStands

LEMMA ListStands == Inv /\ Stand /\ Carried /\ List => Stand'
<1> SUFFICES ASSUME Inv, Stand, Carried, List PROVE Stand'
    OBVIOUS
<1> DEFINE todo == Listing(Top.src)
           f == Listed(Top, todo)
<1>1. pc = "entry" /\ pc' = pc /\ phase' = phase /\ WithTop(f)
    BY DEF List, Listed
<1>2. stack # << >> /\ Top \in Frames
    BY <1>1, StandTop DEF Walked
<1>3. todo \in (SUBSET Names) \cup {None}
    BY DEF Listing
<1> HIDE DEF todo
<1>4. f \in Frames /\ f.src = Top.src /\ f.dst = Top.dst /\ f.mode = Top.mode
    BY <1>2, <1>3, ListedAlike DEF Alike
<1> HIDE DEF f
<1> QED
    BY <1>1, <1>2, <1>4, EntryStands

LEMMA CannotListStands == Inv /\ Stand /\ Carried /\ CannotList => Stand'
<1> SUFFICES ASSUME Inv, Stand, Carried, CannotList PROVE Stand'
    OBVIOUS
<1>1. pc = "entry" /\ phase' = phase
    BY DEF CannotList
<1>2. CASE phase = "count" \/ Reports
    <2> DEFINE todo == {}
               emptied == FALSE
               f == Marked(Listed(Top, todo), emptied)
    <2>1. WithTop(f) /\ pc' = pc
        BY <1>2 DEF CannotList, Listed, Marked
    <2>2. stack # << >> /\ Top \in Frames
        BY <1>1, StandTop DEF Walked
    <2>3. f \in Frames /\ f.src = Top.src /\ f.dst = Top.dst /\ f.mode = Top.mode
        BY <2>2, BothAlike DEF Alike
    <2> HIDE DEF f
    <2> QED
        BY <1>1, <2>1, <2>2, <2>3, EntryStands
<1>3. CASE ~(phase = "count" \/ Reports)
    BY <1>3, OverStands DEF CannotList, Carried
<1> QED
    BY <1>2, <1>3

LEMMA CountedStands == Inv /\ Stand /\ Carried /\ Counted => Stand'
<1> SUFFICES ASSUME Inv, Stand, Carried, Counted PROVE Stand'
    OBVIOUS
<1>1. pc = "leave" /\ pc' = "entry" /\ phase = "count"
    BY DEF Counted
<1>2. InStep(stack, hand, pc, phase)
    BY DEF Stand
<1>3. CASE stack # << >>
    <2>1. stack' = stack /\ phase' = phase
        BY <1>3 DEF Counted
    <2>2. Standing(stack', tree', within')
        BY <2>1, CarriedStanding
    <2>3. InStep(stack', hand', pc', phase')
        BY <1>1, <1>2, <1>3, <2>1 DEF InStep
    <2> QED
        BY <1>1, <2>2, <2>3 DEF Stand, Carried
<1>4. CASE stack = << >>
    <2> DEFINE f == Marked(Listed(hand, None), TRUE)
    <2>1. stack' = <<f>> /\ phase' = "copy"
        BY <1>4 DEF Counted, Marked, Listed
    <2>2. hand \in Frames /\ Placed(hand, tree, within) /\ hand.dst # None
        BY <1>1, <1>2, <1>4 DEF Stand, InStep
    <2>3. f \in Frames /\ f.src = hand.src /\ f.dst = hand.dst /\ f.mode = hand.mode
        BY <2>2, BothAlike DEF Alike
    <2>4. Placed(hand, tree', within')
        BY <1>1, <2>2, PlacedStays DEF Carried, Stand, TreeSound
    <2> HIDE DEF f
    <2>5. Placed(f, tree', within')
        BY <2>3, <2>4 DEF Placed
    <2>6. Standing(<<f>>, tree', within') /\ Len(<<f>>) = 1 /\ <<f>>[1] = f /\ <<f>> # << >>
        BY <2>3, <2>5, StandingOne
    <2>7. InStep(<<f>>, hand', pc', phase')
        BY <1>1, <2>1, <2>2, <2>3, <2>6 DEF InStep, Paired
    <2> QED
        BY <1>1, <2>1, <2>6, <2>7 DEF Stand, Carried
<1> QED
    BY <1>3, <1>4

LEMMA MakeDirectoryStands == Inv /\ Stand /\ Carried /\ MakeDirectory => Stand'
<1> SUFFICES ASSUME Inv, Stand, Carried, MakeDirectory PROVE Stand'
    OBVIOUS
<1>1. pc = "entry" /\ pc' = "open_src" /\ phase = "copy" /\ phase' = phase
      /\ stack' = stack /\ Top.todo \notin {None, {}} /\ Top = stack[Len(stack)]
    BY DEF MakeDirectory, Walking, Inv, levels, Top
<1>2. Standing(stack', tree', within')
    BY <1>1, CarriedStanding
<1>3. InStep(stack', hand', pc', phase')
    BY <1>1 DEF Stand, InStep
<1> QED
    BY <1>1, <1>2, <1>3 DEF Stand, Carried

LEMMA OpenDestinationStands == Inv /\ Stand /\ Carried /\ OpenDestination => Stand'
<1> SUFFICES ASSUME Inv, Stand, Carried, OpenDestination PROVE Stand'
    OBVIOUS
<1> DEFINE f == [Top EXCEPT !.dst = Fresh]
           r == [stack EXCEPT ![Len(stack)] = f]
<1>1. pc = "open_dst" /\ pc' = "entry" /\ phase' = phase /\ stack' = r
    BY DEF OpenDestination, WithTop
<1>2. /\ Standing(stack, tree', within') /\ stack # << >> /\ Len(stack) \in Nat
      /\ Len(stack) >= 1 /\ Top \in Frames /\ Top = stack[Len(stack)]
      /\ Placed(Top, tree', within')
    BY <1>1, StandTop, CarriedStanding, StandingFrames DEF Walked
<1>3. /\ Fresh \in within' /\ Fresh \in Nodes
      /\ tree'[Fresh].linked /\ tree'[Fresh].kind = "dir" /\ tree'[Fresh].side = "destination"
    BY OpenDestinationTree DEF Carried, TreeSound
<1>4. InStep(stack, hand, pc, phase)
    BY DEF Stand
<1>5. Top.mode \in Modes
    BY <1>1, <1>2, <1>4 DEF InStep
<1>6. f \in Frames /\ f.src = Top.src /\ f.dst = Fresh /\ f.mode = Top.mode
    BY <1>2, <1>3 DEF Frames
<1> HIDE DEF f
<1>7. Placed(f, tree', within')
    BY <1>2, <1>3, <1>5, <1>6 DEF Placed
<1>8. /\ Standing(r, tree', within') /\ Len(r) = Len(stack) /\ r # << >>
      /\ r[Len(stack)] = f /\ \A i \in 1..(Len(stack) - 1) : r[i] = stack[i]
    BY <1>2, <1>6, <1>7, StandingTop
<1> HIDE DEF r
<1>9. phase = "copy" /\ Paired(stack, Len(stack) - 1)
    BY <1>1, <1>4 DEF InStep
<1>10. ASSUME NEW i \in 1..Len(r) PROVE r[i].dst # None
    <2>1. CASE i = Len(stack)
        BY <1>3, <1>6, <1>8, <2>1, NoneAssumption
    <2>2. CASE i # Len(stack)
        <3>1. i \in 1..(Len(stack) - 1)
            BY <1>2, <1>8, <2>2
        <3> QED
            BY <1>8, <1>9, <3>1 DEF Paired
    <2> QED
        BY <2>1, <2>2
<1>11. InStep(r, hand', pc', phase')
    BY <1>1, <1>9, <1>10 DEF InStep, Paired
<1> QED
    BY <1>1, <1>8, <1>11 DEF Stand, Carried

LEMMA CannotOpenDestinationStands == Inv /\ Stand /\ Carried /\ CannotOpenDestination => Stand'
<1> SUFFICES ASSUME Inv, Stand, Carried, CannotOpenDestination PROVE Stand'
    OBVIOUS
<1> DEFINE r == SubSeq(stack, 1, Len(stack) - 1)
<1>1. pc = "open_dst" /\ pc' = "entry" /\ phase' = phase /\ stack' = r
    BY DEF CannotOpenDestination, Truncate, Front
<1>2. /\ Standing(stack, tree', within') /\ stack # << >> /\ Len(stack) \in Nat
    BY <1>1, StandTop, CarriedStanding DEF Walked
<1>3. /\ Standing(r, tree', within') /\ Len(r) = Len(stack) - 1
      /\ \A i \in 1..(Len(stack) - 1) : r[i] = stack[i]
    BY <1>2, StandingFront
<1> HIDE DEF r
<1>4. phase = "copy" /\ Paired(stack, Len(stack) - 1)
    BY <1>1 DEF Stand, InStep
<1>5. Paired(r, Len(r))
    BY <1>3, <1>4 DEF Paired
<1>6. InStep(r, hand', pc', phase')
    BY <1>1, <1>4, <1>5 DEF InStep
<1> QED
    BY <1>1, <1>3, <1>6 DEF Stand, Carried

(* A level is left, and the walk goes on in the one below it. *)
LEMMA LeftStands ==
    ASSUME Inv, Stand, Carried, pc = "leave", phase \in {"copy", "remove"}, stack' = stack,
           pc' = "entry", phase' = phase
    PROVE  Stand'
<1>1. Standing(stack', tree', within')
    BY CarriedStanding
<1>2. InStep(stack', hand', pc', phase')
    BY DEF Stand, InStep
<1> QED
    BY <1>1, <1>2 DEF Stand, Carried

LEMMA SealDirectoryStands == Inv /\ Stand /\ Carried /\ SealDirectory => Stand'
<1> SUFFICES ASSUME Inv, Stand, Carried, SealDirectory PROVE Stand'
    OBVIOUS
<1>1. CASE stack = << >>
    <2>1. CASE job.cmd = "move" /\ Complete
        <3>1. pc' = "root" /\ stack' = << >>
            BY <1>1, <2>1 DEF SealDirectory, AfterCopy
        <3> QED
            BY <3>1, BareStands
    <2>2. CASE ~(job.cmd = "move" /\ Complete)
        <3>1. TreeSound(tree', within')
            BY DEF Carried
        <3> QED
            BY <1>1, <2>2, <3>1, OverStands DEF SealDirectory, AfterCopy
    <2> QED
        BY <2>1, <2>2
<1>2. CASE stack # << >>
    BY <1>2, LeftStands DEF SealDirectory
<1> QED
    BY <1>1, <1>2

LEMMA RemoveDirectoryStands == Inv /\ Stand /\ Carried /\ RemoveDirectory => Stand'
<1> SUFFICES ASSUME Inv, Stand, Carried, RemoveDirectory PROVE Stand'
    OBVIOUS
<1>1. CASE stack = << >>
    BY <1>1, OverStands DEF RemoveDirectory, Carried
<1>2. CASE stack # << >>
    BY <1>2, LeftStands DEF RemoveDirectory
<1> QED
    BY <1>1, <1>2

LEMMA KeepDirectoryStands == Inv /\ Stand /\ Carried /\ KeepDirectory => Stand'
<1> SUFFICES ASSUME Inv, Stand, Carried, KeepDirectory PROVE Stand'
    OBVIOUS
<1>1. CASE (hand.emptied /\ ~Reports) \/ stack = << >>
    BY <1>1, OverStands DEF KeepDirectory, Carried
<1>2. CASE ~(hand.emptied /\ ~Reports) /\ stack # << >>
    <2> DEFINE f == Marked(Top, FALSE)
    <2>1. WithTop(f) /\ pc = "leave" /\ pc' = "entry" /\ phase' = phase
        BY <1>2 DEF KeepDirectory, Marked
    <2>2. Top \in Frames
        BY <1>2, StandingFrames DEF Stand, Top
    <2>3. f \in Frames /\ f.src = Top.src /\ f.dst = Top.dst /\ f.mode = Top.mode
        BY <2>2, MarkedAlike DEF Alike
    <2> HIDE DEF f
    <2> QED
        BY <1>2, <2>1, <2>3, EntryStands
<1> QED
    BY <1>1, <1>2

LEMMA NextStand == Inv /\ Stand /\ [Next]_vars => Stand'
<1> SUFFICES ASSUME Inv, Stand, [Next]_vars PROVE Stand'
    OBVIOUS
<1>1. CASE UNCHANGED vars
    <2>1. UNCHANGED <<tree, within, stack, phase, pc, hand>>
        BY <1>1 DEF vars, levels
    <2> QED
        BY <2>1 DEF Stand
<1>2. CASE Rename
    BY <1>2, RenameTree, OverStands DEF Rename
<1>3. CASE Next /\ ~Rename
    <2>0. Carried /\ TreeSound(tree', within')
        BY <1>3, CarriedNext DEF Carried
    <2>1. CASE Refuse \/ CannotRename \/ Gone \/ CannotCopyOne \/ UnlinkSource
               \/ CannotBegin \/ LoseFooting
        BY <2>0, <2>1, OverStands
           DEF Refuse, CannotRename, Gone, CannotCopyOne, UnlinkSource, CannotBegin,
               LoseFooting
    <2>2. CASE Begin \/ CrossDevices
        <3>1. stack' = << >> /\ pc' \in {"idle", "rename", "begin", "one", "settle", "root"}
            BY <2>2 DEF Begin, CrossDevices, levels, Inv
        <3> QED
            BY <2>0, <3>1, BareStands
    <2>3. CASE CopyOne
        <3>1. CASE job.cmd = "copy"
            BY <2>0, <2>3, <3>1, OverStands DEF CopyOne
        <3>2. CASE job.cmd # "copy"
            <4>1. stack' = << >> /\ pc' = "settle"
                BY <2>3, <3>2 DEF CopyOne, Inv
            <4> QED
                BY <2>0, <4>1, BareStands
        <3> QED
            BY <3>1, <3>2
    <2>4. CASE CopyEntry \/ SkipEntry \/ Vanished \/ Unlink
        <3>1. Handling /\ phase' = phase
            BY <2>4 DEF CopyEntry, SkipEntry, Vanished, Unlink, Handling
        <3>2. Advance(TRUE)
            BY <2>4 DEF CopyEntry, SkipEntry, Vanished, Unlink
        <3> QED
            BY <2>0, <3>1, <3>2, AdvanceStands
    <2>5. CASE CannotCopy \/ CannotOpenSource \/ StepOver
        <3>1. Handling /\ phase' = phase
            BY <2>5 DEF CannotCopy, CannotOpenSource, StepOver, Handling
        <3>2. Report(Entry)
            BY <2>5 DEF CannotCopy, CannotOpenSource, StepOver
        <3> QED
            BY <2>0, <3>1, <3>2, ReportStands
    <2>6. CASE Change
        <3>1. UNCHANGED <<stack, phase, pc, hand>>
            BY <2>6 DEF Change, levels
        <3> QED
            BY <2>0, <3>1, SameStands
    <2>7. CASE BeginTree \/ List \/ CannotList \/ Leave \/ Count \/ Counted
        BY <2>0, <2>7, BeginTreeStands, ListStands, CannotListStands, LeaveStands,
           CountStands, CountedStands
    <2>8. CASE MakeDirectory \/ OpenSource \/ OpenDestination \/ CannotOpenDestination
        BY <2>0, <2>8, MakeDirectoryStands, OpenSourceStands, OpenDestinationStands,
           CannotOpenDestinationStands
    <2>9. CASE SealDirectory \/ Enter \/ RemoveDirectory \/ KeepDirectory
        BY <2>0, <2>9, SealDirectoryStands, EnterStands, RemoveDirectoryStands,
           KeepDirectoryStands
    <2> QED
        BY <1>3, <2>1, <2>2, <2>3, <2>4, <2>5, <2>6, <2>7, <2>8, <2>9 DEF Next, Work
<1> QED
    BY <1>1, <1>2, <1>3

LEMMA InitStand == Init => Stand
<1> SUFFICES ASSUME Init PROVE Stand
    OBVIOUS
<1>1. tree \in Trees /\ stack = << >> /\ pc = "idle" /\ phase = "count"
      /\ within = Below(tree, Roots(tree))
    BY DEF Init
<1>2. tree \in [Nodes -> Inodes] /\ IsTree(tree) /\ Sided(tree)
    BY <1>1, TreesAssumption
<1> DEFINE B == Below(tree, Roots(tree))
<1>3. /\ B \subseteq {n \in Nodes : tree[n].linked}
      /\ \A n \in Nodes : tree[n].linked /\ n \in Roots(tree) => n \in B
      /\ \A n \in Nodes : /\ tree[n].linked /\ tree[n].parent # None
                          /\ tree[tree[n].parent].linked /\ tree[n].parent \in B
                          => n \in B
    BY <1>2, BelowIs
<1>4. \A n \in B : n \in Roots(tree) \/ tree[n].parent # None
    BY <1>2, BelowIs
<1>5. Base \notin B
    <2>1. tree[Base].parent = None
        BY <1>2 DEF IsTree
    <2>2. Base \notin Roots(tree)
        BY <2>1, TreesAssumption, NoneAssumption DEF Roots
    <2> QED
        BY <2>1, <2>2, <1>4
<1> HIDE DEF B
<1>6. ASSUME NEW n \in Nodes, tree[n].linked, n \in Roots(tree) \/ tree[n].parent \in B
      PROVE  n \in B
    <2>1. CASE n \in Roots(tree)
        BY <1>3, <1>6, <2>1
    <2>2. CASE tree[n].parent \in B
        <3>1. tree[n].parent \in Nodes /\ tree[tree[n].parent].linked
              /\ tree[n].parent # None
            BY <1>3, <2>2, NoneAssumption
        <3> QED
            BY <1>3, <1>6, <2>2, <3>1
    <2> QED
        BY <1>6, <2>1, <2>2
<1>7. TreeSound(tree, B)
    <2>1. Within(tree, B)
        BY <1>6 DEF Within
    <2> QED
        BY <1>2, <1>3, <1>5, <2>1 DEF TreeSound
<1>8. TreeSound(tree, within)
    BY <1>1, <1>7 DEF B
<1>9. Standing(stack, tree, within) /\ Single(stack)
    BY <1>1, StandingNone
<1>10. InStep(stack, hand, pc, phase)
    BY <1>1 DEF InStep
<1> QED
    BY <1>1, <1>2, <1>8, <1>9, <1>10 DEF Stand

(* What is told, and how a command ends.                                   *)
LEMMA OverCounts ==
    ASSUME NEW how \in {"ok", "partial", "error", "stale"}, Over(how)
    PROVE  /\ pc' \in PCs /\ end' \in {None, "ok", "partial", "error", "stale"}
           /\ (pc' = "over") <=> (end' # None)
BY NoneAssumption DEF Over, PCs

LEMMA AdvanceCounts ==
    ASSUME Counts, pc # "over", NEW gone, Advance(gone)
    PROVE  /\ pc' \in PCs /\ end' \in {None, "ok", "partial", "error", "stale"}
           /\ (pc' = "over") <=> (end' # None)
<1>1. end = None
    BY DEF Counts
<1>2. CASE pc = "root"
    BY <1>2, OverCounts DEF Advance
<1>3. CASE pc # "root"
    BY <1>1, <1>3 DEF Advance, PCs
<1> QED
    BY <1>2, <1>3

LEMMA ReportCounts ==
    ASSUME Inv, Stand, Counts, Handling, Report(Entry)
    PROVE  /\ pc' \in PCs /\ end' \in {None, "ok", "partial", "error", "stale"}
           /\ (pc' = "over") <=> (end' # None)
           /\ reported' \subseteq Nodes \cup {None}
<1>1. pc # "over" /\ Entry \in Nodes \cup {None}
    BY EntryIs DEF Handling, Walking
<1>2. reported \subseteq Nodes \cup {None}
    BY DEF Counts
<1>3. CASE Reports
    <2>1. Advance(FALSE) /\ reported' = reported \cup {Entry}
        BY <1>3 DEF Report
    <2> QED
        BY <1>1, <1>2, <2>1, AdvanceCounts
<1>4. CASE ~Reports
    BY <1>2, <1>4, OverCounts DEF Report
<1> QED
    BY <1>3, <1>4

LEMMA FaultCounts ==
    ASSUME Counts, faults' = faults \/ \E f : Fault(f)
    PROVE  faults' \in 0..MaxFaults
<1>1. faults \in 0..MaxFaults /\ MaxFaults \in Nat
    BY JobsAssumption DEF Counts
<1>2. \A f : Fault(f) => faults < MaxFaults /\ faults' = faults + 1
    BY DEF Fault
<1> QED
    BY <1>1, <1>2

(* What most actions leave alone. *)
Fixture ==
    /\ was' = was /\ job' = job /\ phase' \in {"count", "copy", "remove"}
    /\ hand' \in Frames \cup {None}
    /\ faults' = faults \/ \E f : Fault(f)
    /\ changes' = changes

LEMMA FixtureCounts ==
    ASSUME Counts, Fixture, skipped' \in Nat, reported' \subseteq Nodes \cup {None},
           pc' \in PCs, end' \in {None, "ok", "partial", "error", "stale"},
           (pc' = "over") <=> (end' # None)
    PROVE  Counts'
<1>1. faults' \in 0..MaxFaults
    BY FaultCounts DEF Fixture
<1> QED
    BY <1>1 DEF Counts, Fixture, PCs

Outcome ==
    /\ skipped' \in Nat /\ reported' \subseteq Nodes \cup {None}
    /\ pc' \in PCs /\ end' \in {None, "ok", "partial", "error", "stale"}
    /\ (pc' = "over") <=> (end' # None)

LEMMA NextCounts == Inv /\ Stand /\ Counts /\ [Next]_vars => Counts'
<1> SUFFICES ASSUME Inv, Stand, Counts, [Next]_vars PROVE Counts'
    OBVIOUS
<1>0. /\ skipped \in Nat /\ reported \subseteq Nodes \cup {None}
      /\ hand \in Frames \cup {None} /\ phase \in {"count", "copy", "remove"}
      /\ pc # "over" => end = None
    BY DEF Counts
<1>1. CASE UNCHANGED vars
    <2>1. UNCHANGED <<was, job, phase, pc, hand, reported, skipped, end, faults, changes>>
        BY <1>1 DEF vars, levels, told, bounds
    <2> QED
        BY <2>1 DEF Counts, PCs
<1>2. CASE Change
    <2>1. /\ UNCHANGED <<was, job, phase, pc, hand, reported, skipped, end, faults>>
          /\ changes < MaxChanges /\ changes' = changes + 1
        BY <1>2 DEF Change, levels, told
    <2>2. changes' \in 0..MaxChanges
        BY <2>1, JobsAssumption DEF Counts
    <2> QED
        BY <2>1, <2>2 DEF Counts, PCs
<1>3. CASE Work
    <2>1. ASSUME Refuse \/ Rename \/ CannotRename \/ Gone \/ CannotCopyOne
                 \/ UnlinkSource \/ CannotBegin
          PROVE  Fixture /\ Outcome
        <3>1. Fixture /\ skipped' = skipped /\ reported' = reported
            BY <1>0, <2>1
               DEF Refuse, Rename, CannotRename, Gone, CannotCopyOne, UnlinkSource,
                   CannotBegin, Fixture, told, bounds
        <3>2. PICK how \in {"ok", "partial", "error", "stale"} : Over(how)
            BY <2>1 DEF Refuse, Rename, CannotRename, Gone, CannotCopyOne, UnlinkSource,
                        CannotBegin
        <3> QED
            BY <1>0, <3>1, <3>2, OverCounts DEF Outcome
    <2>2. ASSUME Begin \/ CrossDevices \/ BeginTree \/ List \/ Leave \/ MakeDirectory
                 \/ OpenSource \/ OpenDestination \/ Enter \/ Counted
          PROVE  Fixture /\ Outcome
        <3>1. /\ pc # "over" /\ UNCHANGED <<reported, skipped, end, faults, changes>>
              /\ was' = was /\ job' = job /\ phase' \in {"count", "copy", "remove"}
            BY <1>0, <2>2
               DEF Begin, CrossDevices, BeginTree, List, Leave, MakeDirectory,
                   OpenSource, OpenDestination, Enter, Counted, told, bounds, Walking
        <3>2. pc' \in PCs \ {"over"}
            BY <2>2
               DEF Begin, CrossDevices, BeginTree, List, Leave, MakeDirectory,
                   OpenSource, OpenDestination, Enter, Counted, PCs
        <3>3. hand' \in Frames \cup {None}
            <4>1. CASE Leave
                <5>1. pc = "entry" /\ hand' = Top
                    BY <4>1 DEF Leave, Pop
                <5>2. Top \in Frames
                    BY <5>1, StandTop DEF Walked
                <5> QED
                    BY <5>1, <5>2
            <4>2. CASE Counted
                BY <4>2 DEF Counted
            <4>3. CASE ~Leave /\ ~Counted
                BY <1>0, <2>2, <4>3
                   DEF Begin, CrossDevices, BeginTree, List, MakeDirectory,
                       OpenSource, OpenDestination, Enter, levels
            <4> QED
                BY <4>1, <4>2, <4>3
        <3>4. Fixture
            BY <3>1, <3>3 DEF Fixture
        <3>5. Outcome
            BY <1>0, <3>1, <3>2 DEF Outcome
        <3> QED
            BY <3>4, <3>5
    <2>3. ASSUME CopyOne PROVE Fixture /\ Outcome
        <3>1. pc # "over" /\ Fixture /\ skipped' = skipped /\ reported' = reported
            BY <1>0, <2>3 DEF CopyOne, Fixture, told, bounds
        <3>2. CASE job.cmd = "copy"
            BY <1>0, <2>3, <3>1, <3>2, OverCounts DEF CopyOne, Outcome
        <3>3. CASE job.cmd # "copy"
            BY <1>0, <2>3, <3>1, <3>3 DEF CopyOne, Outcome, PCs
        <3> QED
            BY <3>1, <3>2, <3>3
    <2>4. ASSUME CannotList PROVE Fixture /\ Outcome
        <3>1. pc = "entry" /\ Fixture /\ skipped' = skipped
            BY <1>0, <2>4 DEF CannotList, Fixture
        <3>2. Top.src \in Nodes
            BY <3>1, StandTop DEF Walked
        <3>3. CASE phase = "count" \/ Reports
            <4>1. reported' = IF Reports THEN reported \cup {Top.src} ELSE reported
                BY <2>4, <3>3 DEF CannotList
            <4>2. reported' \subseteq Nodes \cup {None}
                BY <1>0, <3>2, <4>1
            <4>3. pc' = pc /\ end' = end
                BY <2>4, <3>3 DEF CannotList
            <4> QED
                BY <1>0, <3>1, <4>2, <4>3 DEF Outcome, PCs
        <3>4. CASE ~(phase = "count" \/ Reports)
            BY <1>0, <2>4, <3>1, <3>4, OverCounts DEF CannotList, Outcome
        <3> QED
            BY <3>1, <3>3, <3>4
    <2>5. ASSUME LoseFooting PROVE Fixture /\ Outcome
        <3>1. pc = "entry" /\ skipped' = skipped
            BY <2>5 DEF LoseFooting
        <3>2. Top.src \in Nodes /\ Top \in Frames
            BY <3>1, StandTop DEF Walked
        <3>3. /\ was' = was /\ job' = job /\ phase' = phase /\ changes' = changes
              /\ faults' = faults \/ \E f : Fault(f)
            BY <2>5 DEF LoseFooting
        <3>4. /\ hand' \in Frames \cup {None}
              /\ reported' = reported \/ reported' = reported \cup {Top.src}
              /\ \E how \in {"ok", "partial", "error", "stale"} : Over(how)
            BY <2>5, <3>2 DEF LoseFooting
        <3>5. reported' \subseteq Nodes \cup {None}
            BY <1>0, <3>2, <3>4
        <3>6. Fixture
            BY <1>0, <3>3, <3>4 DEF Fixture
        <3>7. Outcome
            BY <1>0, <3>1, <3>4, <3>5, OverCounts DEF Outcome
        <3> QED
            BY <3>6, <3>7
    <2>6. ASSUME Count PROVE Fixture /\ Outcome
        <3>1. pc # "over" /\ Fixture /\ skipped' = skipped /\ reported' = reported
            BY <1>0, <2>6 DEF Count, Walking, Fixture, told, bounds
        <3>2. CASE Kind(Entry) = "dir" /\ tree[Entry].mode # Sealed
            <4>1. pc' = pc /\ end' = end /\ pc \in PCs
                BY <2>6, <3>2 DEF Count, Counts
            <4> QED
                BY <1>0, <3>1, <4>1 DEF Outcome
        <3>3. CASE ~(Kind(Entry) = "dir" /\ tree[Entry].mode # Sealed)
            BY <1>0, <2>6, <3>1, <3>3, AdvanceCounts DEF Count, Outcome
        <3> QED
            BY <3>1, <3>2, <3>3
    <2>7. ASSUME CopyEntry \/ SkipEntry \/ Vanished \/ Unlink PROVE Fixture /\ Outcome
        <3>1. pc # "over" /\ Advance(TRUE)
            BY <2>7 DEF CopyEntry, SkipEntry, Vanished, Unlink, Walking
        <3>2. skipped' \in Nat /\ reported' = reported
            <4>1. CASE SkipEntry
                BY <1>0, <4>1 DEF SkipEntry
            <4>2. CASE ~SkipEntry
                <5>1. told' = told
                    BY <2>7, <4>2 DEF CopyEntry, Vanished, Unlink
                <5> QED
                    BY <1>0, <5>1 DEF told
            <4> QED
                BY <4>1, <4>2
        <3>3. UNCHANGED <<was, job, phase, hand, bounds>>
            BY <2>7 DEF CopyEntry, SkipEntry, Vanished, Unlink
        <3>4. Fixture
            BY <1>0, <3>3 DEF Fixture, bounds
        <3> QED
            BY <1>0, <3>1, <3>2, <3>4, AdvanceCounts DEF Outcome
    <2>8. ASSUME CannotCopy \/ CannotOpenSource \/ StepOver PROVE Fixture /\ Outcome
        <3>1. Fixture /\ skipped' = skipped /\ Handling /\ Report(Entry)
            BY <1>0, <2>8 DEF CannotCopy, CannotOpenSource, StepOver, Fixture, Handling
        <3> QED
            BY <1>0, <3>1, ReportCounts DEF Outcome
    <2>9. ASSUME CannotOpenDestination PROVE Fixture /\ Outcome
        <3>1. pc = "open_dst" /\ Fixture /\ skipped' = skipped /\ end' = end
              /\ reported' = reported \cup {Top.src} /\ pc' = "entry"
            BY <1>0, <2>9 DEF CannotOpenDestination, Fixture
        <3>2. Top.src \in Nodes
            BY <3>1, StandTop DEF Walked
        <3> QED
            BY <1>0, <3>1, <3>2 DEF Outcome, PCs
    <2>10. ASSUME SealDirectory PROVE Fixture /\ Outcome
        <3>1. pc = "leave" /\ skipped' = skipped /\ reported' = reported
            BY <2>10 DEF SealDirectory, told
        <3>2. CASE stack = << >>
            <4>1. CASE job.cmd = "move" /\ Complete
                BY <1>0, <2>10, <3>1, <3>2, <4>1
                   DEF SealDirectory, AfterCopy, Fixture, Outcome, bounds, PCs
            <4>2. CASE ~(job.cmd = "move" /\ Complete)
                <5>1. Fixture
                    BY <1>0, <2>10, <3>2, <4>2
                       DEF SealDirectory, AfterCopy, Fixture, bounds
                <5>2. \E how \in {"ok", "partial", "error", "stale"} : Over(how)
                    BY <2>10, <3>2, <4>2 DEF SealDirectory, AfterCopy
                <5> QED
                    BY <1>0, <3>1, <5>1, <5>2, OverCounts DEF Outcome
            <4> QED
                BY <4>1, <4>2
        <3>3. CASE stack # << >>
            BY <1>0, <2>10, <3>1, <3>3 DEF SealDirectory, Fixture, Outcome, bounds, PCs
        <3> QED
            BY <3>2, <3>3
    <2>11. ASSUME RemoveDirectory PROVE Fixture /\ Outcome
        <3>1. /\ pc = "leave" /\ skipped' = skipped /\ reported' = reported
              /\ Fixture
            BY <1>0, <2>11 DEF RemoveDirectory, told, bounds, Fixture
        <3>2. CASE stack = << >>
            BY <1>0, <2>11, <3>1, <3>2, OverCounts DEF RemoveDirectory, Outcome
        <3>3. CASE stack # << >>
            BY <1>0, <2>11, <3>1, <3>3 DEF RemoveDirectory, Outcome, PCs
        <3> QED
            BY <3>1, <3>2, <3>3
    <2>12. ASSUME KeepDirectory PROVE Fixture /\ Outcome
        <3>1. /\ pc = "leave" /\ skipped' = skipped /\ Fixture
              /\ reported' = reported \/ reported' = reported \cup {hand.src}
            BY <1>0, <2>12 DEF KeepDirectory, Fixture
        <3>2. hand.src \in Nodes
            BY <3>1 DEF Stand, Placed, TreeSound
        <3>3. reported' \subseteq Nodes \cup {None}
            BY <1>0, <3>1, <3>2
        <3>4. CASE (hand.emptied /\ ~Reports) \/ stack = << >>
            <4>1. \E how \in {"ok", "partial", "error", "stale"} : Over(how)
                BY <2>12, <3>4 DEF KeepDirectory
            <4> QED
                BY <1>0, <3>1, <3>3, <4>1, OverCounts DEF Outcome
        <3>5. CASE ~(hand.emptied /\ ~Reports) /\ stack # << >>
            BY <1>0, <2>12, <3>1, <3>3, <3>5 DEF KeepDirectory, Outcome, PCs
        <3> QED
            BY <3>1, <3>4, <3>5
    <2>13. Fixture /\ Outcome
        BY <1>3, <2>1, <2>2, <2>3, <2>4, <2>5, <2>6, <2>7, <2>8, <2>9, <2>10, <2>11, <2>12
           DEF Work
    <2> QED
        BY <2>13, FixtureCounts DEF Outcome
<1> QED
    BY <1>1, <1>2, <1>3 DEF Next

LEMMA InitCounts == Init => Counts
<1> SUFFICES ASSUME Init PROVE Counts
    OBVIOUS
<1>1. 0 \in 0..MaxFaults /\ 0 \in 0..MaxChanges
    BY JobsAssumption
<1> QED
    BY <1>1 DEF Init, Counts, PCs

LEMMA StandFooting == Inv /\ Stand /\ Counts => Footing
<1> SUFFICES ASSUME Inv, Stand, Counts PROVE Footing
    OBVIOUS
<1>1. /\ Standing(stack, tree, within) /\ within \in SUBSET Nodes
      /\ Len(stack) \in Nat
      /\ \A i \in 1..Len(stack) : Placed(stack[i], tree, within)
      /\ stack # << >> => Len(stack) >= 1
    BY StandingFrames DEF Stand, TreeSound
<1>2. TypeOK
    <2>1. low = 2 \/ low \in 3..Len(stack)
        <3>1. Well(stack, low)
            BY DEF Inv
        <3> QED
            BY <1>1, <3>1 DEF Well
    <2>2. stack \in Seq(Frames)
        BY <1>1 DEF Standing
    <2>3. pc \in {"entry", "open_src", "open_dst"} => stack # << >>
        BY DEF Inv, Walked
    <2> QED
        BY <1>1, <2>1, <2>2, <2>3 DEF TypeOK, Stand, TreeSound, Counts
<1>3. AtHand
    <2>1. stack # << >> => ~Top.parked /\ Top.src # None
        <3>1. stack # << >> => ~Top.parked
            BY TopIsOpen DEF Inv, Top
        <3>2. stack # << >> => Placed(Top, tree, within)
            BY <1>1 DEF Top
        <3> QED
            BY <1>1, <3>1, <3>2, NoneAssumption DEF Placed
    <2>2. pc = "entry" /\ phase = "copy" => Top.dst # None
        BY <1>1 DEF Stand, InStep, Paired, Top, Inv, Walked
    <2>3. ASSUME pc = "open_dst"
          PROVE  LET below == stack[Len(stack) - 1]
                 IN ~below.parked /\ below.src # None /\ below.dst # None
        <3>1. Len(stack) >= 2 /\ (low = 2 \/ low < Len(stack)) /\ Well(stack, low)
            BY <2>3 DEF Inv
        <3>2. Len(stack) - 1 \in 1..Len(stack) /\ Len(stack) - 1 \in 1..(Len(stack) - 1)
            BY <1>1, <3>1
        <3>3. ~stack[Len(stack) - 1].parked
            BY <1>1, <3>1, <3>2 DEF Well
        <3>4. stack[Len(stack) - 1].dst # None
            BY <2>3, <3>2 DEF Stand, InStep, Paired
        <3>5. stack[Len(stack) - 1].src # None
            BY <1>1, <3>2, NoneAssumption DEF Placed
        <3> QED
            BY <3>3, <3>4, <3>5
    <2> QED
        BY <2>1, <2>2, <2>3 DEF AtHand
<1>4. WalksWithin
    BY <1>1 DEF WalksWithin, Placed
<1> QED
    BY <1>2, <1>3, <1>4 DEF Footing

(* copy_tree_at() and rmtree_at() always know where they stand: whatever   *)
(* others move, remove and make in the source, the level a walk works in   *)
(* is open, the directory a copy goes to is there, and each directory of   *)
(* its levels is, or has been, within the trees the command was given.     *)
THEOREM FootingTheorem == Spec => []Footing
<1>1. Init => Inv /\ Stand /\ Counts
    BY InitInv, InitStand, InitCounts
<1>2. Inv /\ Stand /\ Counts /\ [Next]_vars => Inv' /\ Stand' /\ Counts'
    BY NextInv, NextStand, NextCounts
<1>3. Inv /\ Stand /\ Counts => Footing
    BY StandFooting
<1> QED
    BY <1>1, <1>2, <1>3, PTL DEF Spec

-----------------------------------------------------------------------------
(***************************************************************************)
(* What becomes of a source that nobody else is at work in.                *)
(***************************************************************************)
SourceOf(w) == Below(w, {n \in Roots(w) : w[n].name = "s"})

(* What is linked in the source has been there, under the same name ...    *)
OldOnes(t, w) ==
    /\ \A n \in Nodes : t[n].linked /\ t[n].side = "source" =>
           /\ w[n].linked /\ w[n].side = "source" /\ t[n].kind = w[n].kind
           /\ t[n].parent = w[n].parent /\ t[n].name = w[n].name
    /\ \A n \in Nodes : w[n].linked /\ w[n].side = "source" => t[n].side = "source"

(* ... and all that has been there still is, until a removal.              *)
Intact(t, w) ==
    \A n \in Nodes : w[n].linked /\ w[n].side = "source" => t[n] = w[n]

(* Each level is the directory of its name in the one before it.           *)
Linked(f, dir, w) ==
    /\ f.src \in SourceOf(w) /\ w[f.src].kind = "dir"
    /\ w[f.src].parent = dir /\ w[f.src].name = f.name

DirOf(s, i) == IF i = 1 THEN Base ELSE s[i - 1].src

Chained(s, w) == \A i \in 1..Len(s) : Linked(s[i], DirOf(s, i), w)

(* The copies that are in their places, and what they are copies of.       *)
Copied(t) == {n \in Nodes : \E c \in Nodes : t[c].linked /\ t[c].copyOf = n}

Place(t, w, dir, name, n) ==
    IF w[n].parent = Base THEN dir = Base /\ name = "t"
    ELSE name = w[n].name /\ dir # None /\ t[dir].copyOf = w[n].parent

CopyOf(t, w, c, n) ==
    /\ n \in SourceOf(w) /\ t[c].side = "destination" /\ t[c].kind = w[n].kind
    /\ Place(t, w, t[c].parent, t[c].name, n)
    /\ w[n].kind # "dir" => t[c].mode = w[n].mode

Tidy(t, w) == \A c \in Nodes :
    t[c].linked /\ t[c].copyOf # None => CopyOf(t, w, c, t[c].copyOf)

(* The directory of the copy that a level has is the copy of its own.      *)
Twin(f, t, w) ==
    f.dst # None => t[f.dst].copyOf = f.src /\ f.mode = w[f.src].mode

(* A level is still to come to an entry: it knows it, or is not listed yet.*)
Due(s, w, n) == \E i \in 1..Len(s) :
    s[i].src = w[n].parent /\ s[i].todo # None /\ w[n].name \in s[i].todo

Awaited(s, w, n) == Due(s, w, n) \/ \E i \in 1..Len(s) :
    s[i].src = w[n].parent /\ s[i].todo = None

Entered(s, n) == \E i \in 1..Len(s) : s[i].src = n

Opening(s, n) == \E i \in 1..Len(s) : s[i].src = n /\ s[i].dst = None

Settled(t, w, told_, skips, n) ==
    n \in Copied(t) \/ n \in told_ \/ (w[n].kind = "special" /\ skips > 0)

(* Of a directory that the copy has come to, each entry is settled or      *)
(* still to come, or the directory has not been opened yet.                *)
Covered(t, w, s, told_, skips) == \A n \in SourceOf(w) :
    LET p == w[n].parent IN
    (p \in Copied(t) \/ Entered(s, p)) /\ p \notin told_ =>
        \/ Settled(t, w, told_, skips, n)
        \/ Awaited(s, w, n) \/ Opening(s, n) \/ Due(s, w, p)

(* A directory has its mode when the walk has left it.                     *)
Shut(t, w, n) == \E c \in Nodes :
    t[c].linked /\ t[c].copyOf = n /\ t[c].mode = w[n].mode

AllShut(t, w, s, told_, left) == \A n \in Copied(t) :
    w[n].kind = "dir" =>
        Shut(t, w, n) \/ n \in told_ \/ n = left \/ Entered(s, n) \/ Due(s, w, n)

Calm == Still /\ pc # "over"

Origin == Calm => /\ OldOnes(tree, was)
                  /\ phase # "remove" => Intact(tree, was)

Before == {"idle", "rename", "begin", "one"}

Route == Calm => /\ Chained(stack, was)
                 /\ pc = "leave" => Linked(hand, DirOf(stack, Len(stack) + 1), was)
                 /\ pc = "idle" => phase = "count"
                 /\ pc \in {"rename", "begin", "one", "settle"} => phase = "copy"

LeftDir == IF pc = "leave" THEN hand.src ELSE None

CopyInv ==
    /\ Tidy(tree, was)
    /\ pc \in Before => Copied(tree) = {} /\ reported = {}
    /\ \A i \in 1..Len(stack) : Twin(stack[i], tree, was)
    /\ pc = "leave" => Twin(hand, tree, was) /\ hand.todo = {}
    /\ phase = "count" => /\ reported = {}
                          /\ \A n \in Copied(tree) : was[n].parent = Base
    /\ pc \notin Before => \A n \in SourceOf(was) : was[n].parent = Base => n \in Copied(tree)
    /\ pc = "open_dst" => stack[Len(stack)].mode = was[stack[Len(stack)].src].mode
                          /\ stack[Len(stack)].todo = None
    /\ phase = "copy" /\ pc \notin Before =>
           /\ Covered(tree, was, stack, reported, skipped)
           /\ AllShut(tree, was, stack, reported, LeftDir)
    /\ phase = "remove" => SourceOf(was) \subseteq Copied(tree)

Copying == Calm /\ job.cmd # "remove" => CopyInv

Walks == Calm => /\ job.cmd = "copy" => phase # "remove"
                 /\ pc # "idle" /\ job.cmd = "remove" => phase = "remove"

Attended(s, t, left) == \A i \in 1..Len(s) : s[i].emptied /\ \A n \in Nodes :
    t[n].linked /\ t[n].parent = s[i].src =>
        \/ s[i].todo = None \/ t[n].name \in s[i].todo
        \/ i < Len(s) /\ n = s[i + 1].src
        \/ i = Len(s) /\ n = left

Clearing ==
    /\ Attended(stack, tree, LeftDir)
    /\ stack # << >> => tree[stack[Len(stack)].src].linked
    /\ pc = "leave" => /\ hand.emptied /\ tree[hand.src].linked
                       /\ \A n \in Nodes : ~(tree[n].linked /\ tree[n].parent = hand.src)

Cleared(t, w) == \A n \in SourceOf(w) : ~t[n].linked

Removing == Still /\ faults = 0 /\ job.cmd = "remove" /\ job.force =>
    /\ pc = "over" => end = "ok" /\ Cleared(tree, was)
    /\ pc # "over" => Clearing

-----------------------------------------------------------------------------
LEMMA LeastNumber ==
    ASSUME NEW S, S \subseteq Nat, S # {}
    PROVE  \E n \in S : \A m \in S : n <= m
<1> DEFINE R == OpToRel(<, Nat)
<1>1. IsWellFoundedOn(R, Nat)
    BY NatLessThanWellFounded, Zenon
<1>2. \A x, y \in Nat : x < y => <<x, y>> \in R
    BY Zenon DEF OpToRel
<1> HIDE DEF R
<1>3. PICK x \in S : \A y \in S : ~ (<<y, x>> \in R)
    BY <1>1, WFMin, Zenon
<1>4. \A y \in S : ~(y < x)
    BY <1>3, <1>2
<1> QED
    BY <1>4

(* What the source is: the two ends and what is below one of them.         *)
LEMMA SourceIs ==
    ASSUME NEW w \in Trees
    PROVE  /\ w \in [Nodes -> Inodes] /\ IsTree(w) /\ Sided(w)
           /\ SourceOf(w) \subseteq Nodes \ {Base}
           /\ \A n \in SourceOf(w) :
                  /\ w[n].linked
                  /\ w[n].parent = Base => w[n].name = "s"
                  /\ w[n].parent # Base =>
                         /\ w[n].parent \in SourceOf(w) /\ w[w[n].parent].kind = "dir"
                         /\ w[n].name \in Names /\ w[n].parent < n
           /\ \A n \in Nodes : w[n].linked /\ w[n].parent \in SourceOf(w) =>
                  n \in SourceOf(w)
           /\ \A n \in Nodes : w[n].linked /\ w[n].parent = Base /\ w[n].name = "s" =>
                  n \in SourceOf(w)
<1> DEFINE tops == {n \in Roots(w) : w[n].name = "s"}
           S == SourceOf(w)
<1>1. /\ w \in [Nodes -> Inodes] /\ IsTree(w) /\ Sided(w) /\ Base \in Nodes
      /\ \A n \in Nodes :
             /\ w[n].parent # None => w[n].parent < n
             /\ w[n].parent \notin {None, Base} => w[n].name \in Names
    BY TreesAssumption
<1>2. /\ S \subseteq {n \in Nodes : w[n].linked}
      /\ \A n \in Nodes : w[n].linked /\ n \in tops => n \in S
      /\ \A n \in Nodes : /\ w[n].linked /\ w[n].parent # None
                          /\ w[w[n].parent].linked /\ w[n].parent \in S
                          => n \in S
      /\ \A n \in S : n \in tops \/ /\ w[n].parent # None
                                    /\ w[w[n].parent].linked => w[n].parent \in S
    <2> HIDE DEF tops
    <2>1. S = Below(w, tops)
        BY DEF SourceOf, tops
    <2> QED
        BY <1>1, <2>1, BelowIs
<1>3. tops = {n \in Nodes : w[n].linked /\ w[n].parent = Base /\ w[n].name = "s"}
    BY DEF Roots
<1> HIDE DEF tops, S
<1>4. Base \notin S
    <2>1. w[Base].parent = None
        BY <1>1 DEF IsTree
    <2> QED
        BY <1>1, <1>2, <1>3, <2>1, NoneAssumption
<1>5. ASSUME NEW n \in S, w[n].parent # Base
      PROVE  /\ w[n].parent \in S /\ w[w[n].parent].kind = "dir"
             /\ w[n].name \in Names /\ w[n].parent < n
    <2>1. n \in Nodes /\ w[n].linked /\ w[n].parent # None
        BY <1>2, <1>3, <1>5
    <2>2. w[w[n].parent].linked /\ w[w[n].parent].kind = "dir"
        BY <1>1, <2>1 DEF IsTree
    <2> QED
        BY <1>1, <1>2, <1>3, <1>5, <2>1, <2>2
<1>6. ASSUME NEW n \in S, w[n].parent = Base PROVE w[n].name = "s"
    BY <1>2, <1>3, <1>4, <1>6, <1>1 DEF IsTree
<1>7. ASSUME NEW n \in Nodes, w[n].linked, w[n].parent \in S PROVE n \in S
    <2>1. w[n].parent # None /\ w[w[n].parent].linked
        BY <1>2, <1>7, NoneAssumption
    <2> QED
        BY <1>2, <1>7, <2>1
<1> QED
    BY <1>1, <1>2, <1>3, <1>4, <1>5, <1>6, <1>7 DEF S

(* All of it is on its own side.                                           *)
LEMMA SourceSide ==
    ASSUME NEW w \in Trees
    PROVE  \A n \in SourceOf(w) : w[n].side = "source"
<1> DEFINE S == {n \in SourceOf(w) : w[n].side # "source"}
<1>1. S \subseteq Nat
    BY SourceIs, TreesAssumption
<1>2. SUFFICES ASSUME S # {} PROVE FALSE
    OBVIOUS
<1>3. PICK n \in S : \A m \in S : n <= m
    BY <1>1, <1>2, LeastNumber
<1>4. n \in Nodes /\ w[n].linked /\ w \in [Nodes -> Inodes] /\ Sided(w)
    BY SourceIs
<1>5. CASE w[n].parent = Base
    <2>1. w[n].name = "s"
        BY <1>5, SourceIs
    <2>2. w[n].side # "destination"
        BY <1>4, <1>5, <2>1 DEF Sided
    <2> QED
        BY <1>4, <2>2, NodeFields
<1>6. CASE w[n].parent # Base
    <2>1. w[n].parent \in SourceOf(w) /\ w[n].parent < n /\ w[n].parent \in Nodes
        BY <1>6, SourceIs
    <2>2. w[n].side = w[w[n].parent].side
        BY <1>4, <1>6, <2>1, NoneAssumption DEF Sided
    <2>3. w[n].parent \in S
        BY <2>1, <2>2
    <2>4. n <= w[n].parent /\ n \in Nat /\ w[n].parent \in Nat
        BY <1>1, <1>3, <2>3
    <2> QED
        BY <2>1, <2>4
<1> QED
    BY <1>5, <1>6

(* One name, one entry.                                                    *)
LEMMA SourceUnique ==
    ASSUME NEW w \in Trees, NEW n \in SourceOf(w), NEW m \in SourceOf(w),
           w[n].parent = w[m].parent, w[n].name = w[m].name
    PROVE  n = m
<1>1. n \in Nodes /\ m \in Nodes /\ w[n].linked /\ w[m].linked /\ IsTree(w)
    BY SourceIs
<1>2. w[n].parent # None
    BY SourceIs, TreesAssumption, NoneAssumption
<1> QED
    BY <1>1, <1>2, NamesDiffer

-----------------------------------------------------------------------------
(***************************************************************************)
(* What a copy does to the trees.                                          *)
(***************************************************************************)
(* The source is left alone.                                               *)
Aside(t, u) == \A n \in Nodes :
    u[n] = t[n] \/ (u[n].side = "destination" /\ (t[n].side = "destination" \/ ~t[n].linked))

LEMMA AsideKeeps ==
    ASSUME NEW t, NEW u, NEW w, Aside(t, u), OldOnes(t, w), Intact(t, w)
    PROVE  OldOnes(u, w) /\ Intact(u, w)
<1>1. ASSUME NEW n \in Nodes, w[n].linked, w[n].side = "source"
      PROVE  u[n] = t[n] /\ t[n] = w[n]
    BY <1>1 DEF Aside, Intact
<1>2. ASSUME NEW n \in Nodes, u[n].linked, u[n].side = "source"
      PROVE  u[n] = t[n]
    BY <1>2 DEF Aside
<1> QED
    BY <1>1, <1>2 DEF OldOnes, Intact

(* One more is copied, and nothing that has been is lost.                  *)
Gains(t, u, w, x) ==
    /\ Tidy(u, w)
    /\ Copied(t) \subseteq Copied(u) /\ Copied(u) \subseteq Copied(t) \cup {x}
    /\ \A n \in Nodes : n # x /\ w[n].kind = "dir" /\ Shut(t, w, n) => Shut(u, w, n)
    /\ \A c \in Nodes : t[c].linked /\ t[c].kind = "dir" /\ t[c].copyOf # None =>
           u[c].copyOf = t[c].copyOf

LEMMA GainsNothing ==
    ASSUME NEW t, NEW w, Tidy(t, w), NEW x
    PROVE  Aside(t, t) /\ Gains(t, t, w, x)
BY DEF Aside, Gains

(* A new inode, perhaps in the place of what is no directory.              *)
LEMMA MadeGains ==
    ASSUME NEW w \in Trees, NEW t \in [Nodes -> Inodes], NEW u \in [Nodes -> Inodes],
           IsTree(t), Tidy(t, w),
           NEW new \in Nodes, ~t[new].linked, u[new].linked, NEW x \in Nodes,
           \A n \in Nodes \ {new} : \/ u[n] = t[n]
                                    \/ /\ ~u[n].linked /\ u[n].copyOf = t[n].copyOf
                                       /\ t[n].kind # "dir" /\ t[n].copyOf \in {None, x},
           \/ u[new].copyOf = None /\ \A n \in Nodes \ {new} : u[n] = t[n]
           \/ u[new].copyOf = x /\ CopyOf(u, w, new, x)
    PROVE  Gains(t, u, w, x)
<1>1. ASSUME NEW c \in Nodes, u[c].linked, u[c].copyOf # None
      PROVE  CopyOf(u, w, c, u[c].copyOf)
    <2>1. CASE c = new
        BY <1>1, <2>1
    <2>2. CASE c # new
        <3> DEFINE n == t[c].copyOf
        <3>1. u[c] = t[c]
            BY <1>1, <2>2
        <3>2. CopyOf(t, w, c, n)
            BY <1>1, <3>1 DEF Tidy
        <3> HIDE DEF n
        <3>3. ASSUME w[n].parent # Base
              PROVE  /\ t[c].parent # None /\ u[t[c].parent].copyOf = t[t[c].parent].copyOf
            <4>1. t[c].parent # None
                BY <3>2, <3>3 DEF CopyOf, Place
            <4>2. t[c].parent \in Nodes /\ t[t[c].parent].linked
                BY <1>1, <3>1, <4>1, NodeFields DEF IsTree
            <4>3. t[c].parent # new
                BY <4>2
            <4> QED
                BY <4>1, <4>2, <4>3
        <3>4. CopyOf(u, w, c, n)
            BY <3>1, <3>2, <3>3 DEF CopyOf, Place
        <3> QED
            BY <3>1, <3>4 DEF n
    <2> QED
        BY <2>1, <2>2
<1>2. ASSUME NEW n \in Copied(t) PROVE n \in Copied(u)
    <2>1. PICK c \in Nodes : t[c].linked /\ t[c].copyOf = n
        BY DEF Copied
    <2>2. n \in Nodes /\ n # None /\ c # new
        BY <2>1, NoneAssumption DEF Copied
    <2>3. CASE u[c] = t[c]
        BY <2>1, <2>2, <2>3 DEF Copied
    <2>4. CASE u[c] # t[c]
        <3>1. n = x /\ u[new].copyOf = x
            BY <2>1, <2>2, <2>4
        <3> QED
            BY <3>1, <2>2 DEF Copied
    <2> QED
        BY <2>3, <2>4
<1>3. ASSUME NEW n \in Copied(u), n # x PROVE n \in Copied(t)
    <2>1. PICK c \in Nodes : u[c].linked /\ u[c].copyOf = n
        BY DEF Copied
    <2>2. n \in Nodes /\ n # None
        BY NoneAssumption DEF Copied
    <2>3. c # new
        BY <1>3, <2>1, <2>2
    <2>4. u[c] = t[c]
        BY <2>1, <2>3
    <2> QED
        BY <2>1, <2>2, <2>4 DEF Copied
<1>4. ASSUME NEW n \in Nodes, n # x, Shut(t, w, n) PROVE Shut(u, w, n)
    <2>1. PICK c \in Nodes : t[c].linked /\ t[c].copyOf = n /\ t[c].mode = w[n].mode
        BY <1>4 DEF Shut
    <2>2. c # new /\ n # None
        BY <2>1, NoneAssumption
    <2>3. u[c] = t[c]
        BY <1>4, <2>1, <2>2
    <2> QED
        BY <2>1, <2>3 DEF Shut
<1>5. ASSUME NEW c \in Nodes, t[c].linked, t[c].kind = "dir"
      PROVE  u[c].copyOf = t[c].copyOf
    BY <1>5
<1> QED
    BY <1>1, <1>2, <1>3, <1>4, <1>5 DEF Gains, Tidy

(* A directory becomes a copy, or another mode.                            *)
LEMMA RemadeGains ==
    ASSUME NEW w \in Trees, NEW t \in [Nodes -> Inodes], NEW u \in [Nodes -> Inodes],
           IsTree(t), Tidy(t, w), NEW d \in Nodes, NEW x \in Nodes,
           \A n \in Nodes \ {d} : u[n] = t[n],
           t[d].linked, u[d].linked, u[d].parent = t[d].parent, u[d].name = t[d].name,
           t[d].copyOf \in {None, x}, u[d].copyOf = x, CopyOf(u, w, d, x)
    PROVE  Gains(t, u, w, x) /\ x \in Copied(u)
<1>1. ASSUME NEW c \in Nodes, u[c].linked, u[c].copyOf # None
      PROVE  CopyOf(u, w, c, u[c].copyOf)
    <2>1. CASE c = d
        BY <2>1
    <2>2. CASE c # d
        <3> DEFINE n == t[c].copyOf
        <3>1. u[c] = t[c] /\ n # None
            BY <1>1, <2>2
        <3>2. CopyOf(t, w, c, n)
            BY <1>1, <3>1 DEF Tidy
        <3> HIDE DEF n
        <3>3. ASSUME w[n].parent # Base
              PROVE  u[t[c].parent].copyOf = t[t[c].parent].copyOf
            <4>1. t[c].parent # None /\ t[t[c].parent].copyOf = w[n].parent /\ n \in SourceOf(w)
                BY <3>2, <3>3 DEF CopyOf, Place
            <4>2. t[c].parent \in Nodes
                BY <4>1, NodeFields
            <4>3. w[n].parent \in Nodes
                BY <3>3, <4>1, SourceIs
            <4>4. t[c].parent = d => t[d].copyOf = x
                BY <4>1, <4>3, NoneAssumption
            <4> QED
                BY <4>2, <4>4
        <3>4. CopyOf(u, w, c, n)
            BY <3>1, <3>2, <3>3 DEF CopyOf, Place
        <3> QED
            BY <3>1, <3>4 DEF n
    <2> QED
        BY <2>1, <2>2
<1>2. x \in Copied(u)
    BY DEF Copied
<1>3. ASSUME NEW n \in Copied(t) PROVE n \in Copied(u)
    <2>1. PICK c \in Nodes : t[c].linked /\ t[c].copyOf = n
        BY DEF Copied
    <2>2. n \in Nodes /\ n # None
        BY NoneAssumption DEF Copied
    <2>3. u[c].linked /\ u[c].copyOf = n
        BY <2>1, <2>2
    <2> QED
        BY <2>2, <2>3 DEF Copied
<1>4. ASSUME NEW n \in Copied(u), n # x PROVE n \in Copied(t)
    <2>1. PICK c \in Nodes : u[c].linked /\ u[c].copyOf = n
        BY DEF Copied
    <2>2. u[c] = t[c]
        BY <1>4, <2>1
    <2> QED
        BY <2>1, <2>2 DEF Copied
<1>5. ASSUME NEW n \in Nodes, n # x, Shut(t, w, n) PROVE Shut(u, w, n)
    <2>1. PICK c \in Nodes : t[c].linked /\ t[c].copyOf = n /\ t[c].mode = w[n].mode
        BY <1>5 DEF Shut
    <2>2. u[c] = t[c]
        BY <1>5, <2>1, NoneAssumption
    <2> QED
        BY <2>1, <2>2 DEF Shut
<1>6. ASSUME NEW c \in Nodes, t[c].copyOf # None
      PROVE  u[c].copyOf = t[c].copyOf
    BY <1>6
<1> QED
    BY <1>1, <1>2, <1>3, <1>4, <1>5, <1>6 DEF Gains, Tidy

(* What stands in the place of a copy is a copy of that, or of nothing.    *)
LEMMA PlaceUnique ==
    ASSUME NEW w \in Trees, NEW t \in [Nodes -> Inodes], IsTree(t), Tidy(t, w),
           NEW c \in Nodes, t[c].linked, NEW x \in SourceOf(w),
           Place(t, w, t[c].parent, t[c].name, x)
    PROVE  t[c].copyOf \in {None, x}
<1> DEFINE n == t[c].copyOf
<1>1. SUFFICES ASSUME n # None PROVE n = x
    OBVIOUS
<1>2. CopyOf(t, w, c, n)
    BY <1>1 DEF Tidy
<1> HIDE DEF n
<1>3. n \in SourceOf(w) /\ Place(t, w, t[c].parent, t[c].name, n)
    BY <1>2 DEF CopyOf
<1>4. t[Base].copyOf = None
    <2>1. SUFFICES ASSUME t[Base].copyOf # None PROVE FALSE
        OBVIOUS
    <2>2. Base \in Nodes /\ t[Base].linked /\ t[Base].parent = None
        BY TreesAssumption DEF IsTree
    <2>3. Place(t, w, None, t[Base].name, t[Base].copyOf)
        BY <2>1, <2>2 DEF Tidy, CopyOf
    <2> QED
        BY <2>2, <2>3, NoneAssumption DEF Place
<1>5. w[n].parent # None /\ w[x].parent # None
    BY <1>3, SourceIs, TreesAssumption, NoneAssumption
<1>6. w[n].parent = w[x].parent /\ w[n].name = w[x].name
    <2>1. CASE w[n].parent = Base
        <3>1. w[x].parent = Base
            BY <1>3, <1>4, <1>5, <2>1 DEF Place
        <3> QED
            BY <1>3, <2>1, <3>1, SourceIs
    <2>2. CASE w[n].parent # Base
        <3>1. w[x].parent # Base
            BY <1>3, <1>4, <1>5, <2>2 DEF Place
        <3> QED
            BY <1>3, <2>2, <3>1 DEF Place
    <2> QED
        BY <2>1, <2>2
<1> QED
    BY <1>3, <1>6, SourceUnique

-----------------------------------------------------------------------------
(* What a walk has in hand is of the source.                               *)
Known == Inv /\ Stand /\ Counts /\ Calm /\ OldOnes(tree, was) /\ Chained(stack, was)

LEMMA KnownTree ==
    ASSUME Known
    PROVE  /\ tree \in [Nodes -> Inodes] /\ IsTree(tree) /\ Sided(tree)
           /\ was \in Trees /\ was \in [Nodes -> Inodes] /\ IsTree(was)
           /\ within \subseteq Nodes \ {Base}
           /\ \A n \in SourceOf(was) : n \in Nodes \ {Base} /\ tree[n].side = "source"
<1>1. /\ tree \in [Nodes -> Inodes] /\ IsTree(tree) /\ Sided(tree) /\ was \in Trees
      /\ within \subseteq Nodes \ {Base}
    BY DEF Known, Stand, TreeSound, Counts, Calm
<1>2. was \in [Nodes -> Inodes] /\ IsTree(was)
    BY <1>1, SourceIs
<1>3. ASSUME NEW n \in SourceOf(was)
      PROVE  n \in Nodes \ {Base} /\ tree[n].side = "source"
    <2>1. n \in Nodes \ {Base} /\ was[n].linked /\ was[n].side = "source"
        BY <1>1, SourceIs, SourceSide
    <2> QED
        BY <2>1 DEF Known, OldOnes
<1> QED
    BY <1>1, <1>2, <1>3

LEMMA SourceEnd ==
    ASSUME Known, Source # None
    PROVE  /\ Source \in SourceOf(was) /\ was[Source].parent = Base
           /\ Source \in Nodes /\ tree[Source].linked /\ tree[Source].side = "source"
           /\ tree[Source].kind = was[Source].kind /\ was[Source].name = "s"
<1>1. /\ Source \in Nodes /\ tree[Source].linked
      /\ tree[Source].parent = Base /\ tree[Source].name = "s"
    BY EndsAre DEF Known, Stand
<1>2. tree[Source].side = "source"
    BY <1>1, KnownTree, NodeFields DEF Sided
<1>3. /\ was[Source].linked /\ was[Source].parent = Base /\ was[Source].name = "s"
      /\ tree[Source].kind = was[Source].kind
    BY <1>1, <1>2 DEF Known, OldOnes
<1> QED
    BY <1>1, <1>2, <1>3, KnownTree, SourceIs

LEMMA TopSource ==
    ASSUME Known, stack # << >>
    PROVE  /\ Len(stack) \in Nat /\ Len(stack) >= 1 /\ Len(stack) \in 1..Len(stack)
           /\ Top = stack[Len(stack)] /\ Top \in Frames
           /\ Top.src \in SourceOf(was) /\ Top.src \in Nodes \ {Base}
           /\ was[Top.src].kind = "dir"
<1>1. Len(stack) \in Nat /\ Len(stack) >= 1 /\ Len(stack) \in 1..Len(stack)
    BY StandingFrames DEF Known, Stand
<1>2. Top = stack[Len(stack)] /\ Top \in Frames
    BY <1>1, StandingFrames DEF Known, Stand, Top
<1>3. Top.src \in SourceOf(was) /\ was[Top.src].kind = "dir"
    BY <1>1, <1>2 DEF Known, Chained, Linked
<1> QED
    BY <1>1, <1>2, <1>3, KnownTree

LEMMA EntrySource ==
    ASSUME Known, Handling, Entry # None
    PROVE  /\ Entry \in SourceOf(was) /\ was[Entry].parent = Dir /\ was[Entry].name = Name
           /\ Entry \in Nodes /\ tree[Entry].linked /\ tree[Entry].side = "source"
           /\ tree[Entry].kind = was[Entry].kind
           /\ pc # "root" => Dir = Top.src /\ Dir # Base
<1>1. Inv /\ Stand
    BY DEF Known
<1>2. /\ Entry \in Nodes /\ tree[Entry].linked
      /\ tree[Entry].parent = Dir /\ tree[Entry].name = Name
    BY <1>1, EntryIs
<1>3. CASE pc = "root"
    <2>1. Dir = Base /\ Name = "s" /\ Entry = Source
        BY <1>3 DEF Dir, Name, Entry, Source
    <2> QED
        BY <1>2, <1>3, <2>1, SourceEnd
<1>4. CASE pc # "root"
    <2>1. stack # << >> /\ Dir = Top.src
        BY <1>1, <1>4, StandTop DEF Handling, Walking, Walked, Dir
    <2>2. Dir \in SourceOf(was) /\ Dir \in Nodes /\ Dir # Base /\ Dir # None
        BY <2>1, TopSource, NoneAssumption
    <2>3. tree[Entry].side = "source"
        BY <1>2, <2>2, KnownTree DEF Sided
    <2>4. /\ was[Entry].linked /\ was[Entry].parent = Dir /\ was[Entry].name = Name
          /\ tree[Entry].kind = was[Entry].kind
        BY <1>2, <2>3 DEF Known, OldOnes
    <2>5. Entry \in SourceOf(was)
        BY <1>2, <2>2, <2>4, KnownTree, SourceIs
    <2> QED
        BY <1>2, <2>1, <2>2, <2>3, <2>4, <2>5
<1> QED
    BY <1>3, <1>4

(* An entry of the source, whole as it is, is the one in hand if it has    *)
(* its name.                                                               *)
LEMMA EntryFor ==
    ASSUME Known, Intact(tree, was), Handling, pc # "root", NEW n \in SourceOf(was),
           was[n].parent = Top.src, was[n].name = Name
    PROVE  n = Entry
<1>1. n \in Nodes /\ was[n].linked /\ was[n].side = "source"
    BY KnownTree, SourceIs, SourceSide
<1>2. tree[n] = was[n]
    BY <1>1 DEF Intact
<1>3. stack # << >>
    BY StandTop DEF Handling, Walking, Walked, Known
<1>4. Top.src # None
    BY <1>3, TopSource, NoneAssumption
<1>5. At(tree[n].parent, tree[n].name) = n
    BY <1>1, <1>2, <1>4, KnownTree, AtUnique
<1> QED
    BY <1>2, <1>5 DEF Entry, Dir

-----------------------------------------------------------------------------
(* What Make() does. *)
LEMMA MakeIs ==
    ASSUME NEW cut \in [Nodes -> Inodes], NEW kind, NEW name, NEW dir, NEW mode, NEW copyOf,
           Make(cut, kind, name, dir, mode, copyOf)
    PROVE  \E new \in Nodes :
               /\ ~tree[new].linked
               /\ tree'[new].linked /\ tree'[new].kind = kind /\ tree'[new].name = name
               /\ tree'[new].parent = dir /\ tree'[new].mode = mode
               /\ tree'[new].copyOf = copyOf /\ tree'[new].side = cut[dir].side
               /\ \A n \in Nodes \ {new} : tree'[n] = cut[n]
<1> DEFINE made == [kind |-> kind, name |-> name, parent |-> dir, linked |-> TRUE,
                    mode |-> mode, copyOf |-> copyOf, side |-> cut[dir].side]
           new == New
<1>1. new \in Nodes /\ ~tree[new].linked
    BY DEF Make, New, Spare
<1>2. tree' = [cut EXCEPT ![new] = made]
    BY DEF Make
<1> HIDE DEF new
<1>3. tree'[new] = made /\ \A n \in Nodes \ {new} : tree'[n] = cut[n]
    <2> HIDE DEF made
    <2> QED
        BY <1>1, <1>2
<1>4. /\ made.linked /\ made.kind = kind /\ made.name = name /\ made.parent = dir
      /\ made.mode = mode /\ made.copyOf = copyOf /\ made.side = cut[dir].side
    OBVIOUS
<1> HIDE DEF made
<1> QED
    BY <1>1, <1>3, <1>4

LEMMA NewCopy ==
    ASSUME Known, Tidy(tree, was), tree' \in [Nodes -> Inodes],
           NEW cut \in [Nodes -> Inodes], NEW x \in SourceOf(was),
           NEW name, NEW dir \in Nodes, NEW mode,
           \A n \in Nodes : \/ cut[n] = tree[n]
                            \/ /\ ~cut[n].linked /\ cut[n].copyOf = tree[n].copyOf
                               /\ cut[n].side = "destination" /\ tree[n].side = "destination"
                               /\ tree[n].kind # "dir" /\ tree[n].copyOf \in {None, x},
           tree[dir].linked, cut[dir] = tree[dir], dir = Base \/ tree[dir].side = "destination",
           Place(tree, was, dir, name, x), was[x].kind # "dir" => mode = was[x].mode,
           Make(cut, was[x].kind, name, dir, mode, x)
    PROVE  Aside(tree, tree') /\ Gains(tree, tree', was, x) /\ x \in Copied(tree')
<1>1. PICK new \in Nodes :
          /\ ~tree[new].linked
          /\ tree'[new].linked /\ tree'[new].kind = was[x].kind /\ tree'[new].name = name
          /\ tree'[new].parent = dir /\ tree'[new].mode = mode
          /\ tree'[new].copyOf = x /\ tree'[new].side = cut[dir].side
          /\ \A n \in Nodes \ {new} : tree'[n] = cut[n]
    BY MakeIs
<1>2. tree'[new].side = "destination"
    BY <1>1, KnownTree DEF Sided
<1>3. dir # new /\ tree'[dir] = tree[dir] /\ x \in Nodes
    BY <1>1, KnownTree
<1>4. CopyOf(tree', was, new, x)
    BY <1>1, <1>2, <1>3 DEF CopyOf, Place
<1>5. Aside(tree, tree')
    BY <1>1, <1>2 DEF Aside
<1>6. Gains(tree, tree', was, x)
    BY <1>1, <1>3, <1>4, KnownTree, MadeGains DEF Known
<1>7. x \in Copied(tree')
    BY <1>1, <1>3 DEF Copied
<1> QED
    BY <1>5, <1>6, <1>7

(* What is written and left is a copy of nothing. *)
LEMMA NewRest ==
    ASSUME Known, Tidy(tree, was), tree' \in [Nodes -> Inodes], NEW x \in Nodes,
           NEW name, NEW dir \in Nodes, tree[dir].side = "destination",
           Make(tree, "file", name, dir, Free, None)
    PROVE  Aside(tree, tree') /\ Gains(tree, tree', was, x)
<1>0. tree \in [Nodes -> Inodes]
    BY KnownTree
<1>1. PICK new \in Nodes :
          /\ ~tree[new].linked /\ tree'[new].linked
          /\ tree'[new].copyOf = None /\ tree'[new].side = tree[dir].side
          /\ \A n \in Nodes \ {new} : tree'[n] = tree[n]
    BY <1>0, MakeIs
<1>2. Aside(tree, tree')
    BY <1>1 DEF Aside
<1>3. Gains(tree, tree', was, x)
    BY <1>1, KnownTree, MadeGains DEF Known
<1> QED
    BY <1>2, <1>3

(* The copy of a file or a link. *)
LEMMA CopyGains ==
    ASSUME Known, Intact(tree, was), Tidy(tree, was), tree' \in [Nodes -> Inodes],
           NEW x \in SourceOf(was), was[x].kind # "dir",
           NEW name, NEW dir \in Nodes, tree[dir].linked, tree[dir].kind = "dir",
           (dir = Base /\ name = "t") \/ (dir # Base /\ tree[dir].side = "destination"),
           Place(tree, was, dir, name, x), Kind(At(dir, name)) # "dir",
           Copy(x, name, dir)
    PROVE  Aside(tree, tree') /\ Gains(tree, tree', was, x) /\ x \in Copied(tree')
<1>1. x \in Nodes /\ tree[x] = was[x]
    BY KnownTree, SourceIs, SourceSide DEF Intact
<1> DEFINE old == At(dir, name)
           cut == IF old = None THEN tree ELSE Unlinks(tree, old)
<1>2. old # None => /\ old \in Nodes /\ tree[old].linked
                    /\ tree[old].parent = dir /\ tree[old].name = name
    BY AtIs
<1>3. Make(cut, tree[x].kind, name, dir, tree[x].mode, x)
    BY DEF Copy, Unlinks
<1>4. old # None => tree[old].kind # "dir"
    BY DEF Kind
<1> HIDE DEF old
<1>5. /\ cut \in [Nodes -> Inodes] /\ cut[dir] = tree[dir]
      /\ \A n \in Nodes : \/ cut[n] = tree[n]
                          \/ /\ ~cut[n].linked /\ cut[n].copyOf = tree[n].copyOf
                             /\ cut[n].side = "destination" /\ tree[n].side = "destination"
                             /\ tree[n].kind # "dir" /\ tree[n].copyOf \in {None, x}
    <2>1. CASE old = None
        BY <2>1, KnownTree
    <2>2. CASE old # None
        <3>1. tree[old].copyOf \in {None, x}
            BY <1>2, <2>2, KnownTree, PlaceUnique
        <3>2. tree[old].side = "destination"
            BY <1>2, <2>2, KnownTree, NoneAssumption DEF Sided
        <3>3. cut = Unlinks(tree, old) /\ tree[old] \in Inodes
            BY <1>2, <2>2, KnownTree
        <3>4. [tree[old] EXCEPT !.linked = FALSE] \in Inodes
            BY <3>3, Unlinkable
        <3>5. /\ cut \in [Nodes -> Inodes] /\ \A n \in Nodes \ {old} : cut[n] = tree[n]
              /\ cut[old] = [tree[old] EXCEPT !.linked = FALSE]
            BY <1>2, <2>2, <3>3, <3>4, KnownTree DEF Unlinks
        <3>6. ~cut[old].linked /\ cut[old].copyOf = tree[old].copyOf
              /\ cut[old].side = tree[old].side
            BY <3>3, <3>5 DEF Inodes
        <3> HIDE DEF cut
        <3>7. dir # old
            BY <1>4, <2>2
        <3> QED
            BY <1>2, <1>4, <2>2, <3>1, <3>2, <3>5, <3>6, <3>7
    <2> QED
        BY <2>1, <2>2
<1> HIDE DEF cut
<1>6. Make(cut, was[x].kind, name, dir, was[x].mode, x)
    BY <1>1, <1>3
<1> QED
    BY <1>5, <1>6, NewCopy

-----------------------------------------------------------------------------
(* What each step of a copy does to the trees. *)
Copyist ==
    /\ Known /\ Route /\ Walks /\ job.cmd # "remove" /\ CopyInv
    /\ phase # "remove" => Intact(tree, was)

LEMMA CopyistTree ==
    ASSUME Copyist
    PROVE  Known /\ Inv /\ Stand /\ Tidy(tree, was) /\ CopyInv
BY DEF Copyist, CopyInv, Known

LEMMA MovedTyped ==
    ASSUME TreeMoved PROVE tree' \in [Nodes -> Inodes]
BY DEF TreeMoved, TreeStep, TreeSound

LEMMA BaseSide ==
    ASSUME Known
    PROVE  /\ Base \in Nodes /\ tree[Base].linked /\ tree[Base].kind = "dir"
           /\ tree[Base].side = "destination"
BY BaseIs DEF Known, Stand, Calm, Sided

LEMMA CopyOneGains ==
    ASSUME Copyist, CopyOne
    PROVE  /\ Aside(tree, tree') /\ Gains(tree, tree', was, Source) /\ Source \in Copied(tree')
           /\ Source \in SourceOf(was) /\ was[Source].kind # "dir"
<1>1. Known /\ Inv /\ Stand /\ Tidy(tree, was)
    BY CopyistTree
<1>2. tree' \in [Nodes -> Inodes]
    BY <1>1, CopyOneTree, MovedTyped
<1>3. pc = "one" /\ Kind(Source) \in {"file", "link"} /\ Copy(Source, "t", Base)
      /\ Yields(Kind(Source), Kind(Destination))
    BY DEF CopyOne
<1>4. Source # None /\ Kind(Source) = tree[Source].kind
    BY <1>3 DEF Kind
<1>5. /\ Source \in SourceOf(was) /\ was[Source].parent = Base
      /\ tree[Source].kind = was[Source].kind
    BY <1>1, <1>4, SourceEnd
<1>6. Intact(tree, was)
    BY <1>3 DEF Copyist, Route, Known
<1>7. Place(tree, was, Base, "t", Source)
    BY <1>5 DEF Place
<1>8. Kind(At(Base, "t")) # "dir"
    BY <1>3 DEF Yields, Destination
<1> QED
    BY <1>1, <1>2, <1>3, <1>4, <1>5, <1>6, <1>7, <1>8, BaseSide, CopyGains

LEMMA CannotCopyOneGains ==
    ASSUME Copyist, CannotCopyOne
    PROVE  Aside(tree, tree')
<1>1. Known /\ Inv /\ Stand /\ Tidy(tree, was)
    BY CopyistTree
<1>2. tree' \in [Nodes -> Inodes]
    BY <1>1, CannotCopyOneTree, MovedTyped
<1>3. CASE tree' = tree
    BY <1>3 DEF Aside
<1>4. CASE Make(tree, "file", "t", Base, Free, None)
    BY <1>1, <1>2, <1>4, BaseSide, NewRest
<1> QED
    BY <1>3, <1>4 DEF CannotCopyOne

LEMMA DestinationIs ==
    ASSUME Known, Destination # None
    PROVE  /\ Destination \in Nodes /\ tree[Destination].linked
           /\ tree[Destination].parent = Base /\ tree[Destination].name = "t"
           /\ tree[Destination].side = "destination"
<1>1. /\ Destination \in Nodes /\ tree[Destination].linked
      /\ tree[Destination].parent = Base /\ tree[Destination].name = "t"
    BY EndsAre DEF Known, Stand
<1> QED
    BY <1>1, KnownTree DEF Sided

LEMMA RemadeIs ==
    ASSUME NEW t \in [Nodes -> Inodes], NEW n \in Nodes, NEW mode, NEW c
    PROVE  LET u == Remade(t, n, mode, c)
           IN /\ \A m \in Nodes \ {n} : u[m] = t[m]
              /\ u[n].copyOf = c /\ u[n].mode = mode /\ u[n].linked = t[n].linked
              /\ u[n].kind = t[n].kind /\ u[n].parent = t[n].parent /\ u[n].name = t[n].name
              /\ u[n].side = t[n].side
<1> DEFINE a == [t[n] EXCEPT !.mode = mode]
           v == [t EXCEPT ![n] = a]
           b == [a EXCEPT !.copyOf = c]
           u == [v EXCEPT ![n] = b]
<1>1. t[n] \in Inodes
    OBVIOUS
<1>2. /\ DOMAIN a = DOMAIN t[n] /\ a.mode = mode /\ a.linked = t[n].linked
      /\ a.kind = t[n].kind /\ a.parent = t[n].parent /\ a.name = t[n].name
      /\ a.side = t[n].side
      /\ \A f \in {"kind", "name", "parent", "linked", "mode", "copyOf", "side"} :
             f \in DOMAIN a
    BY <1>1 DEF Inodes
<1> HIDE DEF a
<1>3. /\ b.copyOf = c /\ b.mode = mode /\ b.linked = t[n].linked
      /\ b.kind = t[n].kind /\ b.parent = t[n].parent /\ b.name = t[n].name
      /\ b.side = t[n].side
    BY <1>2
<1>4. v[n] = a /\ \A m \in Nodes \ {n} : v[m] = t[m]
    OBVIOUS
<1>5. DOMAIN v = Nodes
    OBVIOUS
<1>6. Remade(t, n, mode, c) = u
    BY <1>4 DEF a, Remade
<1> HIDE DEF v, b
<1>7. u[n] = b /\ \A m \in Nodes \ {n} : u[m] = t[m]
    BY <1>4, <1>5
<1> QED
    BY <1>3, <1>6, <1>7

LEMMA BeginTreeGains ==
    ASSUME Copyist, BeginTree
    PROVE  /\ Aside(tree, tree') /\ Gains(tree, tree', was, Source) /\ Source \in Copied(tree')
           /\ Source \in SourceOf(was) /\ was[Source].kind = "dir" /\ was[Source].parent = Base
<1>1. Known /\ Inv /\ Stand /\ Tidy(tree, was)
    BY CopyistTree
<1>2. tree' \in [Nodes -> Inodes]
    BY <1>1, BeginTreeTree, MovedTyped
<1>3. Source # None /\ tree[Source].kind = "dir"
    BY DEF BeginTree, Kind
<1>4. /\ Source \in SourceOf(was) /\ was[Source].parent = Base /\ was[Source].kind = "dir"
      /\ Source \in Nodes
    BY <1>1, <1>3, SourceEnd
<1>5. Place(tree, was, Base, "t", Source)
    BY <1>4 DEF Place
<1>6. CASE Destination = None
    <2>1. Make(tree, was[Source].kind, "t", Base, Free, Source)
        BY <1>4, <1>6 DEF BeginTree
    <2> QED
        BY <1>1, <1>2, <1>4, <1>5, <2>1, BaseSide, KnownTree, NewCopy
<1>7. CASE Destination # None
    <2>1. /\ Destination \in Nodes /\ tree[Destination].linked
          /\ tree[Destination].parent = Base /\ tree[Destination].name = "t"
          /\ tree[Destination].side = "destination"
        BY <1>1, <1>7, DestinationIs
    <2>2. tree[Destination].kind = "dir"
        BY <1>7 DEF BeginTree, Receives, Kind
    <2> DEFINE d == Destination
    <2>3. tree' = Remade(tree, d, Free, Source) /\ d \in Nodes
        BY <1>7, <2>1 DEF BeginTree, Remade
    <2> HIDE DEF d
    <2>4. /\ \A m \in Nodes \ {d} : tree'[m] = tree[m]
          /\ tree'[d].copyOf = Source /\ tree'[d].linked = tree[d].linked
          /\ tree'[d].kind = tree[d].kind /\ tree'[d].parent = tree[d].parent
          /\ tree'[d].name = tree[d].name /\ tree'[d].side = tree[d].side
        BY <2>3, KnownTree, RemadeIs, <1>1
    <2>5. tree[d].copyOf \in {None, Source}
        BY <1>1, <1>4, <1>5, <2>1, KnownTree, PlaceUnique DEF d
    <2>6. CopyOf(tree', was, d, Source)
        BY <1>4, <2>1, <2>2, <2>4 DEF CopyOf, Place, d
    <2>7. Gains(tree, tree', was, Source) /\ Source \in Copied(tree')
        BY <1>1, <1>2, <1>4, <2>1, <2>4, <2>5, <2>6, KnownTree, RemadeGains DEF d
    <2>8. Aside(tree, tree')
        BY <2>1, <2>4 DEF Aside, d
    <2> QED
        BY <1>4, <2>7, <2>8
<1> QED
    BY <1>4, <1>6, <1>7

(* The level that copies. *)
LEMMA TopCopies ==
    ASSUME Copyist, Handling, phase = "copy", pc # "root"
    PROVE  /\ Top.dst \in Nodes \ {Base} /\ tree[Top.dst].linked /\ tree[Top.dst].kind = "dir"
           /\ tree[Top.dst].side = "destination" /\ tree[Top.dst].copyOf = Top.src
           /\ stack # << >>
<1>1. Known /\ Inv /\ Stand /\ CopyInv
    BY CopyistTree
<1>2. stack # << >>
    BY <1>1, StandTop DEF Handling, Walking, Walked
<1>3. /\ Top.dst \in Nodes \ {Base} /\ tree[Top.dst].linked /\ tree[Top.dst].kind = "dir"
      /\ tree[Top.dst].side = "destination"
    BY <1>1, TopDst
<1>4. Top.dst # None
    BY <1>3, NoneAssumption
<1>5. Top = stack[Len(stack)] /\ Len(stack) \in 1..Len(stack)
    BY <1>1, <1>2, TopSource
<1>6. tree[Top.dst].copyOf = Top.src
    BY <1>1, <1>4, <1>5 DEF CopyInv, Twin
<1> QED
    BY <1>2, <1>3, <1>6

LEMMA EntryPlace ==
    ASSUME Copyist, Handling, phase = "copy", pc # "root", Entry # None
    PROVE  Place(tree, was, Top.dst, Name, Entry)
<1>1. Known
    BY CopyistTree
<1>2. was[Entry].parent = Top.src /\ was[Entry].name = Name /\ Top.src # Base
    BY <1>1, EntrySource
<1>3. Top.dst # None /\ tree[Top.dst].copyOf = Top.src
    BY TopCopies, NoneAssumption
<1> QED
    BY <1>2, <1>3 DEF Place

LEMMA CopyEntryGains ==
    ASSUME Copyist, CopyEntry
    PROVE  /\ Aside(tree, tree') /\ Gains(tree, tree', was, Entry) /\ Entry \in Copied(tree')
           /\ Entry \in SourceOf(was) /\ was[Entry].kind # "dir" /\ pc # "root"
<1>1. Known /\ Inv /\ Stand /\ Tidy(tree, was)
    BY CopyistTree
<1>2. tree' \in [Nodes -> Inodes]
    BY <1>1, CopyEntryTree, MovedTyped
<1>3. Handling /\ phase = "copy" /\ pc # "root" /\ Copy(Entry, Name, Top.dst)
      /\ Kind(Entry) \in {"file", "link"} /\ Yields(Kind(Entry), Kind(There))
    BY <1>1 DEF CopyEntry, Handling, Inv
<1>4. Entry # None /\ tree[Entry].kind \in {"file", "link"}
    BY <1>3 DEF Kind
<1>5. Entry \in SourceOf(was) /\ was[Entry].kind # "dir"
    BY <1>1, <1>3, <1>4, EntrySource
<1>6. Place(tree, was, Top.dst, Name, Entry)
    BY <1>3, <1>4, EntryPlace
<1>7. Kind(At(Top.dst, Name)) # "dir"
    BY <1>3 DEF Yields, There
<1>8. Intact(tree, was)
    BY <1>3 DEF Copyist
<1> QED
    BY <1>1, <1>2, <1>3, <1>5, <1>6, <1>7, <1>8, TopCopies, CopyGains

LEMMA CannotCopyGains ==
    ASSUME Copyist, CannotCopy, NEW x \in Nodes
    PROVE  Aside(tree, tree') /\ Gains(tree, tree', was, x) /\ pc # "root"
<1>1. Known /\ Inv /\ Stand /\ Tidy(tree, was)
    BY CopyistTree
<1>2. tree' \in [Nodes -> Inodes]
    BY <1>1, CannotCopyTree, MovedTyped
<1>3. Handling /\ phase = "copy" /\ pc # "root"
    BY <1>1 DEF CannotCopy, Handling, Inv
<1>4. CASE tree' = tree
    BY <1>1, <1>3, <1>4, GainsNothing
<1>5. CASE Make(tree, "file", Name, Top.dst, Free, None)
    BY <1>1, <1>2, <1>3, <1>5, TopCopies, NewRest
<1> QED
    BY <1>4, <1>5 DEF CannotCopy

LEMMA MakeDirectoryGains ==
    ASSUME Copyist, MakeDirectory
    PROVE  /\ Aside(tree, tree') /\ Gains(tree, tree', was, Entry)
           /\ Entry \in SourceOf(was) /\ was[Entry].kind = "dir" /\ pc # "root"
<1>1. Known /\ Inv /\ Stand /\ Tidy(tree, was)
    BY CopyistTree
<1>2. tree' \in [Nodes -> Inodes]
    BY <1>1, MakeDirectoryTree, MovedTyped
<1>3. Handling /\ phase = "copy" /\ pc # "root" /\ Kind(Entry) = "dir"
    BY <1>1 DEF MakeDirectory, Handling, Inv
<1>4. Entry # None /\ tree[Entry].kind = "dir"
    BY <1>3 DEF Kind
<1>5. Entry \in SourceOf(was) /\ was[Entry].kind = "dir"
    BY <1>1, <1>3, <1>4, EntrySource
<1>6. CASE tree' = tree
    BY <1>1, <1>3, <1>5, <1>6, GainsNothing
<1>7. CASE Make(tree, "dir", Name, Top.dst, Free, Entry)
    <2>1. Place(tree, was, Top.dst, Name, Entry)
        BY <1>3, <1>4, EntryPlace
    <2>2. Aside(tree, tree') /\ Gains(tree, tree', was, Entry)
        BY <1>1, <1>2, <1>3, <1>5, <1>7, <2>1, TopCopies, KnownTree, NewCopy
    <2> QED
        BY <1>3, <1>5, <2>2
<1> QED
    BY <1>6, <1>7 DEF MakeDirectory

(* The directory that is opened is in the place of the one to copy. *)
LEMMA OpenDestinationGains ==
    ASSUME Copyist, OpenDestination
    PROVE  /\ Aside(tree, tree') /\ Gains(tree, tree', was, Top.src)
           /\ Top.src \in Copied(tree') /\ tree'[Fresh].copyOf = Top.src
<1>1. Known /\ Inv /\ Stand /\ Tidy(tree, was) /\ CopyInv
    BY CopyistTree
<1>2. tree' \in [Nodes -> Inodes]
    BY <1>1, OpenDestinationTree, MovedTyped
<1>3. pc = "open_dst" /\ Fresh # None /\ tree[Fresh].kind = "dir"
      /\ tree' = [tree EXCEPT ![Fresh].mode = Free, ![Fresh].copyOf = Top.src]
    BY DEF OpenDestination, Kind
<1> DEFINE k == Len(stack) - 1
           d == Fresh
<1>4. stack # << >> /\ Len(stack) >= 2
    BY <1>1, <1>3 DEF Inv, Walked
<1>5. Len(stack) \in Nat /\ Top = stack[Len(stack)] /\ Len(stack) \in 1..Len(stack)
      /\ Top.src \in SourceOf(was) /\ was[Top.src].kind = "dir" /\ Top.src \in Nodes
    BY <1>1, <1>4, TopSource
<1>6. k \in 1..Len(stack) /\ Len(stack) # 1 /\ k \in 1..(Len(stack) - 1)
    BY <1>4, <1>5
<1>7. stack[k].dst # None
    BY <1>1, <1>3, <1>6 DEF Stand, InStep, Paired
<1>8. /\ stack[k] \in Frames /\ Placed(stack[k], tree, within)
    BY <1>1, <1>6, StandingFrames DEF Stand
<1>9. /\ tree[stack[k].dst].linked /\ tree[stack[k].dst].kind = "dir"
      /\ tree[stack[k].dst].side = "destination" /\ stack[k].dst \in Nodes \ {Base}
    BY <1>1, <1>7, <1>8, KnownTree DEF Placed
<1>10. tree[stack[k].dst].copyOf = stack[k].src
    BY <1>1, <1>6, <1>7 DEF CopyInv, Twin
<1>11. /\ was[Top.src].parent = stack[k].src /\ was[Top.src].name = Top.name
       /\ stack[k].src \in SourceOf(was)
    <2>1. Linked(stack[Len(stack)], DirOf(stack, Len(stack)), was) /\ Linked(stack[k], DirOf(stack, k), was)
        BY <1>1, <1>5, <1>6 DEF Known, Chained
    <2>2. DirOf(stack, Len(stack)) = stack[k].src
        BY <1>6 DEF DirOf
    <2> QED
        BY <1>5, <2>1, <2>2 DEF Linked
<1>12. stack[k].src # Base
    BY <1>1, <1>11, KnownTree
<1>13. /\ d \in Nodes /\ tree[d].linked /\ tree[d].parent = stack[k].dst
       /\ tree[d].name = Top.name
    BY <1>3, AtIs DEF Fresh
<1>14. tree[d].side = "destination"
    BY <1>1, <1>9, <1>13, KnownTree, NoneAssumption DEF Sided
<1>15. Place(tree, was, tree[d].parent, tree[d].name, Top.src)
    BY <1>7, <1>10, <1>11, <1>12, <1>13 DEF Place
<1>16. tree[d].copyOf \in {None, Top.src}
    BY <1>1, <1>5, <1>13, <1>15, KnownTree, PlaceUnique
<1>17. /\ \A m \in Nodes \ {d} : tree'[m] = tree[m]
       /\ tree'[d].copyOf = Top.src /\ tree'[d].linked = tree[d].linked
       /\ tree'[d].kind = tree[d].kind /\ tree'[d].parent = tree[d].parent
       /\ tree'[d].name = tree[d].name /\ tree'[d].side = tree[d].side
    <2> DEFINE x == Top.src
    <2>1. tree' = Remade(tree, d, Free, x)
        BY <1>3 DEF Remade
    <2>2. d \in Nodes /\ tree \in [Nodes -> Inodes]
        BY <1>1, <1>13, KnownTree
    <2> HIDE DEF d, x
    <2>3. /\ \A m \in Nodes \ {d} : tree'[m] = tree[m]
          /\ tree'[d].copyOf = x /\ tree'[d].linked = tree[d].linked
          /\ tree'[d].kind = tree[d].kind /\ tree'[d].parent = tree[d].parent
          /\ tree'[d].name = tree[d].name /\ tree'[d].side = tree[d].side
        BY <2>1, <2>2, RemadeIs
    <2> QED
        BY <2>3 DEF x
<1>18. tree[d].kind = "dir"
    BY <1>3
<1> HIDE DEF k, d
<1>19. tree'[stack[k].dst].copyOf = stack[k].src
    BY <1>9, <1>10, <1>16, <1>17, <1>11, NoneAssumption, KnownTree, <1>1
<1>20. CopyOf(tree', was, d, Top.src)
    BY <1>5, <1>7, <1>11, <1>12, <1>13, <1>14, <1>17, <1>18, <1>19 DEF CopyOf, Place
<1>21. Gains(tree, tree', was, Top.src) /\ Top.src \in Copied(tree')
    BY <1>1, <1>2, <1>5, <1>13, <1>16, <1>17, <1>20, KnownTree, RemadeGains
<1>22. Aside(tree, tree')
    BY <1>14, <1>17 DEF Aside
<1> QED
    BY <1>17, <1>21, <1>22 DEF d

LEMMA SealDirectoryGains ==
    ASSUME Copyist, SealDirectory
    PROVE  /\ Aside(tree, tree') /\ Gains(tree, tree', was, hand.src)
           /\ Shut(tree', was, hand.src) /\ hand.src \in SourceOf(was)
           /\ hand.src \in Copied(tree)
<1>1. Known /\ Inv /\ Stand /\ Tidy(tree, was) /\ CopyInv
    BY CopyistTree
<1>2. tree' \in [Nodes -> Inodes]
    BY <1>1, SealDirectoryTree, MovedTyped
<1>3. pc = "leave" /\ phase = "copy" /\ tree' = [tree EXCEPT ![hand.dst].mode = hand.mode]
    BY DEF SealDirectory, SealedAs
<1>4. hand \in Frames /\ Placed(hand, tree, within) /\ hand.dst # None
    BY <1>1, <1>3 DEF Stand, InStep
<1> DEFINE d == hand.dst
           x == hand.src
<1>5. /\ d \in Nodes /\ tree[d].linked /\ tree[d].kind = "dir"
      /\ tree[d].side = "destination"
    BY <1>1, <1>4, KnownTree DEF Placed
<1>6. tree[d].copyOf = x /\ hand.mode = was[x].mode
    BY <1>1, <1>3, <1>4 DEF CopyInv, Twin
<1>7. x \in SourceOf(was) /\ was[x].kind = "dir"
    BY <1>1, <1>3 DEF Copyist, Route, Known, Linked
<1>8. x \in Nodes /\ x # None
    BY <1>1, <1>7, KnownTree, NoneAssumption
<1> HIDE DEF x
<1>9. /\ \A m \in Nodes \ {d} : tree'[m] = tree[m]
      /\ tree'[d].mode = was[x].mode
      /\ tree'[d].copyOf = x /\ tree'[d].linked = tree[d].linked
      /\ tree'[d].kind = tree[d].kind /\ tree'[d].parent = tree[d].parent
      /\ tree'[d].name = tree[d].name /\ tree'[d].side = tree[d].side
    <2>1. tree[d] \in Inodes /\ tree \in [Nodes -> Inodes]
        BY <1>1, <1>5, KnownTree
    <2>2. tree'[d] = [tree[d] EXCEPT !.mode = hand.mode] /\ \A m \in Nodes \ {d} : tree'[m] = tree[m]
        BY <1>3, <1>5, <2>1
    <2> HIDE DEF d
    <2> QED
        BY <1>6, <2>1, <2>2 DEF Inodes
<1> HIDE DEF d
<1>10. CopyOf(tree, was, d, x)
    BY <1>1, <1>5, <1>6, <1>8 DEF Tidy
<1>11. CopyOf(tree', was, d, x)
    <2>1. ASSUME was[x].parent # Base
          PROVE  tree'[tree[d].parent].copyOf = tree[tree[d].parent].copyOf
        <3>1. tree[d].parent # None
            BY <1>10, <2>1 DEF CopyOf, Place
        <3>2. tree[d].parent \in Nodes
            BY <1>1, <1>5, <3>1, KnownTree, NodeFields
        <3> QED
            BY <1>6, <1>9, <3>2
    <2> QED
        BY <1>5, <1>7, <1>9, <1>10, <2>1 DEF CopyOf, Place
<1>12. Gains(tree, tree', was, x)
    BY <1>1, <1>2, <1>5, <1>6, <1>8, <1>9, <1>11, KnownTree, RemadeGains
<1>13. Aside(tree, tree')
    BY <1>5, <1>9 DEF Aside
<1>14. Shut(tree', was, x)
    BY <1>5, <1>9 DEF Shut
<1>15. x \in Copied(tree)
    BY <1>5, <1>6, <1>8 DEF Copied
<1> QED
    BY <1>7, <1>12, <1>13, <1>14, <1>15 DEF x

-----------------------------------------------------------------------------
(***************************************************************************)
(* What a step does to the levels, but for which of them are parked.       *)
(***************************************************************************)
SameLevel(f, g) ==
    /\ f.src = g.src /\ f.name = g.name /\ f.dst = g.dst /\ f.mode = g.mode
    /\ f.todo = g.todo /\ f.emptied = g.emptied

(* The same directories, with something else left to do in them. *)
SameDirs(f, g) ==
    f.src = g.src /\ f.name = g.name /\ f.dst = g.dst /\ f.mode = g.mode

LEMMA TopChanges ==
    ASSUME NEW s \in Seq(Frames), s # << >>, NEW f \in Frames, NEW r,
           r = [s EXCEPT ![Len(s)] = f]
    PROVE  /\ r \in Seq(Frames) /\ Len(r) = Len(s) /\ r # << >> /\ r[Len(s)] = f
           /\ \A i \in 1..(Len(s) - 1) : r[i] = s[i]
<1>1. Len(s) \in Nat /\ Len(s) >= 1 /\ s \in [1..Len(s) -> Frames]
    OBVIOUS
<1>2. PICK n \in Nat : n = Len(s)
    BY <1>1
<1>3. n \in 1..n /\ s \in [1..n -> Frames] /\ r = [s EXCEPT ![n] = f]
    BY <1>1, <1>2
<1>4. r \in [1..n -> Frames] /\ r[n] = f
    BY <1>3
<1>5. \A i \in 1..n : i # n => r[i] = s[i]
    BY <1>3
<1>6. \A i \in 1..(n - 1) : i \in 1..n /\ i # n
    OBVIOUS
<1>7. r \in Seq(Frames)
    BY <1>4
<1>8. Len(r) = n
    BY <1>4, <1>7
<1>9. r # << >>
    BY <1>3, <1>8
<1> QED
    BY <1>2, <1>4, <1>5, <1>6, <1>7, <1>8, <1>9

LEMMA FrontIs ==
    ASSUME NEW s \in Seq(Frames), s # << >>, NEW r, r = SubSeq(s, 1, Len(s) - 1)
    PROVE  /\ r \in Seq(Frames) /\ Len(r) = Len(s) - 1
           /\ \A i \in 1..(Len(s) - 1) : r[i] = s[i]
<1>1. Len(s) \in Nat /\ Len(s) >= 1
    OBVIOUS
<1>2. PICK n \in Nat : n = Len(s) - 1
    BY <1>1
<1>3. \A i \in 1..n : s[i] \in Frames
    BY <1>2
<1>4. r \in Seq(Frames) /\ Len(r) = n /\ \A i \in 1..n : r[i] = s[i]
    BY <1>1, <1>2, <1>3
<1> QED
    BY <1>2, <1>4

LEMMA ListedIs ==
    ASSUME NEW f \in Frames, NEW todo
    PROVE  LET g == Listed(f, todo)
           IN SameDirs(g, f) /\ g.todo = todo /\ g.emptied = f.emptied
BY DEF Frames, Listed, SameDirs

LEMMA MarkedIs ==
    ASSUME NEW f \in Frames, NEW emptied
    PROVE  LET g == Marked(f, emptied)
           IN SameDirs(g, f) /\ g.todo = f.todo /\ g.emptied = emptied
BY DEF Frames, Marked, SameDirs

LEMMA WithTopLevels ==
    ASSUME Known, stack # << >>, NEW f \in Frames, WithTop(f)
    PROVE  /\ Len(stack') = Len(stack) /\ stack' # << >> /\ stack'[Len(stack)] = f
           /\ \A i \in 1..(Len(stack) - 1) : stack'[i] = stack[i]
           /\ Len(stack) \in Nat /\ Len(stack) >= 1 /\ Len(stack) \in 1..Len(stack)
<1>1. stack \in Seq(Frames)
    BY DEF Known, Stand, Standing
<1> QED
    BY <1>1, TopChanges, TopSource DEF WithTop

LEMMA AdvanceLevels ==
    ASSUME Known, Handling, pc # "root", NEW gone \in BOOLEAN, Advance(gone)
    PROVE  /\ pc' = "entry" /\ end' = end /\ stack # << >>
           /\ Len(stack) \in Nat /\ Len(stack) >= 1 /\ Len(stack) \in 1..Len(stack)
           /\ Len(stack') = Len(stack) /\ stack' # << >>
           /\ \A i \in 1..(Len(stack) - 1) : stack'[i] = stack[i]
           /\ SameDirs(stack'[Len(stack)], Top)
           /\ stack'[Len(stack)].todo = Top.todo \ {Name}
           /\ stack'[Len(stack)].emptied = (Top.emptied /\ gone)
<1> DEFINE todo == Top.todo \ {Name}
           emptied == Top.emptied /\ gone
           g == Listed(Top, todo)
           f == Marked(g, emptied)
<1>1. pc' = "entry" /\ end' = end /\ WithTop(f)
    BY DEF Advance, Marked, Listed
<1>2. stack # << >> /\ Top \in Frames
    BY StandTop DEF Handling, Walking, Walked, Known
<1>3. todo \in (SUBSET Names) \cup {None}
    BY EntryIs DEF Known
<1>4. emptied \in BOOLEAN
    OBVIOUS
<1> HIDE DEF todo, emptied
<1>5. g \in Frames /\ f \in Frames
    BY <1>2, <1>3, <1>4, ListedAlike, MarkedAlike DEF Alike
<1>6. SameDirs(g, Top) /\ g.todo = todo /\ g.emptied = Top.emptied
    BY <1>2, ListedIs
<1>7. SameDirs(f, g) /\ f.todo = g.todo /\ f.emptied = emptied
    BY <1>5, MarkedIs
<1> HIDE DEF f, g
<1>8. SameDirs(f, Top) /\ f.todo = todo /\ f.emptied = emptied
    BY <1>6, <1>7 DEF SameDirs
<1>9. /\ Len(stack') = Len(stack) /\ stack' # << >> /\ stack'[Len(stack)] = f
      /\ \A i \in 1..(Len(stack) - 1) : stack'[i] = stack[i]
      /\ Len(stack) \in Nat /\ Len(stack) >= 1 /\ Len(stack) \in 1..Len(stack)
    BY <1>1, <1>2, <1>5, WithTopLevels
<1> QED
    BY <1>1, <1>2, <1>8, <1>9 DEF todo, emptied

LEMMA ParkedIs ==
    ASSUME NEW f \in Frames
    PROVE  Parked(f) \in Frames /\ SameLevel(Parked(f), f)
BY DEF Frames, Parked, SameLevel

LEMMA PushLevels ==
    ASSUME Known, Handling, NEW f \in Frames, Push(f)
    PROVE  /\ Len(stack) \in Nat /\ Len(stack') = Len(stack) + 1 /\ stack' # << >>
           /\ SameLevel(stack'[Len(stack) + 1], f)
           /\ \A i \in 1..(Len(stack) - 1) : SameLevel(stack'[i], stack[i])
           /\ stack # << >> =>
                  /\ Len(stack) \in 1..Len(stack)
                  /\ pc # "root" /\ SameDirs(stack'[Len(stack)], Top)
                  /\ stack'[Len(stack)].todo = Top.todo \ {Name}
                  /\ stack'[Len(stack)].emptied = Top.emptied
           /\ stack = << >> <=> pc = "root"
<1> DEFINE n == Len(stack)
           s == Passed
           grown == Append(s, f)
           l == Lowest(Len(grown))
<1>1. stack \in Seq(Frames)
    BY DEF Known, Stand, Standing
<1>2. n \in Nat /\ (stack # << >> => n >= 1 /\ n \in 1..n) /\ (stack = << >> => n = 0)
    BY <1>1
<1>3. stack = << >> <=> pc = "root"
    <2>1. pc = "root" => stack = << >>
        BY DEF Known, Inv
    <2>2. pc # "root" => stack # << >>
        BY StandTop DEF Handling, Walking, Walked, Known
    <2> QED
        BY <2>1, <2>2
<1>4. /\ s \in Seq(Frames) /\ Len(s) = n
      /\ \A i \in 1..(n - 1) : s[i] = stack[i]
      /\ stack # << >> => /\ SameDirs(s[n], Top) /\ s[n].todo = Top.todo \ {Name}
                          /\ s[n].emptied = Top.emptied
    <2>1. CASE stack = << >>
        <3>1. s = stack /\ n = 0
            BY <1>2, <1>3, <2>1 DEF Passed
        <3> QED
            BY <1>1, <2>1, <3>1
    <2>2. CASE stack # << >>
        <3> DEFINE todo == Top.todo \ {Name}
                   g == Listed(Top, todo)
        <3>1. pc # "root" /\ Top \in Frames
            BY <1>3, <2>2, TopSource
        <3>2. s = [stack EXCEPT ![Len(stack)] = g]
            BY <3>1 DEF Passed, Top, Listed
        <3>3. todo \in (SUBSET Names) \cup {None}
            BY <3>1, EntryIs DEF Known
        <3> HIDE DEF todo
        <3>4. g \in Frames
            BY <3>1, <3>3, ListedAlike DEF Alike
        <3>5. SameDirs(g, Top) /\ g.todo = todo /\ g.emptied = Top.emptied
            BY <3>1, ListedIs
        <3> HIDE DEF g, s
        <3>6. /\ s \in Seq(Frames) /\ Len(s) = n /\ s[n] = g
              /\ \A i \in 1..(n - 1) : s[i] = stack[i]
            BY <1>1, <2>2, <3>2, <3>4, TopChanges
        <3> QED
            BY <3>5, <3>6 DEF todo
    <2> QED
        BY <2>1, <2>2
<1> HIDE DEF s
<1>5. /\ Len(grown) = n + 1 /\ grown[n + 1] = f /\ \A i \in 1..n : grown[i] = s[i]
      /\ \A i \in 1..(n + 1) : grown[i] \in Frames
    BY <1>2, <1>4
<1>6. stack' = [i \in 1..Len(grown) |-> IF i \in low..(l - 1) THEN Parked(grown[i]) ELSE grown[i]]
    BY DEF Push, s
<1> HIDE DEF grown, l
<1>7. \A i \in 1..(n + 1) : stack'[i] = grown[i] \/ stack'[i] = Parked(grown[i])
    BY <1>5, <1>6
<1>8. \A i \in 1..(n + 1) : SameLevel(stack'[i], grown[i]) /\ stack'[i] \in Frames
    <2> TAKE i \in 1..(n + 1)
    <2>1. grown[i] \in Frames
        BY <1>5
    <2>2. SameLevel(grown[i], grown[i])
        BY DEF SameLevel
    <2> QED
        BY <1>7, <2>1, <2>2, ParkedIs
<1>9. Len(stack') = n + 1 /\ stack' # << >>
    <2>1. n + 1 \in Nat
        BY <1>2
    <2>2. stack' = [i \in 1..(n + 1) |-> stack'[i]]
        BY <1>5, <1>6
    <2>3. stack' \in [1..(n + 1) -> Frames]
        BY <1>8, <2>2
    <2>4. stack' \in Seq(Frames) /\ Len(stack') = n + 1
        BY <2>1, <2>3
    <2> QED
        BY <1>2, <2>4
<1>10. n + 1 \in 1..(n + 1) /\ \A i \in 1..(n - 1) : i \in 1..(n + 1) /\ i \in 1..n
    BY <1>2
<1>11. SameLevel(stack'[n + 1], f)
    BY <1>5, <1>8, <1>10
<1>12. \A i \in 1..(n - 1) : SameLevel(stack'[i], stack[i])
    BY <1>4, <1>5, <1>8, <1>10
<1>13. ASSUME stack # << >>
       PROVE  /\ n \in 1..n /\ pc # "root" /\ SameDirs(stack'[n], Top)
              /\ stack'[n].todo = Top.todo \ {Name} /\ stack'[n].emptied = Top.emptied
    <2>1. n \in 1..n /\ n \in 1..(n + 1)
        BY <1>2, <1>13
    <2>2. SameLevel(stack'[n], s[n])
        BY <1>5, <1>8, <2>1
    <2>3. SameDirs(s[n], Top) /\ s[n].todo = Top.todo \ {Name} /\ s[n].emptied = Top.emptied
        BY <1>4, <1>13
    <2> QED
        BY <1>3, <1>13, <2>1, <2>2, <2>3 DEF SameLevel, SameDirs
<1> QED
    BY <1>2, <1>3, <1>9, <1>11, <1>12, <1>13

LEMMA RevivedIs ==
    ASSUME NEW f \in Frames, NEW child, Revivable(f, child)
    PROVE  Revived(f, child) \in Frames /\ SameLevel(Revived(f, child), f)
<1>1. CASE ~f.parked
    BY <1>1 DEF Revived, SameLevel
<1>2. CASE f.parked
    <2> DEFINE a == IF f.src = None THEN None ELSE Up(child.src)
               b == IF f.dst = None THEN None ELSE Up(child.dst)
               g == [f EXCEPT !.src = a]
               h == [g EXCEPT !.dst = b]
               k == [h EXCEPT !.parked = FALSE]
    <2>1. a = f.src /\ b = f.dst
        BY <1>2 DEF Revivable, SameParent
    <2>2. Revived(f, child) = k
        BY <1>2 DEF Revived
    <2> HIDE DEF a, b
    <2>3. g \in Frames /\ SameLevel(g, f)
        BY <2>1 DEF Frames, SameLevel
    <2> HIDE DEF g
    <2>4. b = g.dst
        BY <2>1, <2>3 DEF SameLevel
    <2>5. h \in Frames /\ SameLevel(h, g)
        BY <2>3, <2>4 DEF Frames, SameLevel
    <2> HIDE DEF h
    <2>6. k \in Frames /\ SameLevel(k, h)
        BY <2>5 DEF Frames, SameLevel
    <2> HIDE DEF k
    <2> QED
        BY <2>2, <2>3, <2>5, <2>6 DEF SameLevel
<1> QED
    BY <1>1, <1>2

LEMMA PopLevels ==
    ASSUME Known, stack # << >>, Pop
    PROVE  /\ Len(stack) \in Nat /\ Len(stack) >= 1 /\ Len(stack') = Len(stack) - 1
           /\ hand' = Top /\ Len(stack) \in 1..Len(stack)
           /\ \A i \in 1..(Len(stack) - 1) : SameLevel(stack'[i], stack[i])
           /\ stack' = << >> <=> Len(stack) = 1
<1>1. stack \in Seq(Frames)
    BY DEF Known, Stand, Standing
<1>2. PICK n \in Nat : n = Len(stack) - 1
    BY <1>1
<1>3. Len(stack) = n + 1 /\ hand' = Top
    BY <1>1, <1>2 DEF Pop
<1>4. CASE n = 0
    <2>1. stack' = << >>
        BY <1>3, <1>4 DEF Pop
    <2> QED
        BY <1>3, <1>4, <2>1
<1>5. CASE n # 0
    <2> DEFINE s == SubSeq(stack, 1, Len(stack) - 1)
               f == Revived(stack[n], Top)
    <2>1. s \in Seq(Frames) /\ Len(s) = n /\ \A i \in 1..n : s[i] = stack[i]
        BY <1>1, <1>2, FrontIs
    <2>2. Revivable(stack[n], Top) /\ stack' = [s EXCEPT ![n] = f]
        BY <1>2, <1>3, <1>5 DEF Pop, Front
    <2>3. n \in 1..n /\ stack[n] \in Frames
        BY <1>1, <1>3, <1>5
    <2>4. f \in Frames /\ SameLevel(f, stack[n])
        BY <2>2, <2>3, RevivedIs
    <2> HIDE DEF f, s
    <2>5. s # << >>
        BY <1>5, <2>1
    <2>6. /\ Len(stack') = n /\ stack' # << >> /\ stack'[n] = f
          /\ \A i \in 1..(n - 1) : stack'[i] = s[i]
        BY <2>1, <2>2, <2>4, <2>5, TopChanges
    <2>7. ASSUME NEW i \in 1..n PROVE SameLevel(stack'[i], stack[i])
        <3>1. CASE i = n
            BY <2>4, <2>6, <3>1
        <3>2. CASE i # n
            <4>1. i \in 1..(n - 1)
                BY <3>2
            <4> QED
                BY <2>1, <2>6, <4>1 DEF SameLevel
        <3> QED
            BY <3>1, <3>2
    <2> QED
        BY <1>2, <1>3, <1>5, <2>6, <2>7
<1> QED
    BY <1>4, <1>5

LEMMA TruncateLevels ==
    ASSUME Known, stack # << >>, Truncate
    PROVE  /\ Len(stack) \in Nat /\ Len(stack) >= 1 /\ Len(stack') = Len(stack) - 1
           /\ Len(stack) \in 1..Len(stack)
           /\ \A i \in 1..(Len(stack) - 1) : stack'[i] = stack[i]
<1>1. stack \in Seq(Frames)
    BY DEF Known, Stand, Standing
<1>2. stack' = SubSeq(stack, 1, Len(stack) - 1)
    BY DEF Truncate, Front
<1>3. /\ Len(stack') = Len(stack) - 1
      /\ \A i \in 1..(Len(stack) - 1) : stack'[i] = stack[i]
    BY <1>1, <1>2, FrontIs
<1>4. Len(stack) \in Nat /\ Len(stack) >= 1 /\ Len(stack) \in 1..Len(stack)
    BY TopSource
<1> QED
    BY <1>3, <1>4

-----------------------------------------------------------------------------
(* What each level has to do, after a step at the top. *)
UnderTop(r, s) == \A i \in 1..(Len(s) - 1) : i \in 1..Len(r) /\ SameLevel(r[i], s[i])

LEMMA StillToCome ==
    ASSUME NEW s \in Seq(Frames), NEW r, UnderTop(r, s), NEW w, NEW n
    PROVE  /\ Awaited(s, w, n) => \/ Awaited(r, w, n)
                                  \/ /\ s # << >> /\ s[Len(s)].src = w[n].parent
                                     /\ s[Len(s)].todo = None \/ w[n].name \in s[Len(s)].todo
           /\ Due(s, w, n) => \/ Due(r, w, n)
                              \/ /\ s # << >> /\ s[Len(s)].src = w[n].parent
                                 /\ s[Len(s)].todo # None /\ w[n].name \in s[Len(s)].todo
           /\ Entered(s, n) => Entered(r, n) \/ (s # << >> /\ s[Len(s)].src = n)
           /\ Opening(s, n) => \/ Opening(r, n)
                               \/ s # << >> /\ s[Len(s)].src = n /\ s[Len(s)].dst = None
<1>1. Len(s) \in Nat /\ (s = << >> => Len(s) = 0)
    OBVIOUS
<1>2. ASSUME NEW i \in 1..Len(s), i # Len(s)
      PROVE  /\ i \in 1..Len(r) /\ r[i].src = s[i].src /\ r[i].todo = s[i].todo
             /\ r[i].dst = s[i].dst
    <2>1. i \in 1..(Len(s) - 1)
        BY <1>1, <1>2
    <2> QED
        BY <2>1 DEF UnderTop, SameLevel
<1>3. s = << >> => 1..Len(s) = {}
    BY <1>1
<1>4. Due(s, w, n) => \/ Due(r, w, n)
                      \/ /\ s # << >> /\ s[Len(s)].src = w[n].parent
                         /\ s[Len(s)].todo # None /\ w[n].name \in s[Len(s)].todo
    BY <1>2, <1>3 DEF Due
<1>5. ASSUME NEW i \in 1..Len(s), s[i].src = w[n].parent, s[i].todo = None
      PROVE  \/ Awaited(r, w, n)
             \/ s # << >> /\ s[Len(s)].src = w[n].parent /\ s[Len(s)].todo = None
    BY <1>2, <1>3, <1>5 DEF Awaited
<1>6. ASSUME Due(r, w, n) PROVE Awaited(r, w, n)
    BY <1>6 DEF Awaited
<1>7. Awaited(s, w, n) => \/ Awaited(r, w, n)
                          \/ /\ s # << >> /\ s[Len(s)].src = w[n].parent
                             /\ s[Len(s)].todo = None \/ w[n].name \in s[Len(s)].todo
    BY <1>4, <1>5, <1>6 DEF Awaited
<1>8. Entered(s, n) => Entered(r, n) \/ (s # << >> /\ s[Len(s)].src = n)
    BY <1>2, <1>3 DEF Entered
<1>9. Opening(s, n) => \/ Opening(r, n)
                       \/ s # << >> /\ s[Len(s)].src = n /\ s[Len(s)].dst = None
    BY <1>2, <1>3 DEF Opening
<1> QED
    BY <1>4, <1>7, <1>8, <1>9

LEMMA LevelHas ==
    ASSUME NEW r, NEW i \in 1..Len(r), NEW w, NEW n
    PROVE  /\ r[i].src = w[n].parent /\ (r[i].todo = None \/ w[n].name \in r[i].todo) =>
                  Awaited(r, w, n)
           /\ r[i].src = w[n].parent /\ r[i].todo # None /\ w[n].name \in r[i].todo =>
                  Due(r, w, n)
           /\ r[i].src = n => Entered(r, n)
           /\ r[i].src = n /\ r[i].dst = None => Opening(r, n)
BY DEF Awaited, Due, Entered, Opening

LEMMA SettledStays ==
    ASSUME NEW t, NEW u, NEW w, NEW R, NEW S, R \subseteq S, Copied(t) \subseteq Copied(u),
           NEW j \in Nat, NEW k \in Nat, j <= k, NEW n, Settled(t, w, R, j, n)
    PROVE  Settled(u, w, S, k, n)
<1>1. j > 0 => k > 0
    OBVIOUS
<1> QED
    BY <1>1 DEF Settled

LEMMA CoveredStep ==
    ASSUME NEW w \in Trees, NEW t, NEW u, NEW x, Gains(t, u, w, x),
           NEW s, NEW r, Chained(r, w), NEW R, NEW S, R \subseteq S,
           NEW j \in Nat, NEW k \in Nat, j <= k, Covered(t, w, s, R, j),
           \A p \in SourceOf(w) \ S : p \in Copied(u) \/ Entered(r, p) =>
               \/ p \in Copied(t) \/ Entered(s, p)
               \/ \A n \in SourceOf(w) : w[n].parent = p => Awaited(r, w, n) \/ Due(r, w, p),
           \A n \in SourceOf(w) : w[n].parent \notin S =>
               /\ Awaited(s, w, n) =>
                      Awaited(r, w, n) \/ Settled(u, w, S, k, n) \/ Opening(r, n)
               /\ Opening(s, n) => Settled(u, w, S, k, n) \/ Opening(r, n),
           \A p \in SourceOf(w) \ S : w[p].kind = "dir" /\ Due(s, w, p) =>
               Due(r, w, p) \/ \A n \in SourceOf(w) : w[n].parent = p => Awaited(r, w, n)
    PROVE  Covered(u, w, r, S, k)
<1> SUFFICES ASSUME NEW n \in SourceOf(w), NEW p, p = w[n].parent,
                    p \in Copied(u) \/ Entered(r, p), p \notin S
             PROVE  \/ Settled(u, w, S, k, n)
                    \/ Awaited(r, w, n) \/ Opening(r, n) \/ Due(r, w, p)
    BY DEF Covered
<1>1. p \in SourceOf(w)
    <2>1. CASE p \in Copied(u)
        <3>1. PICK c \in Nodes : u[c].linked /\ u[c].copyOf = p
            BY <2>1 DEF Copied
        <3>2. p # None
            BY <2>1, NoneAssumption DEF Copied
        <3> QED
            BY <3>1, <3>2 DEF Gains, Tidy, CopyOf
    <2>2. CASE Entered(r, p)
        BY <2>2 DEF Entered, Chained, Linked
    <2> QED
        BY <2>1, <2>2
<1>2. w[p].kind = "dir"
    BY <1>1, SourceIs
<1>3. p \notin R
    OBVIOUS
<1>4. CASE p \in Copied(t) \/ Entered(s, p)
    <2>1. Settled(t, w, R, j, n) \/ Awaited(s, w, n) \/ Opening(s, n) \/ Due(s, w, p)
        BY <1>3, <1>4 DEF Covered
    <2>2. Settled(t, w, R, j, n) => Settled(u, w, S, k, n)
        BY SettledStays DEF Gains
    <2> QED
        BY <1>1, <1>2, <2>1, <2>2
<1>5. CASE ~(p \in Copied(t) \/ Entered(s, p))
    BY <1>1, <1>5
<1> QED
    BY <1>4, <1>5

LEMMA ClosedStep ==
    ASSUME NEW w \in Trees, NEW t, NEW u, NEW x, Gains(t, u, w, x),
           NEW s, NEW r, NEW R, NEW S, R \subseteq S, NEW left, NEW next,
           AllShut(t, w, s, R, left),
           x \in Copied(u) /\ w[x].kind = "dir" =>
               Shut(u, w, x) \/ x \in S \/ x = next \/ Entered(r, x) \/ Due(r, w, x),
           \A n \in SourceOf(w) :
               w[n].kind = "dir" /\ n # x /\ (n = left \/ Entered(s, n) \/ Due(s, w, n)) =>
                   Shut(u, w, n) \/ n \in S \/ n = next \/ Entered(r, n) \/ Due(r, w, n)
    PROVE  AllShut(u, w, r, S, next)
<1> SUFFICES ASSUME NEW n \in Copied(u), w[n].kind = "dir", n # x
             PROVE  Shut(u, w, n) \/ n \in S \/ n = next \/ Entered(r, n) \/ Due(r, w, n)
    BY DEF AllShut
<1>1. n \in Copied(t) /\ n \in Nodes
    BY DEF Gains, Copied
<1>2. n \in SourceOf(w)
    <2>1. PICK c \in Nodes : u[c].linked /\ u[c].copyOf = n
        BY DEF Copied
    <2>2. n # None
        BY <1>1, NoneAssumption
    <2> QED
        BY <2>1, <2>2 DEF Gains, Tidy, CopyOf
<1>3. Shut(t, w, n) \/ n \in R \/ n = left \/ Entered(s, n) \/ Due(s, w, n)
    BY <1>1 DEF AllShut
<1>4. Shut(t, w, n) => Shut(u, w, n)
    BY <1>1 DEF Gains
<1> QED
    BY <1>2, <1>3, <1>4

-----------------------------------------------------------------------------
(* The levels stay a chain. *)
LEMMA ChainedStays ==
    ASSUME NEW s, NEW r, NEW w, Chained(s, w), Len(s) \in Nat, Len(r) \in Nat, Len(r) <= Len(s),
           \A i \in 1..Len(r) : r[i].src = s[i].src /\ r[i].name = s[i].name
    PROVE  /\ Chained(r, w)
           /\ DirOf(r, Len(r) + 1) = DirOf(s, Len(r) + 1)
<1>1. ASSUME NEW i \in 1..Len(r) PROVE i \in 1..Len(s) /\ DirOf(r, i) = DirOf(s, i)
    <2>1. i # 1 => i - 1 \in 1..Len(r)
        OBVIOUS
    <2> QED
        BY <2>1 DEF DirOf
<1>2. Len(r) + 1 # 1 => Len(r) + 1 - 1 \in 1..Len(r)
    OBVIOUS
<1>3. DirOf(r, Len(r) + 1) = DirOf(s, Len(r) + 1)
    BY <1>2 DEF DirOf
<1> QED
    BY <1>1, <1>3 DEF Chained, Linked

LEMMA ChainedGrows ==
    ASSUME NEW s, NEW r, NEW w, Chained(s, w), Len(s) \in Nat, Len(r) = Len(s) + 1,
           \A i \in 1..Len(s) : r[i].src = s[i].src /\ r[i].name = s[i].name,
           Linked(r[Len(s) + 1], DirOf(s, Len(s) + 1), w)
    PROVE  Chained(r, w)
<1>1. ASSUME NEW i \in 1..(Len(s) + 1) PROVE DirOf(r, i) = DirOf(s, i)
    <2>1. i # 1 => i - 1 \in 1..Len(s)
        OBVIOUS
    <2> QED
        BY <2>1 DEF DirOf
<1>2. ASSUME NEW i \in 1..Len(s) PROVE Linked(r[i], DirOf(r, i), w)
    <2>1. i \in 1..(Len(s) + 1)
        OBVIOUS
    <2> QED
        BY <1>1, <2>1 DEF Chained, Linked
<1>3. Linked(r[Len(s) + 1], DirOf(r, Len(s) + 1), w)
    <2>1. Len(s) + 1 \in 1..(Len(s) + 1)
        OBVIOUS
    <2> QED
        BY <1>1, <2>1
<1>4. ASSUME NEW i \in 1..Len(r) PROVE i \in 1..Len(s) \/ i = Len(s) + 1
    OBVIOUS
<1> QED
    BY <1>2, <1>3, <1>4 DEF Chained

-----------------------------------------------------------------------------
(***************************************************************************)
(* The levels stay the directories they were entered as.                   *)
(***************************************************************************)
LEMMA ListLevels ==
    ASSUME Known, List
    PROVE  /\ Len(stack') = Len(stack) /\ stack' # << >> /\ Len(stack) \in 1..Len(stack)
           /\ Len(stack) \in Nat /\ Len(stack) >= 1 /\ stack # << >>
           /\ \A i \in 1..(Len(stack) - 1) : stack'[i] = stack[i]
           /\ SameDirs(stack'[Len(stack)], Top) /\ stack'[Len(stack)].emptied = Top.emptied
           /\ stack'[Len(stack)].todo = Listing(Top.src)
<1> DEFINE todo == Listing(Top.src)
           f == Listed(Top, todo)
<1>1. stack # << >> /\ Top \in Frames
    BY StandTop DEF Known, List, Walked
<1>2. todo \in (SUBSET Names) \cup {None}
    BY DEF Listing
<1>3. WithTop(f)
    BY DEF List, Listed
<1> HIDE DEF todo
<1>4. f \in Frames
    BY <1>1, <1>2, ListedAlike DEF Alike
<1>5. SameDirs(f, Top) /\ f.todo = todo /\ f.emptied = Top.emptied
    BY <1>1, ListedIs
<1> HIDE DEF f
<1>6. /\ Len(stack') = Len(stack) /\ stack' # << >> /\ stack'[Len(stack)] = f
      /\ \A i \in 1..(Len(stack) - 1) : stack'[i] = stack[i]
      /\ Len(stack) \in Nat /\ Len(stack) >= 1 /\ Len(stack) \in 1..Len(stack)
    BY <1>1, <1>3, <1>4, WithTopLevels
<1> QED
    BY <1>1, <1>5, <1>6 DEF todo

LEMMA CannotListLevels ==
    ASSUME Known, CannotList, pc' # "over"
    PROVE  /\ Len(stack') = Len(stack) /\ stack' # << >> /\ Len(stack) \in 1..Len(stack)
           /\ Len(stack) \in Nat /\ Len(stack) >= 1 /\ stack # << >>
           /\ \A i \in 1..(Len(stack) - 1) : stack'[i] = stack[i]
           /\ SameDirs(stack'[Len(stack)], Top) /\ stack'[Len(stack)].todo = {}
           /\ pc' = "entry" /\ phase' = phase
           /\ reported' = IF Reports THEN reported \cup {Top.src} ELSE reported
<1> DEFINE g == Listed(Top, {})
           f == Marked(g, FALSE)
<1>1. stack # << >> /\ Top \in Frames
    BY StandTop DEF Known, CannotList, Walked
<1>2. /\ WithTop([Top EXCEPT !.todo = {}, !.emptied = FALSE])
      /\ reported' = IF Reports THEN reported \cup {Top.src} ELSE reported
      /\ pc' = "entry" /\ phase' = phase
    BY DEF CannotList, Over
<1>3. [Top EXCEPT !.todo = {}, !.emptied = FALSE] = f
    BY DEF Listed, Marked
<1>4. g \in Frames
    BY <1>1, ListedAlike DEF Alike
<1>5. SameDirs(g, Top) /\ g.todo = {}
    BY <1>1, ListedIs
<1> HIDE DEF g
<1>6. f \in Frames /\ SameDirs(f, g) /\ f.todo = g.todo
    BY <1>4, MarkedAlike, MarkedIs DEF Alike
<1> HIDE DEF f
<1>7. /\ Len(stack') = Len(stack) /\ stack' # << >> /\ stack'[Len(stack)] = f
      /\ \A i \in 1..(Len(stack) - 1) : stack'[i] = stack[i]
      /\ Len(stack) \in Nat /\ Len(stack) >= 1 /\ Len(stack) \in 1..Len(stack)
    BY <1>1, <1>2, <1>3, <1>6, WithTopLevels
<1> QED
    BY <1>1, <1>2, <1>5, <1>6, <1>7 DEF SameDirs

LEMMA OpenDestinationLevels ==
    ASSUME Known, OpenDestination
    PROVE  /\ Len(stack') = Len(stack) /\ stack' # << >> /\ Len(stack) \in 1..Len(stack)
           /\ Len(stack) \in Nat /\ Len(stack) >= 1 /\ stack # << >>
           /\ \A i \in 1..(Len(stack) - 1) : stack'[i] = stack[i]
           /\ LET f == stack'[Len(stack)]
              IN /\ f.src = Top.src /\ f.name = Top.name /\ f.mode = Top.mode
                 /\ f.todo = Top.todo /\ f.dst = Fresh /\ Fresh \in Nodes
<1> DEFINE g == [Top EXCEPT !.dst = Fresh]
<1>1. stack # << >> /\ Top \in Frames
    BY StandTop DEF Known, OpenDestination, Walked
<1>2. WithTop(g) /\ Fresh # None
    BY DEF OpenDestination, Kind
<1>3. Fresh \in Nodes
    BY <1>2, AtIs DEF Fresh
<1>4. /\ g.src = Top.src /\ g.name = Top.name /\ g.mode = Top.mode
      /\ g.todo = Top.todo /\ g.dst = Fresh /\ g \in Frames
    BY <1>1, <1>3 DEF Frames
<1> HIDE DEF g
<1> QED
    BY <1>1, <1>2, <1>3, <1>4, WithTopLevels

LEMMA KeepDirectoryLevels ==
    ASSUME Known, KeepDirectory, pc' # "over"
    PROVE  /\ Len(stack') = Len(stack) /\ stack' # << >> /\ Len(stack) \in 1..Len(stack)
           /\ Len(stack) \in Nat /\ Len(stack) >= 1 /\ stack # << >>
           /\ \A i \in 1..(Len(stack) - 1) : stack'[i] = stack[i]
           /\ SameDirs(stack'[Len(stack)], Top) /\ stack'[Len(stack)].todo = Top.todo
           /\ pc' = "entry"
<1> DEFINE f == Marked(Top, FALSE)
<1>1. stack # << >> /\ WithTop(f) /\ pc' = "entry"
    BY DEF KeepDirectory, Over, Marked
<1>2. Top \in Frames
    BY <1>1, TopSource
<1>3. f \in Frames /\ SameDirs(f, Top) /\ f.todo = Top.todo
    BY <1>2, MarkedAlike, MarkedIs DEF Alike
<1> HIDE DEF f
<1>4. /\ Len(stack') = Len(stack) /\ stack' # << >> /\ stack'[Len(stack)] = f
      /\ \A i \in 1..(Len(stack) - 1) : stack'[i] = stack[i]
      /\ Len(stack) \in Nat /\ Len(stack) >= 1 /\ Len(stack) \in 1..Len(stack)
    BY <1>1, <1>3, WithTopLevels
<1> QED
    BY <1>1, <1>3, <1>4

(* On to the next entry, unless it is the end. *)
Advances == \E gone \in BOOLEAN : Advance(gone)

LEMMA ReportAdvances ==
    ASSUME NEW n, Report(n), pc' # "over"
    PROVE  Reports /\ reported' = reported \cup {n} /\ Advance(FALSE) /\ Advances
BY DEF Report, Over, Advances

LEMMA StepAdvances ==
    ASSUME pc' # "over",
           \/ CopyEntry \/ SkipEntry \/ CannotCopy \/ CannotOpenSource
           \/ Vanished \/ Unlink \/ StepOver
    PROVE  Handling /\ Advances
<1>1. Handling
    BY DEF CopyEntry, SkipEntry, CannotCopy, CannotOpenSource, Vanished, Unlink, StepOver,
           Handling
<1>2. CASE CopyEntry \/ SkipEntry \/ Vanished \/ Unlink
    <2>1. Advance(TRUE)
        BY <1>2 DEF CopyEntry, SkipEntry, Vanished, Unlink
    <2> QED
        BY <1>1, <2>1 DEF Advances
<1>3. CASE CannotCopy \/ CannotOpenSource \/ StepOver
    <2>1. Report(Entry)
        BY <1>3 DEF CannotCopy, CannotOpenSource, StepOver
    <2>2. Advance(FALSE)
        BY <2>1 DEF Report, Over
    <2> QED
        BY <1>1, <2>2 DEF Advances
<1> QED
    BY <1>1, <1>2, <1>3

LEMMA AdvancesChained ==
    ASSUME Known, Handling, Advances, pc' # "over"
    PROVE  Chained(stack', was) /\ pc' = "entry" /\ pc # "root"
<1>1. PICK gone \in BOOLEAN : Advance(gone)
    BY DEF Advances
<1>2. pc # "root"
    BY <1>1 DEF Advance, Over
<1>3. /\ pc' = "entry" /\ stack # << >> /\ Len(stack) \in Nat /\ Len(stack') = Len(stack)
      /\ \A i \in 1..(Len(stack) - 1) : stack'[i] = stack[i]
      /\ SameDirs(stack'[Len(stack)], Top)
    BY <1>1, <1>2, AdvanceLevels
<1>4. \A i \in 1..Len(stack) : stack'[i].src = stack[i].src /\ stack'[i].name = stack[i].name
    <2> TAKE i \in 1..Len(stack)
    <2>1. i = Len(stack) \/ i \in 1..(Len(stack) - 1)
        BY <1>3
    <2> QED
        BY <1>3, <2>1 DEF SameDirs, Top
<1> QED
    BY <1>2, <1>3, <1>4, ChainedStays DEF Known

(* A level is entered through the entry of its name. *)
LEMMA EntryFrame ==
    ASSUME Known, Handling, Kind(Entry) = "dir", NEW mode \in Modes \cup {None}
    PROVE  LET f == Frame(Entry, None, Name, mode)
           IN /\ f \in Frames /\ f.src = Entry /\ f.name = Name /\ f.todo = None
              /\ f.dst = None /\ f.mode = mode /\ f.emptied = TRUE
              /\ Linked(f, Dir, was) /\ Entry \in SourceOf(was) /\ Entry # None
<1>1. Entry # None
    BY DEF Kind
<1>2. /\ Entry \in SourceOf(was) /\ was[Entry].parent = Dir /\ was[Entry].name = Name
      /\ Entry \in Nodes /\ was[Entry].kind = "dir"
    BY <1>1, EntrySource DEF Kind
<1>3. Name \in Names \cup {"s"}
    BY EntryIs DEF Known
<1> QED
    BY <1>1, <1>2, <1>3 DEF Frame, Frames, Linked

LEMMA PushChained ==
    ASSUME Known, Handling, Kind(Entry) = "dir", NEW mode \in Modes \cup {None},
           Push(Frame(Entry, None, Name, mode))
    PROVE  Chained(stack', was)
<1> DEFINE f == Frame(Entry, None, Name, mode)
<1>1. f \in Frames /\ f.src = Entry /\ f.name = Name /\ Linked(f, Dir, was)
    BY EntryFrame
<1>2. Push(f)
    OBVIOUS
<1> HIDE DEF f
<1>3. /\ Len(stack) \in Nat /\ Len(stack') = Len(stack) + 1
      /\ SameLevel(stack'[Len(stack) + 1], f)
      /\ \A i \in 1..(Len(stack) - 1) : SameLevel(stack'[i], stack[i])
      /\ stack # << >> => Len(stack) \in 1..Len(stack) /\ SameDirs(stack'[Len(stack)], Top)
      /\ stack = << >> <=> pc = "root"
    BY <1>1, <1>2, PushLevels
<1>4. ASSUME NEW i \in 1..Len(stack)
      PROVE  stack'[i].src = stack[i].src /\ stack'[i].name = stack[i].name
    <2>1. i = Len(stack) \/ i \in 1..(Len(stack) - 1)
        BY <1>3
    <2>2. stack # << >>
        OBVIOUS
    <2> QED
        BY <1>3, <2>1, <2>2 DEF SameDirs, SameLevel, Top
<1>5. DirOf(stack, Len(stack) + 1) = Dir
    <2>1. CASE stack = << >>
        BY <1>3, <2>1 DEF DirOf, Dir
    <2>2. CASE stack # << >>
        <3>1. Len(stack) + 1 # 1 /\ Len(stack) + 1 - 1 = Len(stack)
            BY <1>3, <2>2
        <3> QED
            BY <1>3, <2>2, <3>1 DEF DirOf, Dir, Top
    <2> QED
        BY <2>1, <2>2
<1>6. Linked(stack'[Len(stack) + 1], DirOf(stack, Len(stack) + 1), was)
    BY <1>1, <1>3, <1>5 DEF Linked, SameLevel
<1> QED
    BY <1>3, <1>4, <1>6, ChainedGrows DEF Known

LEMMA LeaveChained ==
    ASSUME Known, Leave
    PROVE  /\ Chained(stack', was)
           /\ Linked(hand', DirOf(stack', Len(stack') + 1), was)
<1>1. stack # << >> /\ Pop
    BY StandTop DEF Known, Leave, Walked
<1>2. /\ Len(stack) \in Nat /\ Len(stack) >= 1 /\ Len(stack') = Len(stack) - 1
      /\ hand' = Top /\ Len(stack) \in 1..Len(stack)
      /\ \A i \in 1..(Len(stack) - 1) : SameLevel(stack'[i], stack[i])
    BY <1>1, PopLevels
<1>3. PICK n \in Nat : n = Len(stack')
    BY <1>2
<1>4. Len(stack) = n + 1 /\ n <= Len(stack)
    BY <1>2, <1>3
<1>5. \A i \in 1..n : stack'[i].src = stack[i].src /\ stack'[i].name = stack[i].name
    BY <1>2, <1>4 DEF SameLevel
<1>6. Chained(stack', was) /\ DirOf(stack', n + 1) = DirOf(stack, n + 1)
    BY <1>2, <1>3, <1>4, <1>5, ChainedStays DEF Known
<1>7. Linked(stack[n + 1], DirOf(stack, n + 1), was)
    BY <1>2, <1>4 DEF Known, Chained
<1> QED
    BY <1>2, <1>3, <1>4, <1>6, <1>7 DEF Top

LEMMA SingleChained ==
    ASSUME NEW f, NEW w, Linked(f, Base, w)
    PROVE  Chained(<<f>>, w)
<1>1. Len(<<f>>) = 1 /\ <<f>>[1] = f /\ 1..1 = {1}
    OBVIOUS
<1> QED
    BY <1>1 DEF Chained, DirOf

LEMMA EmptyChained == \A w : Chained(<< >>, w)
<1>1. Len(<< >>) = 0 /\ 1..0 = {}
    OBVIOUS
<1> QED
    BY <1>1 DEF Chained

LEMMA TruncateChained ==
    ASSUME Known, stack # << >>, Truncate
    PROVE  Chained(stack', was)
<1>1. /\ Len(stack) \in Nat /\ Len(stack) >= 1 /\ Len(stack') = Len(stack) - 1
      /\ \A i \in 1..(Len(stack) - 1) : stack'[i] = stack[i]
    BY TruncateLevels
<1>2. PICK n \in Nat : n = Len(stack')
    BY <1>1
<1>3. n <= Len(stack) /\ \A i \in 1..n : stack'[i] = stack[i]
    BY <1>1, <1>2
<1> QED
    BY <1>1, <1>2, <1>3, ChainedStays DEF Known

LEMMA BeginTreeLevels ==
    ASSUME Known, BeginTree
    PROVE  \E f : /\ stack' = <<f>> /\ f.src = Source /\ f.name = "s"
                  /\ f.todo = None /\ f.mode = tree[Source].mode
                  /\ f.dst = IF Destination = None THEN New ELSE Destination
BY DEF BeginTree, Frame

LEMMA BeginTreeChained ==
    ASSUME Known, BeginTree
    PROVE  Chained(stack', was)
<1>1. Source # None /\ tree[Source].kind = "dir"
    BY DEF BeginTree, Kind
<1>2. /\ Source \in SourceOf(was) /\ was[Source].parent = Base /\ was[Source].kind = "dir"
      /\ was[Source].name = "s"
    BY <1>1, SourceEnd
<1>3. PICK f : stack' = <<f>> /\ f.src = Source /\ f.name = "s"
    BY BeginTreeLevels
<1>4. Linked(f, Base, was)
    BY <1>2, <1>3 DEF Linked
<1> QED
    BY <1>3, <1>4, SingleChained

LEMMA CountedLevels ==
    ASSUME Known, Counted, stack = << >>
    PROVE  \E f : /\ stack' = <<f>> /\ SameDirs(f, hand) /\ f.todo = None /\ f.emptied = TRUE
                  /\ phase' = "copy" /\ pc' = "entry"
<1> DEFINE g == Listed(hand, None)
           f == Marked(g, TRUE)
<1>1. hand \in Frames
    BY DEF Counted, Known, Stand
<1>2. stack' = <<[hand EXCEPT !.todo = None, !.emptied = TRUE]>> /\ phase' = "copy" /\ pc' = "entry"
    BY DEF Counted
<1>3. [hand EXCEPT !.todo = None, !.emptied = TRUE] = f
    BY DEF Listed, Marked
<1>4. g \in Frames
    BY <1>1, ListedAlike DEF Alike
<1>5. SameDirs(g, hand) /\ g.todo = None
    BY <1>1, ListedIs
<1> HIDE DEF g
<1>6. SameDirs(f, g) /\ f.todo = g.todo /\ f.emptied = TRUE
    BY <1>4, MarkedIs
<1> HIDE DEF f
<1>7. stack' = <<f>> /\ SameDirs(f, hand) /\ f.todo = None
    BY <1>2, <1>3, <1>5, <1>6 DEF SameDirs
<1> QED
    BY <1>2, <1>6, <1>7

LEMMA CountedChained ==
    ASSUME Known, Route, Counted
    PROVE  Chained(stack', was)
<1>1. CASE stack # << >>
    BY <1>1 DEF Counted, Known
<1>2. CASE stack = << >>
    <2>1. Linked(hand, Base, was)
        <3>1. Linked(hand, DirOf(stack, Len(stack) + 1), was)
            BY DEF Route, Known, Counted
        <3>2. Len(stack) = 0
            BY <1>2
        <3> QED
            BY <3>1, <3>2 DEF DirOf
    <2>2. PICK f : stack' = <<f>> /\ SameDirs(f, hand)
        BY <1>2, CountedLevels
    <2>3. Linked(f, Base, was)
        BY <2>1, <2>2 DEF Linked, SameDirs
    <2> QED
        BY <2>2, <2>3, SingleChained
<1> QED
    BY <1>1, <1>2

LEMMA TopChained ==
    ASSUME Known, stack # << >>, Len(stack') = Len(stack),
           \A i \in 1..(Len(stack) - 1) : stack'[i] = stack[i],
           stack'[Len(stack)].src = Top.src, stack'[Len(stack)].name = Top.name
    PROVE  Chained(stack', was)
<1>1. Len(stack) \in Nat /\ Len(stack) >= 1
    BY TopSource
<1>2. \A i \in 1..Len(stack) : stack'[i].src = stack[i].src /\ stack'[i].name = stack[i].name
    <2> TAKE i \in 1..Len(stack)
    <2>1. i = Len(stack) \/ i \in 1..(Len(stack) - 1)
        BY <1>1
    <2> QED
        BY <2>1 DEF Top
<1> QED
    BY <1>1, <1>2, ChainedStays DEF Known

LEMMA StepChained ==
    ASSUME Known, Route, Work, pc' # "over"
    PROVE  Chained(stack', was)
<1>1. Inv /\ Stand /\ Chained(stack, was)
    BY DEF Known
<1>2. CASE Begin \/ CrossDevices \/ CopyOne \/ MakeDirectory
    <2>1. stack' = stack
        BY <1>2 DEF Begin, CrossDevices, CopyOne, MakeDirectory, levels, Over
    <2> QED
        BY <1>1, <2>1
<1>3. CASE SealDirectory \/ RemoveDirectory
    <2>1. stack' = stack
        BY <1>3 DEF SealDirectory, AfterCopy, RemoveDirectory, Over
    <2> QED
        BY <1>1, <2>1
<1>4. CASE List
    BY <1>4, ListLevels, TopChained DEF SameDirs
<1>5. CASE CannotList
    BY <1>5, CannotListLevels, TopChained DEF SameDirs
<1>6. CASE OpenDestination
    BY <1>6, OpenDestinationLevels, TopChained
<1>7. CASE KeepDirectory
    BY <1>7, KeepDirectoryLevels, TopChained DEF SameDirs
<1>8. CASE \/ CopyEntry \/ SkipEntry \/ CannotCopy \/ CannotOpenSource
           \/ Vanished \/ Unlink \/ StepOver
    <2>1. Handling /\ Advances
        BY <1>8, StepAdvances
    <2> QED
        BY <2>1, AdvancesChained
<1>9. CASE Leave
    BY <1>9, LeaveChained
<1>10. CASE BeginTree
    BY <1>10, BeginTreeChained
<1>11. CASE Counted
    BY <1>11, CountedChained
<1>12. CASE CannotOpenDestination
    <2>1. pc = "open_dst" /\ Truncate
        BY <1>12 DEF CannotOpenDestination
    <2>2. stack # << >>
        BY <1>1, <2>1 DEF Inv, Walked
    <2> QED
        BY <2>1, <2>2, TruncateChained
<1>13. CASE OpenSource
    <2>1. Handling /\ Kind(Entry) = "dir" /\ Push(Frame(Entry, None, Name, tree[Entry].mode))
        BY <1>13 DEF OpenSource, Handling
    <2>2. tree[Entry].mode \in Modes
        <3>1. Entry \in Nodes
            BY <2>1, EntryIs, <1>1 DEF Kind
        <3> QED
            BY <3>1, KnownTree, NodeFields
    <2> QED
        BY <2>1, <2>2, PushChained
<1>14. CASE Enter
    <2>1. Handling /\ Kind(Entry) = "dir" /\ Push(Frame(Entry, None, Name, None))
        BY <1>14 DEF Enter, Handling
    <2> QED
        BY <2>1, PushChained
<1>15. CASE Count
    <2>1. Handling
        BY <1>15 DEF Count, Handling
    <2>2. CASE Kind(Entry) = "dir" /\ tree[Entry].mode # Sealed
        <3>1. Push(Frame(Entry, None, Name, None))
            BY <1>15, <2>2 DEF Count
        <3> QED
            BY <2>1, <2>2, <3>1, PushChained
    <2>3. CASE ~(Kind(Entry) = "dir" /\ tree[Entry].mode # Sealed)
        <3>1. Advance(TRUE)
            BY <1>15, <2>3 DEF Count
        <3>2. Advances
            BY <3>1 DEF Advances
        <3> QED
            BY <2>1, <3>2, AdvancesChained
    <2> QED
        BY <2>2, <2>3
<1>16. CASE Refuse \/ Rename \/ CannotRename \/ Gone \/ CannotCopyOne \/ UnlinkSource
            \/ CannotBegin \/ LoseFooting
    BY <1>16 DEF Refuse, Rename, CannotRename, Gone, CannotCopyOne, UnlinkSource,
                 CannotBegin, LoseFooting, Over
<1> QED
    BY <1>2, <1>3, <1>4, <1>5, <1>6, <1>7, <1>8, <1>9, <1>10, <1>11, <1>12, <1>13, <1>14,
       <1>15, <1>16 DEF Work

LEMMA AdvancesTo ==
    ASSUME Advances PROVE pc' \in {"entry", "over"}
BY DEF Advances, Advance, Over

(* Where the steps go. *)
LEMMA StepGoes ==
    ASSUME Known, Work, pc' # "over"
    PROVE  /\ pc' = "leave" => Leave
           /\ pc' # "idle"
           /\ pc' \in {"rename", "begin", "one", "settle"} => Begin \/ CrossDevices \/ CopyOne
           /\ Begin \/ BeginTree \/ Counted \/ SealDirectory \/ phase' = phase
<1>1. CASE Begin \/ CrossDevices \/ CopyOne \/ MakeDirectory \/ BeginTree
    BY <1>1 DEF Begin, CrossDevices, CopyOne, MakeDirectory, BeginTree, Over
<1>2. CASE SealDirectory \/ RemoveDirectory \/ KeepDirectory
    BY <1>2 DEF SealDirectory, AfterCopy, RemoveDirectory, KeepDirectory, Over
<1>3. CASE List \/ CannotList \/ OpenDestination \/ Leave \/ Counted \/ OpenSource
           \/ CannotOpenDestination
    BY <1>3 DEF List, CannotList, OpenDestination, Leave, Counted, OpenSource, Over,
                CannotOpenDestination
<1>4. CASE \/ CopyEntry \/ SkipEntry \/ CannotCopy \/ CannotOpenSource
           \/ Vanished \/ Unlink \/ StepOver
    <2>1. pc' = "entry"
        BY <1>4, StepAdvances, AdvancesTo
    <2>2. phase' = phase
        BY <1>4 DEF CopyEntry, SkipEntry, CannotCopy, CannotOpenSource, Vanished, Unlink,
                    StepOver
    <2> QED
        BY <2>1, <2>2
<1>5. CASE Enter
    BY <1>5 DEF Enter
<1>6. CASE Count
    <2>1. phase' = phase /\ pc \in {"root", "entry"}
        BY <1>6 DEF Count, Walking
    <2>2. pc' = pc \/ Advance(TRUE)
        BY <1>6 DEF Count
    <2>3. pc' \in {"root", "entry"}
        BY <2>1, <2>2 DEF Advance, Over
    <2> QED
        BY <2>1, <2>3
<1>7. CASE Refuse \/ Rename \/ CannotRename \/ Gone \/ CannotCopyOne \/ UnlinkSource
            \/ CannotBegin \/ LoseFooting
    BY <1>7 DEF Refuse, Rename, CannotRename, Gone, CannotCopyOne, UnlinkSource,
                 CannotBegin, LoseFooting, Over
<1> QED
    BY <1>1, <1>2, <1>3, <1>4, <1>5, <1>6, <1>7 DEF Work

LEMMA StepFixed ==
    ASSUME Work PROVE was' = was /\ job' = job /\ changes' = changes
BY DEF Work, Begin, Refuse, Rename, CannotRename, CrossDevices, Gone, CopyOne, CannotCopyOne,
       UnlinkSource, BeginTree, CannotBegin, List, CannotList, Leave, LoseFooting, Count,
       Counted, CopyEntry, SkipEntry, CannotCopy, MakeDirectory, OpenSource,
       CannotOpenSource, OpenDestination, CannotOpenDestination, SealDirectory, Vanished,
       Unlink, Enter, StepOver, RemoveDirectory, KeepDirectory, bounds

LEMMA NextRoute ==
    ASSUME Known, Route, Walks, Work
    PROVE  Route'
<1> SUFFICES ASSUME Calm' PROVE Route'
    BY DEF Route
<1>1. pc' # "over" /\ was' = was
    BY StepFixed DEF Calm
<1>2. Chained(stack', was')
    BY <1>1, StepChained
<1>3. pc' = "leave" => Linked(hand', DirOf(stack', Len(stack') + 1), was')
    BY <1>1, StepGoes, LeaveChained
<1>4. pc' # "idle"
    BY <1>1, StepGoes
<1>5. ASSUME pc' \in {"rename", "begin", "one", "settle"} PROVE phase' = "copy"
    <2>1. CASE Begin
        <3>1. job.cmd # "remove"
            BY <1>5, <2>1 DEF Begin
        <3> QED
            BY <2>1, <3>1 DEF Begin
    <2>2. CASE CrossDevices \/ CopyOne
        <3>1. pc \in {"rename", "one"} /\ phase' = phase
            BY <2>2 DEF CrossDevices, CopyOne
        <3> QED
            BY <3>1 DEF Route, Known
    <2> QED
        BY <1>1, <1>5, <2>1, <2>2, StepGoes
<1> QED
    BY <1>2, <1>3, <1>4, <1>5 DEF Route

LEMMA NextWalks ==
    ASSUME Known, Route, Walks, Work
    PROVE  Walks'
<1> SUFFICES ASSUME Calm' PROVE Walks'
    BY DEF Walks
<1>1. job' = job /\ pc' # "over" /\ Calm
    BY StepFixed DEF Calm, Known
<1>2. CASE Begin
    BY <1>1, <1>2 DEF Begin, Walks
<1>3. CASE BeginTree \/ Counted
    <2>1. phase' # "remove" /\ pc # "idle" /\ phase # "remove"
        BY <1>3 DEF BeginTree, Counted, Route, Known
    <2> QED
        BY <1>1, <2>1 DEF Walks
<1>4. CASE SealDirectory
    <2>1. pc # "idle" /\ phase = "copy" /\ (phase' = phase \/ job.cmd = "move")
        BY <1>4 DEF SealDirectory, AfterCopy
    <2> QED
        BY <1>1, <2>1 DEF Walks
<1>5. CASE phase' = phase /\ ~Begin
    <2>1. pc = "idle" => Begin
        <3>1. pc = "idle" => Begin \/ Refuse
            BY DEF Work, Begin, Refuse, Rename, CannotRename, CrossDevices, Gone, CopyOne,
               CannotCopyOne, UnlinkSource, BeginTree, CannotBegin, List, CannotList, Leave,
               LoseFooting, Count, Counted, CopyEntry, SkipEntry, CannotCopy,
               MakeDirectory, OpenSource, CannotOpenSource, OpenDestination,
               CannotOpenDestination, SealDirectory, Vanished, Unlink, Enter, StepOver,
               RemoveDirectory, KeepDirectory, Walking
        <3> QED
            BY <1>1, <3>1 DEF Refuse, Over
    <2> QED
        BY <1>1, <1>5, <2>1 DEF Walks
<1> QED
    BY <1>1, <1>2, <1>3, <1>4, <1>5, StepGoes

-----------------------------------------------------------------------------
(***************************************************************************)
(* The source is what it was, until it is removed.                         *)
(***************************************************************************)
Fit ==
    /\ Known /\ Route /\ Walks
    /\ phase # "remove" => Intact(tree, was)
    /\ job.cmd # "remove" => CopyInv

LEMMA FitCopies ==
    ASSUME Fit, phase # "remove", pc # "idle"
    PROVE  Copyist /\ job.cmd # "remove"
BY DEF Fit, Copyist, Walks, Known

LEMMA ShrunkOld ==
    ASSUME NEW t, NEW u, NEW w, Shrunk(t, u), OldOnes(t, w)
    PROVE  OldOnes(u, w)
BY DEF Shrunk, OldOnes

LEMMA CrossDevicesAside ==
    ASSUME Known, CrossDevices
    PROVE  /\ Aside(tree, tree') /\ Shrunk(tree, tree')
           /\ \A n \in Nodes : tree'[n].copyOf = tree[n].copyOf
<1>1. tree \in [Nodes -> Inodes] /\ IsTree(tree)
    BY KnownTree
<1>2. CASE tree' = tree
    BY <1>1, <1>2 DEF Aside, Shrunk
<1>3. CASE Kind(Destination) # "none" /\ Kind(Destination) # "dir"
           /\ tree' = [tree EXCEPT ![Destination].linked = FALSE]
    <2> DEFINE d == Destination
    <2>1. d # None
        BY <1>3 DEF Kind
    <2>2. d \in Nodes /\ tree[d].side = "destination" /\ tree[d].kind # "dir"
        BY <1>3, <2>1, DestinationIs DEF Kind
    <2>3. tree' = Unlinks(tree, d)
        BY <1>3 DEF Unlinks
    <2> HIDE DEF d
    <2>4. Shrunk(tree, tree')
        BY <1>1, <2>2, <2>3, LeafUnlinked
    <2>5. \A n \in Nodes \ {d} : tree'[n] = tree[n]
        BY <1>1, <2>2, <2>3 DEF Unlinks
    <2>6. tree'[d].copyOf = tree[d].copyOf /\ tree'[d].side = tree[d].side
        BY <1>1, <2>2, <2>3 DEF Unlinks, Inodes
    <2> QED
        BY <2>2, <2>4, <2>5, <2>6 DEF Aside
<1> QED
    BY <1>2, <1>3 DEF CrossDevices

LEMMA UnlinkShrinks ==
    ASSUME Known, Unlink
    PROVE  Shrunk(tree, tree')
<1>1. TreeSound(tree, within) /\ tree \in [Nodes -> Inodes] /\ IsTree(tree)
    BY DEF Known, Stand, TreeSound
<1>2. Handling /\ Entry # None /\ tree[Entry].kind # "dir" /\ tree' = Without(Entry, Dir)
    BY DEF Unlink, Handling, Kind
<1>3. Entry \in Nodes /\ Dir \in Nodes /\ tree[Entry].linked /\ tree[Entry].parent = Dir
    BY <1>2, EntryIs DEF Known
<1>4. \A m \in Nodes : ~(tree[m].linked /\ tree[m].parent = Entry)
    BY <1>1, <1>2, <1>3, LeafHasNoEntries
<1>5. Entry # Base
    BY <1>1, <1>2, BaseIs
<1> QED
    BY <1>1, <1>2, <1>3, <1>4, <1>5, WithoutShrinks

LEMMA EnterShrinks ==
    ASSUME Known, Enter
    PROVE  Shrunk(tree, tree')
<1>1. tree \in [Nodes -> Inodes]
    BY KnownTree
<1>2. Handling /\ Entry # None
    BY DEF Enter, Handling, Kind
<1>3. Entry \in Nodes
    BY <1>2, EntryIs DEF Known
<1>4. CASE tree' = tree
    BY <1>1, <1>4 DEF Shrunk
<1>5. CASE tree' = [tree EXCEPT ![Entry].mode = Free]
    BY <1>1, <1>3, <1>5, ModeShrinks DEF Modes
<1> QED
    BY <1>4, <1>5 DEF Enter

LEMMA AboveIs ==
    ASSUME Known
    PROVE  Above \in Nodes /\ Above = DirOf(stack, Len(stack) + 1)
<1>1. CASE stack = << >>
    <2>1. Len(stack) = 0
        BY <1>1
    <2> QED
        BY <1>1, <2>1, BaseSide DEF Above, DirOf
<1>2. CASE stack # << >>
    <2>1. Len(stack) \in Nat /\ Len(stack) >= 1 /\ Top.src \in Nodes
        BY <1>2, TopSource
    <2>2. Len(stack) + 1 # 1 /\ Len(stack) + 1 - 1 = Len(stack)
        BY <2>1
    <2> QED
        BY <1>2, <2>1, <2>2 DEF Above, DirOf, Top
<1> QED
    BY <1>1, <1>2

LEMMA RemoveDirectoryShrinks ==
    ASSUME Known, RemoveDirectory
    PROVE  Shrunk(tree, tree')
<1>1. TreeSound(tree, within) /\ IsTree(tree)
    BY DEF Known, Stand, TreeSound
<1>2. Left # None /\ Children(Left) = {} /\ tree' = Without(Left, Above)
    BY DEF RemoveDirectory, Empty, Kind
<1>3. Above \in Nodes
    BY AboveIs
<1>4. Left \in Nodes /\ tree[Left].parent = Above
    BY <1>2, AtIs DEF Left
<1>5. Left # Base
    BY <1>1, <1>3, <1>4, NoneAssumption DEF IsTree
<1>6. \A m \in Nodes : ~(tree[m].linked /\ tree[m].parent = Left)
    BY <1>2 DEF Children
<1> QED
    BY <1>1, <1>2, <1>3, <1>4, <1>5, <1>6, WithoutShrinks

LEMMA StepAside ==
    ASSUME Fit, CrossDevices \/ CopyOne \/ BeginTree \/ CopyEntry \/ CannotCopy
                \/ MakeDirectory \/ OpenDestination \/ SealDirectory
    PROVE  Aside(tree, tree') /\ phase # "remove"
<1>1. Known /\ Route
    BY DEF Fit
<1>2. phase # "remove" /\ pc # "idle"
    <2>1. CASE CrossDevices \/ CopyOne \/ BeginTree
        BY <1>1, <2>1 DEF CrossDevices, CopyOne, BeginTree, Known, Route
    <2>2. CASE CopyEntry \/ CannotCopy \/ MakeDirectory
        BY <2>2 DEF CopyEntry, CannotCopy, MakeDirectory, Walking
    <2>3. CASE OpenDestination
        BY <1>1, <2>3 DEF OpenDestination, Known, Stand, InStep
    <2>4. CASE SealDirectory
        BY <2>4 DEF SealDirectory
    <2> QED
        BY <2>1, <2>2, <2>3, <2>4
<1>3. Copyist
    BY <1>2, FitCopies
<1>4. Base \in Nodes
    BY <1>1, BaseSide
<1>5. Aside(tree, tree')
    BY <1>1, <1>3, <1>4, CrossDevicesAside, CopyOneGains, BeginTreeGains, CopyEntryGains,
       CannotCopyGains, MakeDirectoryGains, OpenDestinationGains, SealDirectoryGains
<1> QED
    BY <1>2, <1>5

LEMMA NextOrigin ==
    ASSUME Fit, Work
    PROVE  Origin'
<1> SUFFICES ASSUME Calm' PROVE Origin'
    BY DEF Origin
<1>1. was' = was /\ pc' # "over"
    BY StepFixed DEF Calm
<1>2. Known /\ Route /\ OldOnes(tree, was) /\ (phase # "remove" => Intact(tree, was))
    BY DEF Fit, Known
<1>3. phase' # "remove" => phase # "remove"
    <2>1. CASE Begin \/ BeginTree \/ Counted \/ SealDirectory
        BY <1>2, <2>1 DEF Begin, BeginTree, Counted, SealDirectory, Route, Known
    <2> QED
        BY <1>1, <1>2, <2>1, StepGoes
<1>4. CASE CrossDevices \/ CopyOne \/ BeginTree \/ CopyEntry \/ CannotCopy
           \/ MakeDirectory \/ OpenDestination \/ SealDirectory
    <2>1. Aside(tree, tree') /\ phase # "remove"
        BY <1>4, StepAside
    <2> QED
        BY <1>1, <1>2, <2>1, AsideKeeps DEF Origin
<1>5. CASE Unlink \/ Enter \/ RemoveDirectory
    <2>1. Shrunk(tree, tree')
        BY <1>2, <1>5, UnlinkShrinks, EnterShrinks, RemoveDirectoryShrinks
    <2>2. phase' = "remove"
        BY <1>5 DEF Unlink, Enter, RemoveDirectory
    <2> QED
        BY <1>1, <1>2, <2>1, <2>2, ShrunkOld DEF Origin
<1>6. CASE tree' = tree
    BY <1>1, <1>2, <1>3, <1>6 DEF Origin
<1>7. \/ CrossDevices \/ CopyOne \/ BeginTree \/ CopyEntry \/ CannotCopy
      \/ MakeDirectory \/ OpenDestination \/ SealDirectory
      \/ Unlink \/ Enter \/ RemoveDirectory \/ tree' = tree
    BY <1>1 DEF Work, Begin, Refuse, Rename, CannotRename, Gone, CannotCopyOne, UnlinkSource,
                CannotBegin, List, CannotList, Leave, LoseFooting, Count, Counted,
                SkipEntry, OpenSource, CannotOpenSource, CannotOpenDestination,
                Vanished, StepOver, KeepDirectory, Over
<1> QED
    BY <1>4, <1>5, <1>6, <1>7

-----------------------------------------------------------------------------
(***************************************************************************)
(* What a step at the top level leaves to do.                              *)
(***************************************************************************)
(* The entries a step at the top takes from it, and the directory of it,   *)
(* are settled, or another level has them.                                 *)
Handed(w, t, u, s, r, S, k) ==
    LET top == s[Len(s)] IN
    /\ \A p \in SourceOf(w) \ S : p \in Copied(u) \/ Entered(r, p) =>
           \/ p \in Copied(t) \/ Entered(s, p)
           \/ \A n \in SourceOf(w) : w[n].parent = p => Awaited(r, w, n) \/ Due(r, w, p)
    /\ top.src \notin S => \A n \in SourceOf(w) :
           w[n].parent = top.src /\ (top.todo = None \/ w[n].name \in top.todo) =>
               Awaited(r, w, n) \/ Settled(u, w, S, k, n) \/ Opening(r, n)
    /\ top.src \notin S /\ top.dst = None => Opening(r, top.src) \/ top.src \in Copied(u)
    /\ \A p \in SourceOf(w) \ S :
           w[p].parent = top.src /\ top.todo # None /\ w[p].name \in top.todo =>
               \/ w[p].kind # "dir" \/ Due(r, w, p)
               \/ /\ Entered(r, p)
                  /\ \A n \in SourceOf(w) : w[n].parent = p => Awaited(r, w, n)

Taken(w, u, x, s, r, S, next) ==
    /\ x \in Copied(u) /\ w[x].kind = "dir" =>
           Shut(u, w, x) \/ x \in S \/ x = next \/ Entered(r, x) \/ Due(r, w, x)
    /\ s[Len(s)].src \in S \/ s[Len(s)].src = next \/ Entered(r, s[Len(s)].src)

LEMMA LevelStep ==
    ASSUME NEW w \in Trees, NEW t, NEW u, NEW x, Gains(t, u, w, x),
           NEW s \in Seq(Frames), NEW r, Chained(r, w), UnderTop(r, s),
           NEW R, NEW S, R \subseteq S, NEW j \in Nat, NEW k \in Nat, j <= k, NEW next,
           Covered(t, w, s, R, j), AllShut(t, w, s, R, None),
           Handed(w, t, u, s, r, S, k), Taken(w, u, x, s, r, S, next)
    PROVE  Covered(u, w, r, S, k) /\ AllShut(u, w, r, S, next)
<1> DEFINE top == s[Len(s)]
<1>0. top = s[Len(s)]
    OBVIOUS
<1>8. /\ \A p \in SourceOf(w) \ S : p \in Copied(u) \/ Entered(r, p) =>
             \/ p \in Copied(t) \/ Entered(s, p)
             \/ \A n \in SourceOf(w) : w[n].parent = p => Awaited(r, w, n) \/ Due(r, w, p)
      /\ top.src \notin S => \A n \in SourceOf(w) :
             w[n].parent = top.src /\ (top.todo = None \/ w[n].name \in top.todo) =>
                 Awaited(r, w, n) \/ Settled(u, w, S, k, n) \/ Opening(r, n)
      /\ top.src \notin S /\ top.dst = None => Opening(r, top.src) \/ top.src \in Copied(u)
      /\ \A p \in SourceOf(w) \ S :
             w[p].parent = top.src /\ top.todo # None /\ w[p].name \in top.todo =>
                 \/ w[p].kind # "dir" \/ Due(r, w, p)
                 \/ /\ Entered(r, p)
                    /\ \A n \in SourceOf(w) : w[n].parent = p => Awaited(r, w, n)
    BY DEF Handed
<1>9. /\ x \in Copied(u) /\ w[x].kind = "dir" =>
             Shut(u, w, x) \/ x \in S \/ x = next \/ Entered(r, x) \/ Due(r, w, x)
      /\ top.src \in S \/ top.src = next \/ Entered(r, top.src)
    BY DEF Taken
<1> HIDE DEF top
<1>1. \A n \in SourceOf(w) : n # None /\ n \in Nodes
    BY SourceIs, NoneAssumption
<1>2. \A n : /\ Awaited(s, w, n) => \/ Awaited(r, w, n)
                                    \/ /\ top.src = w[n].parent
                                       /\ top.todo = None \/ w[n].name \in top.todo
             /\ Due(s, w, n) => \/ Due(r, w, n)
                                \/ /\ top.src = w[n].parent
                                   /\ top.todo # None /\ w[n].name \in top.todo
             /\ Entered(s, n) => Entered(r, n) \/ top.src = n
             /\ Opening(s, n) => Opening(r, n) \/ (top.src = n /\ top.dst = None)
    BY <1>0, StillToCome
<1>3. ASSUME NEW n \in SourceOf(w), w[n].parent \notin S
      PROVE  /\ Awaited(s, w, n) =>
                    Awaited(r, w, n) \/ Settled(u, w, S, k, n) \/ Opening(r, n)
             /\ Opening(s, n) => Settled(u, w, S, k, n) \/ Opening(r, n)
    BY <1>8, <1>2, <1>3 DEF Settled
<1>4. ASSUME NEW p \in SourceOf(w) \ S, w[p].kind = "dir", Due(s, w, p)
      PROVE  \/ Due(r, w, p)
             \/ Entered(r, p) /\ \A n \in SourceOf(w) : w[n].parent = p => Awaited(r, w, n)
    BY <1>8, <1>2, <1>4
<1>5. Covered(u, w, r, S, k)
    BY <1>8, <1>3, <1>4, CoveredStep
<1>6. ASSUME NEW n \in SourceOf(w), w[n].kind = "dir", n # x,
             n = None \/ Entered(s, n) \/ Due(s, w, n)
      PROVE  Shut(u, w, n) \/ n \in S \/ n = next \/ Entered(r, n) \/ Due(r, w, n)
    <2>1. CASE Due(s, w, n) /\ n \notin S
        BY <1>4, <1>6, <2>1
    <2>2. CASE Entered(s, n)
        BY <1>9, <1>2, <2>2
    <2> QED
        BY <1>1, <1>6, <2>1, <2>2
<1>7. AllShut(u, w, r, S, next)
    BY <1>9, <1>6, ClosedStep
<1> QED
    BY <1>5, <1>7

(* The levels are as many, and of the same directories. *)
AsMany(r, s) ==
    /\ Len(r) = Len(s) /\ \A i \in 1..(Len(s) - 1) : SameLevel(r[i], s[i])
    /\ r[Len(s)].src = s[Len(s)].src

LEMMA AsManyIs ==
    ASSUME NEW s \in Seq(Frames), s # << >>, NEW r, AsMany(r, s)
    PROVE  /\ UnderTop(r, s) /\ \A p : Entered(r, p) <=> Entered(s, p)
           /\ Len(s) \in 1..Len(r) /\ Entered(r, s[Len(s)].src)
           /\ r[Len(s)].dst = None => Opening(r, s[Len(s)].src)
<1>1. Len(s) \in Nat /\ Len(s) \in 1..Len(s) /\ Len(r) = Len(s)
    BY DEF AsMany
<1>2. \A i \in 1..Len(s) : r[i].src = s[i].src
    <2> TAKE i \in 1..Len(s)
    <2>1. i = Len(s) \/ i \in 1..(Len(s) - 1)
        BY <1>1
    <2> QED
        BY <2>1 DEF AsMany, SameLevel
<1>3. \A i \in 1..(Len(s) - 1) : i \in 1..Len(r)
    BY <1>1
<1>4. UnderTop(r, s)
    BY <1>3 DEF UnderTop, AsMany
<1>5. \A p : Entered(r, p) <=> Entered(s, p)
    BY <1>1, <1>2 DEF Entered
<1>6. Entered(r, s[Len(s)].src) /\ (r[Len(s)].dst = None => Opening(r, s[Len(s)].src))
    BY <1>1, <1>2 DEF Entered, Opening
<1> QED
    BY <1>1, <1>4, <1>5, <1>6

(* What was copied, and one more. *)
LEMMA MoreCopied ==
    ASSUME NEW t, NEW u, NEW w, NEW x, Gains(t, u, w, x), NEW s, NEW r, NEW p,
           \A q : Entered(r, q) => Entered(s, q), p \in Copied(u) \/ Entered(r, p)
    PROVE  p \in Copied(t) \/ Entered(s, p) \/ (p = x /\ x \in Copied(u))
BY DEF Gains

LEMMA LeafIsNoParent ==
    ASSUME NEW w \in Trees, NEW n \in SourceOf(w), NEW p \in SourceOf(w), w[n].parent = p
    PROVE  w[p].kind = "dir"
BY SourceIs

(* On to the next entry: this one is settled, or there is none. *)
Onward(w, u, s, r, name, S, k) ==
    /\ s # << >> /\ AsMany(r, s)
    /\ s[Len(s)].todo # None /\ r[Len(s)].dst = s[Len(s)].dst
    /\ r[Len(s)].todo = s[Len(s)].todo \ {name}
    /\ \A n \in SourceOf(w) : w[n].parent = s[Len(s)].src /\ w[n].name = name =>
           Settled(u, w, S, k, n) /\ (w[n].kind = "dir" => n \in S)

LEMMA AdvanceCovers ==
    ASSUME NEW w \in Trees, NEW t, NEW u, NEW x, Gains(t, u, w, x),
           x \in Copied(u) => w[x].kind # "dir",
           NEW s \in Seq(Frames), NEW r, Chained(r, w), NEW name,
           NEW R, NEW S, R \subseteq S, NEW j \in Nat, NEW k \in Nat, j <= k,
           Covered(t, w, s, R, j), AllShut(t, w, s, R, None), Onward(w, u, s, r, name, S, k)
    PROVE  Covered(u, w, r, S, k) /\ AllShut(u, w, r, S, None)
<1>0. /\ s # << >> /\ AsMany(r, s)
      /\ s[Len(s)].todo # None /\ r[Len(s)].dst = s[Len(s)].dst
      /\ r[Len(s)].todo = s[Len(s)].todo \ {name}
      /\ \A n \in SourceOf(w) : w[n].parent = s[Len(s)].src /\ w[n].name = name =>
             Settled(u, w, S, k, n) /\ (w[n].kind = "dir" => n \in S)
    BY DEF Onward
<1> DEFINE top == s[Len(s)]
<1>1. /\ UnderTop(r, s) /\ \A p : Entered(r, p) <=> Entered(s, p)
      /\ Len(s) \in 1..Len(r) /\ Entered(r, top.src) /\ r[Len(s)].src = top.src
      /\ top.dst = None => Opening(r, top.src)
    BY <1>0, AsManyIs DEF AsMany
<1>2. top.todo \ {name} # None
    <2>1. top \in Frames
        BY <1>0 DEF AsMany
    <2>2. top.todo \in SUBSET Names
        BY <1>0, <2>1 DEF Frames
    <2>3. top.todo \ {name} \in SUBSET Names
        BY <2>2
    <2> QED
        BY <2>3, NoneAssumption
<1> HIDE DEF top
<1>3. top = s[Len(s)]
    BY DEF top
<1>4. ASSUME NEW n \in SourceOf(w), w[n].parent = top.src, w[n].name \in top.todo
      PROVE  Due(r, w, n) \/ (Settled(u, w, S, k, n) /\ (w[n].kind = "dir" => n \in S))
    <2>1. CASE w[n].name = name
        BY <1>0, <1>3, <1>4, <2>1
    <2>2. CASE w[n].name # name
        <3>1. r[Len(s)].todo = top.todo \ {name} /\ w[n].name \in top.todo \ {name}
            BY <1>0, <1>3, <1>4, <2>2
        <3> QED
            BY <1>1, <1>2, <1>4, <3>1, LevelHas
    <2> QED
        BY <2>1, <2>2
<1>5. ASSUME NEW p \in SourceOf(w) \ S, p \in Copied(u) \/ Entered(r, p)
      PROVE  \/ p \in Copied(t) \/ Entered(s, p)
             \/ \A n \in SourceOf(w) : w[n].parent = p => Awaited(r, w, n) \/ Due(r, w, p)
    BY <1>1, <1>5, MoreCopied, LeafIsNoParent
<1>6. \A n : Due(r, w, n) => Awaited(r, w, n)
    BY DEF Awaited
<1>7. top.todo # None
    BY <1>0, <1>3
<1>8. \A n \in SourceOf(w) :
          w[n].parent = top.src /\ (top.todo = None \/ w[n].name \in top.todo) =>
              Awaited(r, w, n) \/ Settled(u, w, S, k, n) \/ Opening(r, n)
    BY <1>4, <1>6, <1>7
<1>9. \A p \in SourceOf(w) \ S :
          w[p].parent = top.src /\ top.todo # None /\ w[p].name \in top.todo =>
              w[p].kind # "dir" \/ Due(r, w, p)
    BY <1>4
<1>10. Handed(w, t, u, s, r, S, k)
    BY <1>0, <1>1, <1>3, <1>5, <1>8, <1>9 DEF Handed
<1>11. Taken(w, u, x, s, r, S, None)
    BY <1>1, <1>3 DEF Taken
<1> QED
    BY <1>1, <1>10, <1>11, LevelStep

(* Of a directory that is listed, all its entries are still to come. *)
LEMMA ListCovers ==
    ASSUME NEW w \in Trees, NEW t, Tidy(t, w),
           NEW s \in Seq(Frames), s # << >>, NEW r, Chained(r, w), AsMany(r, s),
           s[Len(s)].todo = None, r[Len(s)].dst = s[Len(s)].dst,
           NEW R, NEW S, R \subseteq S, NEW j \in Nat,
           Covered(t, w, s, R, j), AllShut(t, w, s, R, None),
           \/ s[Len(s)].src \in S
           \/ \A n \in SourceOf(w) : w[n].parent = s[Len(s)].src => w[n].name \in r[Len(s)].todo
    PROVE  Covered(t, w, r, S, j) /\ AllShut(t, w, r, S, None)
<1> DEFINE top == s[Len(s)]
<1>1. /\ UnderTop(r, s) /\ \A p : Entered(r, p) <=> Entered(s, p)
      /\ Len(s) \in 1..Len(r) /\ Entered(r, top.src) /\ r[Len(s)].src = top.src
      /\ top.dst = None => Opening(r, top.src)
    BY AsManyIs DEF AsMany
<1> HIDE DEF top
<1>2. top = s[Len(s)] /\ top.todo = None
    BY DEF top
<1>3. PICK x : x \notin Copied(t)
    BY NoneAssumption DEF Copied
<1>4. Gains(t, t, w, x)
    BY GainsNothing
<1>5. ASSUME top.src \notin S, NEW n \in SourceOf(w), w[n].parent = top.src
      PROVE  Awaited(r, w, n)
    <2>1. w[n].name \in r[Len(s)].todo
        BY <1>2, <1>5
    <2> QED
        BY <1>1, <1>5, <2>1, LevelHas
<1>6. ASSUME NEW p \in SourceOf(w) \ S, p \in Copied(t) \/ Entered(r, p)
      PROVE  \/ p \in Copied(t) \/ Entered(s, p)
             \/ \A n \in SourceOf(w) : w[n].parent = p => Awaited(r, w, n) \/ Due(r, w, p)
    BY <1>1, <1>6
<1>7. j <= j
    OBVIOUS
<1>8. top.src \notin S => \A n \in SourceOf(w) :
          w[n].parent = top.src /\ (top.todo = None \/ w[n].name \in top.todo) =>
              Awaited(r, w, n) \/ Settled(t, w, S, j, n) \/ Opening(r, n)
    BY <1>5
<1>9. \A p \in SourceOf(w) \ S :
          ~(w[p].parent = top.src /\ top.todo # None /\ w[p].name \in top.todo)
    BY <1>2
<1>10. Handed(w, t, t, s, r, S, j)
    BY <1>1, <1>2, <1>6, <1>8, <1>9 DEF Handed
<1>11. Taken(w, t, x, s, r, S, None)
    BY <1>1, <1>2, <1>3 DEF Taken
<1> QED
    BY ONLY <1>1, <1>4, <1>7, <1>10, <1>11, LevelStep, w \in Trees, s \in Seq(Frames), Chained(r, w),
       R \subseteq S, j \in Nat, Covered(t, w, s, R, j), AllShut(t, w, s, R, None)

(* The directory of the copy is made before its own is entered ... *)
LEMMA MakeCovers ==
    ASSUME NEW w \in Trees, NEW t, NEW u, NEW x, Gains(t, u, w, x),
           NEW s \in Seq(Frames), s # << >>, x \in SourceOf(w), Due(s, w, x), Chained(s, w),
           NEW R, NEW j \in Nat, Covered(t, w, s, R, j), AllShut(t, w, s, R, None)
    PROVE  Covered(u, w, s, R, j) /\ AllShut(u, w, s, R, None)
<1> DEFINE top == s[Len(s)]
<1>1. AsMany(s, s)
    BY DEF AsMany, SameLevel
<1>2. /\ UnderTop(s, s) /\ Len(s) \in 1..Len(s) /\ Entered(s, top.src)
      /\ top.dst = None => Opening(s, top.src)
    BY <1>1, AsManyIs
<1> HIDE DEF top
<1>3. top = s[Len(s)]
    BY DEF top
<1>4. ASSUME NEW p \in SourceOf(w) \ R, p \in Copied(u) \/ Entered(s, p)
      PROVE  \/ p \in Copied(t) \/ Entered(s, p)
             \/ \A n \in SourceOf(w) : w[n].parent = p => Awaited(s, w, n) \/ Due(s, w, p)
    BY <1>4, MoreCopied
<1>5. \A n : w[n].parent = top.src /\ (top.todo = None \/ w[n].name \in top.todo) =>
          Awaited(s, w, n)
    BY <1>2, <1>3, LevelHas
<1>6. \A n : w[n].parent = top.src /\ top.todo # None /\ w[n].name \in top.todo => Due(s, w, n)
    BY <1>2, <1>3, LevelHas
<1>7. j <= j /\ R \subseteq R
    OBVIOUS
<1>8. \A n \in SourceOf(w) :
          w[n].parent = top.src /\ (top.todo = None \/ w[n].name \in top.todo) =>
              Awaited(s, w, n) \/ Settled(u, w, R, j, n) \/ Opening(s, n)
    BY <1>5
<1>9. \A p \in SourceOf(w) \ R :
          w[p].parent = top.src /\ top.todo # None /\ w[p].name \in top.todo =>
              w[p].kind # "dir" \/ Due(s, w, p)
    BY <1>6
<1>10. Handed(w, t, u, s, s, R, j)
    BY <1>2, <1>3, <1>4, <1>8, <1>9 DEF Handed
<1>11. Taken(w, u, x, s, s, R, None)
    BY <1>2, <1>3 DEF Taken
<1> QED
    BY <1>2, <1>7, <1>10, <1>11, LevelStep

(* ... and opened after it. *)
LEMMA OpenCovers ==
    ASSUME NEW w \in Trees, NEW t, NEW u, NEW s \in Seq(Frames), s # << >>,
           Gains(t, u, w, s[Len(s)].src), s[Len(s)].src \in Copied(u),
           NEW r, Chained(r, w), AsMany(r, s), r[Len(s)].todo = s[Len(s)].todo,
           NEW R, NEW j \in Nat, Covered(t, w, s, R, j), AllShut(t, w, s, R, None)
    PROVE  Covered(u, w, r, R, j) /\ AllShut(u, w, r, R, None)
<1> DEFINE top == s[Len(s)]
<1>1. /\ UnderTop(r, s) /\ \A p : Entered(r, p) <=> Entered(s, p)
      /\ Len(s) \in 1..Len(r) /\ Entered(r, top.src) /\ r[Len(s)].src = top.src
    BY AsManyIs DEF AsMany
<1> HIDE DEF top
<1>2. top = s[Len(s)] /\ r[Len(s)].todo = top.todo
    BY DEF top
<1>3. ASSUME NEW p \in SourceOf(w) \ R, p \in Copied(u) \/ Entered(r, p)
      PROVE  p \in Copied(t) \/ Entered(s, p)
    <2>1. p \in Copied(t) \/ Entered(s, p) \/ p = top.src
        BY <1>1, <1>2, <1>3, MoreCopied
    <2> QED
        BY <1>1, <2>1
<1>4. \A n : w[n].parent = top.src /\ (top.todo = None \/ w[n].name \in top.todo) =>
          Awaited(r, w, n)
    BY <1>1, <1>2, LevelHas
<1>5. \A n : w[n].parent = top.src /\ top.todo # None /\ w[n].name \in top.todo => Due(r, w, n)
    BY <1>1, <1>2, LevelHas
<1>6. j <= j /\ R \subseteq R
    OBVIOUS
<1>7. Gains(t, u, w, top.src) /\ top.src \in Copied(u)
    BY <1>2
<1>8. \A n \in SourceOf(w) :
          w[n].parent = top.src /\ (top.todo = None \/ w[n].name \in top.todo) =>
              Awaited(r, w, n) \/ Settled(u, w, R, j, n) \/ Opening(r, n)
    BY <1>4
<1>9. \A p \in SourceOf(w) \ R :
          w[p].parent = top.src /\ top.todo # None /\ w[p].name \in top.todo =>
              w[p].kind # "dir" \/ Due(r, w, p)
    BY <1>5
<1>10. Handed(w, t, u, s, r, R, j)
    BY <1>2, <1>3, <1>7, <1>8, <1>9 DEF Handed
<1>11. Taken(w, u, top.src, s, r, R, None)
    BY <1>1, <1>2 DEF Taken
<1> QED
    BY <1>1, <1>6, <1>7, <1>10, <1>11, LevelStep

(* A directory is entered: its own entries are to come. *)
LEMMA PushCovers ==
    ASSUME NEW w \in Trees, NEW t, Tidy(t, w),
           NEW s \in Seq(Frames), s # << >>, NEW r, Chained(r, w), UnderTop(r, s),
           Len(r) = Len(s) + 1, NEW e \in SourceOf(w), NEW name,
           w[e].parent = s[Len(s)].src, w[e].name = name,
           r[Len(s)].src = s[Len(s)].src, r[Len(s)].dst = s[Len(s)].dst,
           s[Len(s)].todo # None, r[Len(s)].todo = s[Len(s)].todo \ {name},
           r[Len(r)].src = e, r[Len(r)].dst = None, r[Len(r)].todo = None,
           NEW R, NEW j \in Nat, Covered(t, w, s, R, j), AllShut(t, w, s, R, None)
    PROVE  Covered(t, w, r, R, j) /\ AllShut(t, w, r, R, None)
<1> DEFINE top == s[Len(s)]
<1>1. Len(s) \in Nat /\ Len(s) >= 1 /\ Len(s) \in 1..Len(r) /\ Len(r) \in 1..Len(r)
    OBVIOUS
<1>2. top.todo \ {name} # None /\ top \in Frames
    <2>1. top \in Frames
        BY <1>1
    <2>2. top.todo \in SUBSET Names
        BY <2>1 DEF Frames
    <2>3. top.todo \ {name} \in SUBSET Names
        BY <2>2
    <2> QED
        BY <2>1, <2>3, NoneAssumption
<1> HIDE DEF top
<1>3. top = s[Len(s)] /\ top.todo # None /\ r[Len(s)].todo = top.todo \ {name}
    BY DEF top
<1>4. /\ Entered(r, top.src) /\ Entered(r, e) /\ Opening(r, e)
      /\ top.dst = None => Opening(r, top.src)
      /\ \A n : w[n].parent = e => Awaited(r, w, n)
    BY <1>1, <1>3, LevelHas
<1>5. PICK x : x \notin Copied(t)
    BY NoneAssumption DEF Copied
<1>6. Gains(t, t, w, x)
    BY GainsNothing
<1>7. ASSUME NEW n \in SourceOf(w), w[n].parent = top.src, w[n].name \in top.todo
      PROVE  Due(r, w, n) \/ n = e
    <2>1. CASE w[n].name = name
        BY <1>3, <1>7, <2>1, SourceUnique
    <2>2. CASE w[n].name # name
        <3>1. w[n].name \in top.todo \ {name}
            BY <1>7, <2>2
        <3> QED
            BY <1>1, <1>2, <1>3, <1>7, <3>1, LevelHas
    <2> QED
        BY <2>1, <2>2
<1>8. ASSUME NEW p, Entered(r, p) PROVE Entered(s, p) \/ p = e
    <2>1. PICK i \in 1..Len(r) : r[i].src = p
        BY <1>8 DEF Entered
    <2>2. i = Len(r) \/ i = Len(s) \/ i \in 1..(Len(s) - 1)
        BY <1>1
    <2>3. i \in 1..(Len(s) - 1) => i \in 1..Len(s) /\ r[i].src = s[i].src
        BY <1>1 DEF UnderTop, SameLevel
    <2>4. Len(s) \in 1..Len(s)
        BY <1>1
    <2> QED
        BY <1>3, <2>1, <2>2, <2>3, <2>4 DEF Entered
<1>9. \A n : Due(r, w, n) => Awaited(r, w, n)
    BY DEF Awaited
<1>10. \A p \in SourceOf(w) \ R : p \in Copied(t) \/ Entered(r, p) =>
           \/ p \in Copied(t) \/ Entered(s, p)
           \/ \A n \in SourceOf(w) : w[n].parent = p => Awaited(r, w, n) \/ Due(r, w, p)
    BY <1>4, <1>8
<1>11. \A n \in SourceOf(w) :
           w[n].parent = top.src /\ (top.todo = None \/ w[n].name \in top.todo) =>
               Awaited(r, w, n) \/ Settled(t, w, R, j, n) \/ Opening(r, n)
    BY <1>3, <1>4, <1>7, <1>9
<1>12. \A p \in SourceOf(w) \ R :
           w[p].parent = top.src /\ top.todo # None /\ w[p].name \in top.todo =>
               \/ w[p].kind # "dir" \/ Due(r, w, p)
               \/ /\ Entered(r, p)
                  /\ \A n \in SourceOf(w) : w[n].parent = p => Awaited(r, w, n)
    BY <1>4, <1>7
<1>13. Handed(w, t, t, s, r, R, j)
    BY <1>3, <1>4, <1>10, <1>11, <1>12 DEF Handed
<1>14. Taken(w, t, x, s, r, R, None)
    BY <1>3, <1>4, <1>5 DEF Taken
<1>15. j <= j /\ R \subseteq R
    OBVIOUS
<1> QED
    BY ONLY <1>6, <1>13, <1>14, <1>15, LevelStep, w \in Trees, s \in Seq(Frames),
       Chained(r, w), UnderTop(r, s), j \in Nat,
       Covered(t, w, s, R, j), AllShut(t, w, s, R, None)

(* A level is left with nothing to do in it, or dropped and told of. *)
Done(s, S, next) ==
    \/ s[Len(s)].src \in S /\ s[Len(s)].todo = None
    \/ s[Len(s)].src = next /\ s[Len(s)].todo = {} /\ s[Len(s)].dst # None

LEMMA DropCovers ==
    ASSUME NEW w \in Trees, NEW t, Tidy(t, w),
           NEW s \in Seq(Frames), s # << >>, NEW r, Chained(r, w), UnderTop(r, s),
           Len(r) = Len(s) - 1, NEW R, NEW S, R \subseteq S, NEW next, Done(s, S, next),
           NEW j \in Nat, Covered(t, w, s, R, j), AllShut(t, w, s, R, None)
    PROVE  Covered(t, w, r, S, j) /\ AllShut(t, w, r, S, next)
<1> DEFINE top == s[Len(s)]
<1>1. Len(s) \in Nat /\ Len(s) >= 1
    OBVIOUS
<1> HIDE DEF top
<1>2. top = s[Len(s)]
    BY DEF top
<1>3. PICK x : x \notin Copied(t)
    BY NoneAssumption DEF Copied
<1>4. Gains(t, t, w, x)
    BY GainsNothing
<1>5. ASSUME NEW p, Entered(r, p) PROVE Entered(s, p)
    <2>1. PICK i \in 1..Len(r) : r[i].src = p
        BY <1>5 DEF Entered
    <2>2. i \in 1..(Len(s) - 1) /\ i \in 1..Len(s)
        BY <1>1
    <2> QED
        BY <2>1, <2>2 DEF Entered, UnderTop, SameLevel
<1>6. \A p \in SourceOf(w) \ S : p \in Copied(t) \/ Entered(r, p) =>
          \/ p \in Copied(t) \/ Entered(s, p)
          \/ \A n \in SourceOf(w) : w[n].parent = p => Awaited(r, w, n) \/ Due(r, w, p)
    BY <1>5
<1>7. None # {}
    <2>1. {} \in SUBSET Names
        OBVIOUS
    <2> QED
        BY <2>1, NoneAssumption
<1>8. Handed(w, t, t, s, r, S, j)
    BY <1>2, <1>6, <1>7 DEF Handed, Done
<1>9. Taken(w, t, x, s, r, S, next)
    BY <1>3 DEF Taken, Done
<1>10. j <= j
    OBVIOUS
<1> QED
    BY ONLY <1>4, <1>8, <1>9, <1>10, LevelStep, w \in Trees, s \in Seq(Frames),
       Chained(r, w), UnderTop(r, s), R \subseteq S, j \in Nat,
       Covered(t, w, s, R, j), AllShut(t, w, s, R, None)

(* A directory gets its mode when it has been left. *)
LEMMA SealCovers ==
    ASSUME NEW w \in Trees, NEW t, NEW u, NEW x, Gains(t, u, w, x), x \in Copied(t),
           Shut(u, w, x), NEW s, Chained(s, w), NEW R, NEW j \in Nat,
           Covered(t, w, s, R, j), AllShut(t, w, s, R, x)
    PROVE  Covered(u, w, s, R, j) /\ AllShut(u, w, s, R, None)
<1>1. R \subseteq R /\ j <= j
    OBVIOUS
<1>2. \A p : p \in Copied(u) \/ Entered(s, p) => p \in Copied(t) \/ Entered(s, p)
    BY DEF Gains
<1>3. Covered(u, w, s, R, j)
    <2> SUFFICES ASSUME NEW n \in SourceOf(w), NEW p, p = w[n].parent,
                        p \in Copied(u) \/ Entered(s, p), p \notin R
                 PROVE  \/ Settled(u, w, R, j, n)
                        \/ Awaited(s, w, n) \/ Opening(s, n) \/ Due(s, w, p)
        BY DEF Covered
    <2>1. Settled(t, w, R, j, n) \/ Awaited(s, w, n) \/ Opening(s, n) \/ Due(s, w, p)
        BY <1>2 DEF Covered
    <2>2. Settled(t, w, R, j, n) => Settled(u, w, R, j, n)
        BY <1>1, SettledStays DEF Gains
    <2> QED
        BY <2>1, <2>2
<1>4. ASSUME NEW n \in SourceOf(w), w[n].kind = "dir", n # x,
             n = x \/ Entered(s, n) \/ Due(s, w, n)
      PROVE  Shut(u, w, n) \/ n \in R \/ n = None \/ Entered(s, n) \/ Due(s, w, n)
    BY <1>4
<1>5. AllShut(u, w, s, R, None)
    BY <1>1, <1>4, ClosedStep
<1> QED
    BY <1>3, <1>5

-----------------------------------------------------------------------------
(***************************************************************************)
(* Every step of a copy keeps what is known of it.                         *)
(***************************************************************************)
LEMMA SettledTwins ==
    ASSUME Copyist, NEW x, Gains(tree, tree', was, x)
    PROVE  /\ \A i \in 1..Len(stack) : Twin(stack[i], tree', was)
           /\ pc = "leave" => Twin(hand, tree', was)
<1>1. Stand /\ CopyInv /\ within \subseteq Nodes
    BY KnownTree DEF Copyist, Known
<1>2. ASSUME NEW f, Placed(f, tree, within), Twin(f, tree, was)
      PROVE  Twin(f, tree', was)
    <2>1. f.src # None
        BY <1>1, <1>2, NoneAssumption DEF Placed
    <2> QED
        BY <1>1, <1>2, <2>1 DEF Twin, Placed, Gains
<1> QED
    BY <1>1, <1>2 DEF CopyInv, Stand, Standing

LEMMA TwinsStay ==
    ASSUME NEW s, NEW u, NEW w, \A i \in 1..Len(s) : Twin(s[i], u, w),
           NEW r, \A i \in 1..Len(r) : i \in 1..Len(s) /\ SameDirs(r[i], s[i])
    PROVE  \A i \in 1..Len(r) : Twin(r[i], u, w)
BY DEF Twin, SameDirs

LEMMA CopyOn ==
    ASSUME Copyist, was' = was, pc \notin Before, pc' \notin Before,
           phase = "copy", phase' = "copy", NEW x, Gains(tree, tree', was, x),
           \A i \in 1..Len(stack') : Twin(stack'[i], tree', was),
           pc' = "leave" => Twin(hand', tree', was) /\ hand'.todo = {},
           pc' = "open_dst" =>
               /\ stack'[Len(stack')].mode = was[stack'[Len(stack')].src].mode
               /\ stack'[Len(stack')].todo = None,
           NEW next, next = IF pc' = "leave" THEN hand'.src ELSE None,
           Covered(tree', was, stack', reported', skipped'),
           AllShut(tree', was, stack', reported', next)
    PROVE  CopyInv'
<1>1. \A n \in SourceOf(was) : was[n].parent = Base => n \in Copied(tree')
    BY DEF Copyist, CopyInv, Gains
<1>2. Tidy(tree', was)
    BY DEF Gains
<1>3. AllShut(tree', was', stack', reported', LeftDir')
    BY DEF LeftDir
<1> QED
    BY <1>1, <1>2, <1>3 DEF CopyInv

LEMMA HandlingIs ==
    ASSUME Copyist, Handling, phase = "copy"
    PROVE  /\ pc \in {"entry", "open_src"} /\ pc \notin Before /\ pc # "leave" /\ pc # "root"
           /\ stack \in Seq(Frames) /\ stack # << >> /\ was \in Trees
           /\ skipped \in Nat /\ Top.todo # None /\ Name \in Top.todo /\ Dir = Top.src
           /\ Chained(stack, was)
           /\ Covered(tree, was, stack, reported, skipped)
           /\ AllShut(tree, was, stack, reported, None)
<1>1. Known /\ Inv /\ Stand /\ CopyInv /\ Counts
    BY DEF Copyist, Known
<1>2. pc # "root"
    BY <1>1 DEF Inv
<1>3. pc \in {"entry", "open_src"}
    BY <1>2 DEF Handling, Walking
<1>4. stack # << >> /\ stack \in Seq(Frames)
    BY <1>1, <1>3 DEF Inv, Walked, Stand, Standing
<1>5. Top.todo \notin {None, {}}
    <2>1. CASE pc = "open_src"
        BY <1>1, <2>1 DEF Stand, InStep, Top
    <2>2. CASE pc = "entry"
        BY <2>2 DEF Handling, Walking
    <2> QED
        BY <1>3, <2>1, <2>2
<1>6. Name \in Top.todo
    BY <1>1, <1>2, EntryIs
<1>7. LeftDir = None
    BY <1>3 DEF LeftDir
<1> QED
    BY <1>1, <1>2, <1>3, <1>4, <1>5, <1>6, <1>7 DEF CopyInv, Before, Known, Counts, Dir

LEMMA AdvanceCopies ==
    ASSUME Copyist, Handling, phase = "copy", phase' = "copy", was' = was, pc' # "over",
           Advances, NEW x, Gains(tree, tree', was, x),
           x \in Copied(tree') => was[x].kind # "dir",
           reported \subseteq reported', skipped' \in Nat, skipped <= skipped',
           Entry # None => /\ Settled(tree', was, reported', skipped', Entry)
                           /\ was[Entry].kind = "dir" => Entry \in reported'
    PROVE  CopyInv'
<1>1. Known /\ Intact(tree, was)
    BY DEF Copyist
<1>2. /\ pc \notin Before /\ pc # "root"
      /\ stack \in Seq(Frames) /\ stack # << >> /\ was \in Trees
      /\ skipped \in Nat /\ Top.todo # None
      /\ Covered(tree, was, stack, reported, skipped)
      /\ AllShut(tree, was, stack, reported, None)
    BY HandlingIs
<1>3. PICK gone \in BOOLEAN : Advance(gone)
    BY DEF Advances
<1>4. /\ pc' = "entry"
      /\ Len(stack) \in Nat /\ Len(stack) >= 1 /\ Len(stack) \in 1..Len(stack)
      /\ Len(stack') = Len(stack)
      /\ \A i \in 1..(Len(stack) - 1) : stack'[i] = stack[i]
      /\ SameDirs(stack'[Len(stack)], stack[Len(stack)])
      /\ stack'[Len(stack)].todo = stack[Len(stack)].todo \ {Name}
    BY <1>1, <1>2, <1>3, AdvanceLevels DEF Top
<1>5. Chained(stack', was)
    BY <1>1, AdvancesChained
<1>6. AsMany(stack', stack)
    BY <1>4 DEF AsMany, SameLevel, SameDirs
<1>7. stack'[Len(stack)].dst = stack[Len(stack)].dst /\ stack[Len(stack)].todo # None
    BY <1>2, <1>4 DEF SameDirs, Top
<1>8. \A n \in SourceOf(was) : was[n].parent = stack[Len(stack)].src /\ was[n].name = Name =>
          /\ Settled(tree', was, reported', skipped', n)
          /\ was[n].kind = "dir" => n \in reported'
    <2> SUFFICES ASSUME NEW n \in SourceOf(was), was[n].parent = Top.src, was[n].name = Name
                 PROVE  /\ Settled(tree', was, reported', skipped', n)
                        /\ was[n].kind = "dir" => n \in reported'
        BY DEF Top
    <2>1. n = Entry
        BY <1>1, <1>2, EntryFor
    <2>2. n # None
        BY <1>2, SourceIs, NoneAssumption
    <2> QED
        BY <2>1, <2>2
<1>9. /\ Covered(tree', was, stack', reported', skipped')
      /\ AllShut(tree', was, stack', reported', None)
    <2>1. Onward(was, tree', stack, stack', Name, reported', skipped')
        BY <1>2, <1>6, <1>7, <1>4, <1>8 DEF Onward
    <2> QED
        BY <1>2, <1>5, <2>1, AdvanceCovers
<1>10. \A i \in 1..Len(stack') : i \in 1..Len(stack) /\ SameDirs(stack'[i], stack[i])
    <2> TAKE i \in 1..Len(stack')
    <2>1. i \in 1..Len(stack) /\ (i = Len(stack) \/ i \in 1..(Len(stack) - 1))
        BY <1>4
    <2> QED
        BY <1>4, <2>1 DEF SameDirs
<1>11. \A i \in 1..Len(stack') : Twin(stack'[i], tree', was)
    BY <1>10, SettledTwins, TwinsStay
<1>12. pc' \notin Before /\ pc' # "leave" /\ pc' # "open_dst"
    BY <1>4 DEF Before
<1> QED
    BY <1>2, <1>9, <1>11, <1>12, CopyOn

LEMMA NeverCopied ==
    ASSUME NEW w \in Trees, NEW u, Tidy(u, w)
    PROVE  Base \notin Copied(u)
<1>1. Base \notin SourceOf(w) /\ Base # None
    BY SourceIs, TreesAssumption, NoneAssumption
<1> QED
    BY <1>1 DEF Copied, Tidy, CopyOf

LEMMA CopyEntryCopies ==
    ASSUME Copyist, CopyEntry, pc' # "over", was' = was
    PROVE  CopyInv'
<1>1. /\ Gains(tree, tree', was, Entry) /\ Entry \in Copied(tree')
      /\ was[Entry].kind # "dir"
    BY CopyEntryGains
<1>2. Handling /\ Advances
    BY StepAdvances
<1>3. phase = "copy" /\ phase' = "copy" /\ reported' = reported /\ skipped' = skipped
    BY DEF CopyEntry, told
<1>4. skipped' \in Nat /\ skipped <= skipped'
    BY <1>2, <1>3, HandlingIs
<1>5. Settled(tree', was, reported', skipped', Entry)
    BY <1>1 DEF Settled
<1> QED
    BY <1>1, <1>2, <1>3, <1>4, <1>5, AdvanceCopies

LEMMA SkipEntryCopies ==
    ASSUME Copyist, SkipEntry, pc' # "over", was' = was
    PROVE  CopyInv'
<1>1. Handling /\ Advances
    BY StepAdvances
<1>2. /\ phase = "copy" /\ phase' = "copy" /\ reported' = reported
      /\ skipped' = skipped + 1 /\ tree' = tree /\ Kind(Entry) = "special"
    BY DEF SkipEntry
<1>3. skipped \in Nat /\ was \in Trees /\ pc # "root"
    BY <1>1, <1>2, HandlingIs
<1>4. skipped' \in Nat /\ skipped <= skipped' /\ skipped' > 0
    BY <1>2, <1>3
<1>5. Known /\ Tidy(tree, was)
    BY CopyistTree
<1>6. Gains(tree, tree', was, Base) /\ Base \notin Copied(tree')
    BY <1>2, <1>3, <1>5, GainsNothing, NeverCopied
<1>7. Entry # None => was[Entry].kind = "special"
    BY <1>1, <1>2, <1>5, EntrySource DEF Kind
<1>8. Entry # None => Settled(tree', was, reported', skipped', Entry) /\ was[Entry].kind # "dir"
    BY <1>4, <1>7 DEF Settled
<1> QED
    BY <1>1, <1>2, <1>4, <1>6, <1>8, AdvanceCopies

LEMMA ReportCopies ==
    ASSUME Copyist, Handling, phase = "copy", phase' = "copy", was' = was, pc' # "over",
           Report(Entry), Gains(tree, tree', was, Base), skipped' = skipped
    PROVE  CopyInv'
<1>1. reported' = reported \cup {Entry} /\ Advances
    BY ReportAdvances
<1>2. skipped \in Nat /\ was \in Trees
    BY HandlingIs
<1>3. skipped' \in Nat /\ skipped <= skipped'
    BY <1>2
<1>4. Base \notin Copied(tree')
    BY <1>2, NeverCopied DEF Gains
<1>5. reported \subseteq reported' /\ Entry \in reported'
    BY <1>1
<1>6. Settled(tree', was, reported', skipped', Entry)
    BY <1>5 DEF Settled
<1> QED
    BY <1>1, <1>3, <1>4, <1>5, <1>6, AdvanceCopies

LEMMA CannotCopyCopies ==
    ASSUME Copyist, CannotCopy, pc' # "over", was' = was
    PROVE  CopyInv'
<1>1. Handling /\ phase = "copy" /\ phase' = "copy" /\ Report(Entry) /\ skipped' = skipped
    BY DEF CannotCopy, Handling
<1>2. Base \in Nodes
    BY TreesAssumption
<1>3. Gains(tree, tree', was, Base)
    BY <1>2, CannotCopyGains
<1> QED
    BY <1>1, <1>3, ReportCopies

LEMMA CannotOpenSourceCopies ==
    ASSUME Copyist, CannotOpenSource, pc' # "over", was' = was
    PROVE  CopyInv'
<1>1. pc = "open_src" /\ Handling /\ phase' = phase /\ Report(Entry) /\ skipped' = skipped
      /\ tree' = tree
    BY DEF CannotOpenSource, Handling
<1>2. phase = "copy"
    BY <1>1 DEF Copyist, Known, Stand, InStep
<1>3. Gains(tree, tree', was, Base)
    BY <1>1, CopyistTree, GainsNothing
<1> QED
    BY <1>1, <1>2, <1>3, ReportCopies

LEMMA MakeDirectoryCopies ==
    ASSUME Copyist, MakeDirectory, was' = was
    PROVE  CopyInv'
<1>1. Gains(tree, tree', was, Entry) /\ Entry \in SourceOf(was)
    BY MakeDirectoryGains
<1>2. /\ Handling /\ phase = "copy" /\ phase' = "copy" /\ stack' = stack
      /\ reported' = reported /\ skipped' = skipped /\ pc' = "open_src" /\ Entry # None
    BY DEF MakeDirectory, Handling, levels, told, Kind
<1>3. /\ pc \notin Before /\ pc # "root" /\ stack \in Seq(Frames) /\ stack # << >>
      /\ was \in Trees /\ skipped \in Nat /\ Top.todo # None /\ Name \in Top.todo
      /\ Dir = Top.src /\ Chained(stack, was)
      /\ Covered(tree, was, stack, reported, skipped)
      /\ AllShut(tree, was, stack, reported, None)
    BY <1>2, HandlingIs
<1>4. was[Entry].parent = Dir /\ was[Entry].name = Name
    BY <1>2, EntrySource DEF Copyist
<1>5. Due(stack, was, Entry)
    <2>1. Len(stack) \in 1..Len(stack)
        BY <1>3
    <2> QED
        BY <1>3, <1>4, <2>1 DEF Due, Top
<1>6. /\ Covered(tree', was, stack, reported, skipped)
      /\ AllShut(tree', was, stack, reported, None)
    BY <1>1, <1>3, <1>5, MakeCovers
<1>7. \A i \in 1..Len(stack) : Twin(stack[i], tree', was)
    BY <1>1, SettledTwins
<1>8. pc' \notin Before /\ pc' # "leave" /\ pc' # "open_dst"
    BY <1>2 DEF Before
<1> QED
    BY <1>1, <1>2, <1>3, <1>6, <1>7, <1>8, CopyOn

LEMMA OpenSourceCopies ==
    ASSUME Copyist, OpenSource, was' = was
    PROVE  CopyInv'
<1> DEFINE f == Frame(Entry, None, Name, tree[Entry].mode)
<1>1. /\ Handling /\ pc = "open_src" /\ phase' = phase /\ Push(f) /\ tree' = tree
      /\ reported' = reported /\ skipped' = skipped /\ pc' = "open_dst"
      /\ Kind(Entry) = "dir" /\ Entry # None
    BY DEF OpenSource, Handling, told, Kind
<1>2. phase = "copy" /\ Known /\ Intact(tree, was) /\ Tidy(tree, was)
    BY <1>1, CopyistTree DEF Copyist, Known, Stand, InStep
<1>3. /\ pc \notin Before /\ pc # "root" /\ stack \in Seq(Frames) /\ stack # << >>
      /\ was \in Trees /\ skipped \in Nat /\ Top.todo # None /\ Dir = Top.src
      /\ Covered(tree, was, stack, reported, skipped)
      /\ AllShut(tree, was, stack, reported, None)
    BY <1>1, <1>2, HandlingIs
<1>4. /\ was[Entry].parent = Dir /\ was[Entry].name = Name
      /\ Entry \in SourceOf(was) /\ Entry \in Nodes
    BY <1>1, <1>2, EntrySource
<1>5. tree[Entry].mode = was[Entry].mode /\ tree[Entry].mode \in Modes
    <2>1. was[Entry].linked /\ was[Entry].side = "source"
        BY <1>3, <1>4, SourceIs, SourceSide
    <2> QED
        BY <1>2, <1>4, <2>1, KnownTree, NodeFields DEF Intact
<1>6. /\ f \in Frames /\ f.src = Entry /\ f.todo = None
      /\ f.dst = None /\ f.mode = tree[Entry].mode
    BY <1>1, <1>2, <1>5, EntryFrame
<1>7. Chained(stack', was)
    BY <1>1, <1>2, <1>5, PushChained
<1> HIDE DEF f
<1>8. /\ Len(stack) \in Nat /\ Len(stack') = Len(stack) + 1 /\ stack' # << >>
      /\ SameLevel(stack'[Len(stack) + 1], f)
      /\ \A i \in 1..(Len(stack) - 1) : SameLevel(stack'[i], stack[i])
      /\ Len(stack) \in 1..Len(stack)
      /\ SameDirs(stack'[Len(stack)], stack[Len(stack)])
      /\ stack'[Len(stack)].todo = stack[Len(stack)].todo \ {Name}
    BY <1>1, <1>2, <1>3, <1>6, PushLevels DEF Top
<1>9. UnderTop(stack', stack)
    <2>1. \A i \in 1..(Len(stack) - 1) : i \in 1..Len(stack')
        BY <1>8
    <2> QED
        BY <1>8, <2>1 DEF UnderTop
<1>10. /\ stack'[Len(stack')].src = Entry /\ stack'[Len(stack')].dst = None
       /\ stack'[Len(stack')].todo = None /\ stack'[Len(stack')].mode = was[Entry].mode
    BY <1>5, <1>6, <1>8 DEF SameLevel
<1>11. /\ was[Entry].parent = stack[Len(stack)].src /\ stack[Len(stack)].todo # None
       /\ stack'[Len(stack)].src = stack[Len(stack)].src
       /\ stack'[Len(stack)].dst = stack[Len(stack)].dst
    BY <1>3, <1>4, <1>8 DEF Top, SameDirs
<1>12. /\ Covered(tree, was, stack', reported, skipped)
       /\ AllShut(tree, was, stack', reported, None)
    BY <1>2, <1>3, <1>4, <1>7, <1>8, <1>9, <1>10, <1>11, PushCovers
<1>13. Gains(tree, tree', was, Base)
    BY <1>1, <1>2, GainsNothing
<1>14. \A i \in 1..Len(stack') : Twin(stack'[i], tree', was)
    <2> TAKE i \in 1..Len(stack')
    <2>1. i = Len(stack') \/ i = Len(stack) \/ i \in 1..(Len(stack) - 1)
        BY <1>8
    <2>2. i # Len(stack') => i \in 1..Len(stack) /\ Twin(stack[i], tree', was)
        BY <1>8, <1>13, <2>1, SettledTwins
    <2> QED
        BY <1>8, <1>10, <2>1, <2>2 DEF Twin, SameLevel, SameDirs
<1>15. pc' \notin Before /\ pc' # "leave"
    BY <1>1 DEF Before
<1> QED
    BY <1>1, <1>2, <1>3, <1>10, <1>12, <1>13, <1>14, <1>15, CopyOn

(* In the copy, while it is at a level or is opening one. *)
LEMMA CopyingIs ==
    ASSUME Copyist, phase = "copy", pc \in {"entry", "open_dst", "leave"}
    PROVE  /\ Known /\ Intact(tree, was) /\ Tidy(tree, was) /\ pc \notin Before
           /\ stack \in Seq(Frames) /\ was \in Trees /\ skipped \in Nat /\ Chained(stack, was)
           /\ Covered(tree, was, stack, reported, skipped)
           /\ pc # "leave" => AllShut(tree, was, stack, reported, None) /\ stack # << >>
           /\ pc = "leave" => AllShut(tree, was, stack, reported, hand.src)
<1>1. Known /\ Inv /\ Stand /\ CopyInv /\ Counts /\ Intact(tree, was)
    BY DEF Copyist, Known
<1>2. LeftDir = IF pc = "leave" THEN hand.src ELSE None
    BY DEF LeftDir
<1>3. pc \notin Before
    BY DEF Before
<1> QED
    BY <1>1, <1>2, <1>3 DEF CopyInv, Inv, Walked, Stand, Standing, Counts, Known

LEMMA TopTwins ==
    ASSUME Copyist, NEW x, Gains(tree, tree', was, x), stack \in Seq(Frames), stack # << >>,
           Len(stack') = Len(stack), \A i \in 1..(Len(stack) - 1) : stack'[i] = stack[i],
           \/ SameDirs(stack'[Len(stack)], stack[Len(stack)])
           \/ Twin(stack'[Len(stack)], tree', was)
    PROVE  \A i \in 1..Len(stack') : Twin(stack'[i], tree', was)
<1> TAKE i \in 1..Len(stack')
<1>1. Len(stack) \in Nat
    OBVIOUS
<1>2. i \in 1..Len(stack) /\ (i = Len(stack) \/ i \in 1..(Len(stack) - 1))
    BY <1>1
<1>3. Twin(stack[i], tree', was)
    BY <1>2, SettledTwins
<1> QED
    BY <1>2, <1>3 DEF Twin, SameDirs

LEMMA OpenDestinationCopies ==
    ASSUME Copyist, OpenDestination, was' = was
    PROVE  CopyInv'
<1>1. /\ Gains(tree, tree', was, Top.src) /\ Top.src \in Copied(tree')
      /\ tree'[Fresh].copyOf = Top.src
    BY OpenDestinationGains
<1>2. /\ pc = "open_dst" /\ phase' = phase /\ pc' = "entry"
      /\ reported' = reported /\ skipped' = skipped
    BY DEF OpenDestination, told
<1>3. phase = "copy" /\ CopyInv
    BY <1>2 DEF Copyist, Known, Stand, InStep
<1>4. /\ Known /\ pc \notin Before
      /\ stack \in Seq(Frames) /\ was \in Trees /\ skipped \in Nat /\ stack # << >>
      /\ Covered(tree, was, stack, reported, skipped)
      /\ AllShut(tree, was, stack, reported, None)
    BY <1>2, <1>3, CopyingIs
<1>5. Top.mode = was[Top.src].mode
    BY <1>2, <1>3 DEF CopyInv, Top
<1>6. /\ Len(stack') = Len(stack) /\ Len(stack) \in 1..Len(stack)
      /\ \A i \in 1..(Len(stack) - 1) : stack'[i] = stack[i]
      /\ stack'[Len(stack)].src = Top.src /\ stack'[Len(stack)].name = Top.name
      /\ stack'[Len(stack)].mode = Top.mode
      /\ stack'[Len(stack)].todo = Top.todo /\ stack'[Len(stack)].dst = Fresh
    BY <1>4, OpenDestinationLevels
<1>7. Chained(stack', was)
    BY <1>4, <1>6, TopChained
<1>8. AsMany(stack', stack)
    BY <1>6 DEF AsMany, SameLevel, Top
<1>9. Twin(stack'[Len(stack)], tree', was)
    BY <1>1, <1>5, <1>6 DEF Twin
<1>10. \A i \in 1..Len(stack') : Twin(stack'[i], tree', was)
    BY <1>1, <1>4, <1>6, <1>9, TopTwins
<1>11. /\ Gains(tree, tree', was, stack[Len(stack)].src)
       /\ stack[Len(stack)].src \in Copied(tree')
       /\ stack'[Len(stack)].todo = stack[Len(stack)].todo
    BY <1>1, <1>6 DEF Top
<1>12. /\ Covered(tree', was, stack', reported, skipped)
       /\ AllShut(tree', was, stack', reported, None)
    BY <1>4, <1>7, <1>8, <1>11, OpenCovers
<1>13. pc' \notin Before /\ pc' # "leave" /\ pc' # "open_dst"
    BY <1>2 DEF Before
<1> QED
    BY <1>1, <1>2, <1>3, <1>4, <1>10, <1>12, <1>13, CopyOn

LEMMA LessTwins ==
    ASSUME Copyist, NEW x, Gains(tree, tree', was, x), stack \in Seq(Frames), stack # << >>,
           Len(stack') = Len(stack) - 1,
           \A i \in 1..(Len(stack) - 1) : SameLevel(stack'[i], stack[i])
    PROVE  /\ \A i \in 1..Len(stack') : Twin(stack'[i], tree', was)
           /\ UnderTop(stack', stack) /\ Twin(Top, tree', was)
<1>1. Len(stack) \in Nat /\ Len(stack) >= 1 /\ Len(stack) \in 1..Len(stack)
    OBVIOUS
<1>2. \A i \in 1..(Len(stack) - 1) : i \in 1..Len(stack')
    BY <1>1
<1>3. ASSUME NEW i \in 1..Len(stack') PROVE Twin(stack'[i], tree', was)
    <2>1. i \in 1..Len(stack) /\ i \in 1..(Len(stack) - 1)
        BY <1>1
    <2>2. Twin(stack[i], tree', was)
        BY <2>1, SettledTwins
    <2> QED
        BY <2>1, <2>2 DEF Twin, SameLevel
<1>4. Twin(stack[Len(stack)], tree', was)
    BY <1>1, SettledTwins
<1> QED
    BY <1>2, <1>3, <1>4 DEF UnderTop, Top

LEMMA CannotOpenDestinationCopies ==
    ASSUME Copyist, CannotOpenDestination, was' = was
    PROVE  CopyInv'
<1>1. /\ pc = "open_dst" /\ phase' = phase /\ pc' = "entry" /\ tree' = tree /\ Truncate
      /\ reported' = reported \cup {Top.src} /\ skipped' = skipped
    BY DEF CannotOpenDestination
<1>2. phase = "copy" /\ CopyInv
    BY <1>1 DEF Copyist, Known, Stand, InStep
<1>3. /\ Known /\ pc \notin Before /\ Tidy(tree, was)
      /\ stack \in Seq(Frames) /\ was \in Trees /\ skipped \in Nat /\ stack # << >>
      /\ Covered(tree, was, stack, reported, skipped)
      /\ AllShut(tree, was, stack, reported, None)
    BY <1>1, <1>2, CopyingIs
<1>4. Done(stack, reported', None)
    BY <1>1, <1>2 DEF CopyInv, Top, Done
<1>5. /\ Len(stack') = Len(stack) - 1
      /\ \A i \in 1..(Len(stack) - 1) : SameLevel(stack'[i], stack[i])
    BY <1>1, <1>3, TruncateLevels DEF SameLevel
<1>6. Chained(stack', was)
    BY <1>1, <1>3, TruncateChained
<1>7. Gains(tree, tree', was, Base)
    BY <1>1, <1>3, GainsNothing
<1>8. (\A i \in 1..Len(stack') : Twin(stack'[i], tree', was)) /\ UnderTop(stack', stack)
    BY <1>3, <1>5, <1>7, LessTwins
<1>9. reported \subseteq reported'
    BY <1>1
<1>10. /\ Covered(tree, was, stack', reported', skipped)
       /\ AllShut(tree, was, stack', reported', None)
    BY <1>3, <1>4, <1>5, <1>6, <1>8, <1>9, DropCovers
<1>11. pc' \notin Before /\ pc' # "leave" /\ pc' # "open_dst"
    BY <1>1 DEF Before
<1> QED
    BY <1>1, <1>2, <1>3, <1>7, <1>8, <1>10, <1>11, CopyOn

LEMMA CopyLeaves ==
    ASSUME Copyist, Leave, phase = "copy", was' = was
    PROVE  CopyInv'
<1>1. /\ pc = "entry" /\ phase' = phase /\ pc' = "leave" /\ tree' = tree /\ Pop
      /\ Top.todo = {} /\ reported' = reported /\ skipped' = skipped
    BY DEF Leave, told
<1>2. /\ Known /\ pc \notin Before /\ Tidy(tree, was)
      /\ stack \in Seq(Frames) /\ was \in Trees /\ skipped \in Nat /\ stack # << >>
      /\ Covered(tree, was, stack, reported, skipped)
      /\ AllShut(tree, was, stack, reported, None)
    BY <1>1, CopyingIs
<1>3. Top.dst # None
    <2>1. Len(stack) \in 1..Len(stack)
        BY <1>2
    <2> QED
        BY <1>1, <2>1 DEF Copyist, Known, Stand, InStep, Paired, Top
<1>4. /\ Len(stack') = Len(stack) - 1 /\ hand' = Top
      /\ \A i \in 1..(Len(stack) - 1) : SameLevel(stack'[i], stack[i])
    BY <1>1, <1>2, PopLevels
<1>5. Chained(stack', was)
    BY <1>2, LeaveChained
<1>6. Gains(tree, tree', was, Base)
    BY <1>1, <1>2, GainsNothing
<1>7. /\ (\A i \in 1..Len(stack') : Twin(stack'[i], tree', was)) /\ UnderTop(stack', stack)
      /\ Twin(hand', tree', was) /\ hand'.todo = {}
    BY <1>1, <1>2, <1>4, <1>6, LessTwins
<1>8. Done(stack, reported, hand'.src) /\ reported \subseteq reported
    BY <1>1, <1>3, <1>4 DEF Top, Done
<1>9. /\ Covered(tree, was, stack', reported, skipped)
      /\ AllShut(tree, was, stack', reported, hand'.src)
    BY <1>2, <1>4, <1>5, <1>7, <1>8, DropCovers
<1>10. pc' \notin Before /\ pc' # "open_dst"
    BY <1>1 DEF Before
<1> QED
    BY <1>1, <1>2, <1>6, <1>7, <1>9, <1>10, CopyOn

LEMMA ListedAll ==
    ASSUME Copyist, phase = "copy", stack # << >>, NEW n \in SourceOf(was),
           was[n].parent = Top.src
    PROVE  was[n].name \in Listing(Top.src)
<1>1. Known /\ Intact(tree, was) /\ was \in Trees
    BY DEF Copyist, Known, Counts
<1>2. was[n].parent # Base
    BY <1>1, TopSource
<1>3. n \in Nodes /\ was[n].name \in Names /\ was[n].linked /\ was[n].side = "source"
    BY <1>1, <1>2, SourceIs, SourceSide
<1>4. tree[n] = was[n]
    BY <1>1, <1>3 DEF Intact
<1>5. At(Top.src, was[n].name) # None
    BY <1>3, <1>4, AtIs
<1> QED
    BY <1>3, <1>5 DEF Listing

LEMMA CopyLists ==
    ASSUME Copyist, phase = "copy", phase' = "copy", was' = was, tree' = tree, pc = "entry",
           pc' = "entry", Top.todo = None, skipped' = skipped, reported \subseteq reported',
           Len(stack') = Len(stack), \A i \in 1..(Len(stack) - 1) : stack'[i] = stack[i],
           SameDirs(stack'[Len(stack)], Top),
           \/ Top.src \in reported'
           \/ stack'[Len(stack)].todo = Listing(Top.src)
    PROVE  CopyInv'
<1>1. /\ Known /\ pc \notin Before /\ Tidy(tree, was)
      /\ stack \in Seq(Frames) /\ was \in Trees /\ skipped \in Nat /\ stack # << >>
      /\ Covered(tree, was, stack, reported, skipped)
      /\ AllShut(tree, was, stack, reported, None)
    BY CopyingIs
<1>2. SameDirs(stack'[Len(stack)], stack[Len(stack)]) /\ stack[Len(stack)].todo = None
    BY DEF Top
<1>3. Chained(stack', was)
    BY <1>1, TopChained DEF SameDirs
<1>4. AsMany(stack', stack) /\ stack'[Len(stack)].dst = stack[Len(stack)].dst
    BY <1>2 DEF AsMany, SameLevel, SameDirs
<1>5. Gains(tree, tree', was, Base)
    BY <1>1, GainsNothing
<1>6. \A i \in 1..Len(stack') : Twin(stack'[i], tree', was)
    BY <1>1, <1>2, <1>5, TopTwins
<1>7. \/ stack[Len(stack)].src \in reported'
      \/ \A n \in SourceOf(was) :
             was[n].parent = stack[Len(stack)].src => was[n].name \in stack'[Len(stack)].todo
    BY <1>1, ListedAll DEF Top
<1>8. /\ Covered(tree, was, stack', reported', skipped)
      /\ AllShut(tree, was, stack', reported', None)
    BY <1>1, <1>2, <1>3, <1>4, <1>7, ListCovers
<1>9. pc' \notin Before /\ pc' # "leave" /\ pc' # "open_dst"
    BY DEF Before
<1> QED
    BY <1>1, <1>5, <1>6, <1>8, <1>9, CopyOn

(* The count leaves everything alone. *)
LEMMA CountOn ==
    ASSUME Copyist, was' = was, phase = "count", phase' = "count", tree' = tree,
           pc \notin Before, pc' \notin Before, pc' # "open_dst", reported' = reported,
           \A i \in 1..Len(stack') : Twin(stack'[i], tree', was),
           pc' = "leave" => Twin(hand', tree', was) /\ hand'.todo = {}
    PROVE  CopyInv'
<1>1. CopyInv
    BY DEF Copyist
<1> QED
    BY <1>1 DEF CopyInv

LEMMA ListCopies ==
    ASSUME Copyist, List, phase # "remove", was' = was
    PROVE  CopyInv'
<1>1. /\ pc = "entry" /\ pc' = "entry" /\ Top.todo = None /\ phase' = phase /\ tree' = tree
      /\ reported' = reported /\ skipped' = skipped /\ Known
    BY DEF List, told, Copyist
<1>2. /\ Len(stack') = Len(stack) /\ stack # << >>
      /\ \A i \in 1..(Len(stack) - 1) : stack'[i] = stack[i]
      /\ SameDirs(stack'[Len(stack)], Top)
      /\ stack'[Len(stack)].todo = Listing(Top.src)
    BY <1>1, ListLevels
<1>3. CASE phase = "copy"
    BY <1>1, <1>2, <1>3, CopyLists
<1>4. CASE phase = "count"
    <2>1. Gains(tree, tree', was, Base) /\ stack \in Seq(Frames)
        BY <1>1, CopyistTree, GainsNothing DEF Stand, Standing
    <2>2. \A i \in 1..Len(stack') : Twin(stack'[i], tree', was)
        BY <1>2, <2>1, TopTwins DEF Top
    <2> QED
        BY <1>1, <1>4, <2>2, CountOn DEF Before
<1> QED
    BY <1>1, <1>3, <1>4 DEF Known, Counts

LEMMA CannotListCopies ==
    ASSUME Copyist, CannotList, phase # "remove", pc' # "over", was' = was
    PROVE  CopyInv'
<1>1. /\ pc = "entry" /\ Top.todo = None /\ tree' = tree
      /\ skipped' = skipped /\ Known
    BY DEF CannotList, Copyist
<1>2. /\ Len(stack') = Len(stack) /\ stack # << >>
      /\ \A i \in 1..(Len(stack) - 1) : stack'[i] = stack[i]
      /\ SameDirs(stack'[Len(stack)], Top)
      /\ pc' = "entry" /\ phase' = phase
      /\ reported' = IF Reports THEN reported \cup {Top.src} ELSE reported
    BY <1>1, CannotListLevels
<1>3. CASE phase = "copy"
    <2>1. reported' = reported \cup {Top.src}
        BY <1>2, <1>3 DEF Reports
    <2>2. reported \subseteq reported' /\ Top.src \in reported'
        BY <2>1
    <2> QED
        BY <1>1, <1>2, <1>3, <2>2, CopyLists
<1>4. CASE phase = "count"
    <2>1. Gains(tree, tree', was, Base) /\ stack \in Seq(Frames)
        BY <1>1, CopyistTree, GainsNothing DEF Stand, Standing
    <2>2. \A i \in 1..Len(stack') : Twin(stack'[i], tree', was)
        BY <1>2, <2>1, TopTwins DEF Top
    <2>3. reported' = reported
        BY <1>2, <1>4 DEF Reports
    <2> QED
        BY <1>1, <1>2, <1>4, <2>2, <2>3, CountOn DEF Before
<1> QED
    BY <1>1, <1>3, <1>4 DEF Known, Counts

LEMMA LeaveCopies ==
    ASSUME Copyist, Leave, phase # "remove", was' = was
    PROVE  CopyInv'
<1>1. /\ pc = "entry" /\ pc' = "leave" /\ phase' = phase /\ tree' = tree /\ Pop
      /\ reported' = reported /\ Known /\ Top.todo = {}
    BY DEF Leave, told, Copyist
<1>2. CASE phase = "copy"
    BY <1>2, CopyLeaves
<1>3. CASE phase = "count"
    <2>1. Gains(tree, tree', was, Base) /\ stack \in Seq(Frames) /\ stack # << >>
        BY <1>1, CopyistTree, GainsNothing DEF Stand, Standing, Inv, Walked
    <2>2. /\ Len(stack') = Len(stack) - 1 /\ hand' = Top
          /\ \A i \in 1..(Len(stack) - 1) : SameLevel(stack'[i], stack[i])
        BY <1>1, <2>1, PopLevels
    <2>3. (\A i \in 1..Len(stack') : Twin(stack'[i], tree', was)) /\ Twin(Top, tree', was)
        BY <2>1, <2>2, LessTwins
    <2> QED
        BY <1>1, <1>3, <2>2, <2>3, CountOn DEF Before
<1> QED
    BY <1>1, <1>2, <1>3 DEF Known, Counts

LEMMA CountCopies ==
    ASSUME Copyist, Count, pc' # "over", was' = was
    PROVE  CopyInv'
<1>1. /\ Handling /\ phase = "count" /\ phase' = "count" /\ tree' = tree
      /\ reported' = reported /\ Known /\ stack \in Seq(Frames)
    BY DEF Count, Handling, told, Copyist, Known, Stand, Standing
<1>2. pc = "entry" /\ stack # << >>
    BY <1>1 DEF Known, Inv, Walked, Count, Walking
<1>3. Gains(tree, tree', was, Base)
    BY <1>1, CopyistTree, GainsNothing
<1>4. CASE Kind(Entry) = "dir" /\ tree[Entry].mode # Sealed
    <2> DEFINE f == Frame(Entry, None, Name, None)
    <2>1. f \in Frames /\ f.dst = None
        BY <1>1, <1>4, EntryFrame
    <2>2. Push(f) /\ pc' = pc
        BY <1>4 DEF Count
    <2> HIDE DEF f
    <2>3. /\ Len(stack) \in Nat /\ Len(stack') = Len(stack) + 1
          /\ SameLevel(stack'[Len(stack) + 1], f)
          /\ \A i \in 1..(Len(stack) - 1) : SameLevel(stack'[i], stack[i])
          /\ SameDirs(stack'[Len(stack)], stack[Len(stack)])
        BY <1>1, <1>2, <2>1, <2>2, PushLevels DEF Top
    <2>4. \A i \in 1..Len(stack') : Twin(stack'[i], tree', was)
        <3> TAKE i \in 1..Len(stack')
        <3>1. i = Len(stack) + 1 \/ i = Len(stack) \/ i \in 1..(Len(stack) - 1)
            BY <2>3
        <3>2. i # Len(stack) + 1 => i \in 1..Len(stack) /\ Twin(stack[i], tree', was)
            BY <1>3, <2>3, <3>1, SettledTwins
        <3> QED
            BY <2>1, <2>3, <3>1, <3>2 DEF Twin, SameLevel, SameDirs
    <2> QED
        BY <1>1, <1>2, <2>2, <2>4, CountOn DEF Before
<1>5. CASE ~(Kind(Entry) = "dir" /\ tree[Entry].mode # Sealed)
    <2>1. Advance(TRUE) /\ TRUE \in BOOLEAN
        BY <1>5 DEF Count
    <2>2. /\ pc' = "entry" /\ Len(stack') = Len(stack)
          /\ \A i \in 1..(Len(stack) - 1) : stack'[i] = stack[i]
          /\ SameDirs(stack'[Len(stack)], Top)
        BY <1>1, <1>2, <2>1, AdvanceLevels
    <2>3. \A i \in 1..Len(stack') : Twin(stack'[i], tree', was)
        BY <1>1, <1>2, <1>3, <2>2, TopTwins DEF Top
    <2> QED
        BY <1>1, <1>2, <2>2, <2>3, CountOn DEF Before
<1> QED
    BY <1>4, <1>5

LEMMA EmptyLevels ==
    ASSUME NEW s, s = << >>, NEW w, NEW n
    PROVE  ~Awaited(s, w, n) /\ ~Opening(s, n) /\ ~Due(s, w, n) /\ ~Entered(s, n)
<1>1. Len(s) = 0 /\ 1..0 = {}
    OBVIOUS
<1> QED
    BY <1>1 DEF Awaited, Opening, Due, Entered

(* With no level left, every entry is settled, or below one that was told  *)
(* of.                                                                     *)
Beneath(w, R, B) == \A n \in SourceOf(w) : n \in R \/ w[n].parent \in B => n \in B

LEMMA AllSettled ==
    ASSUME NEW w \in Trees, NEW t, NEW s, s = << >>, NEW R, NEW j \in Nat,
           Covered(t, w, s, R, j),
           \A n \in SourceOf(w) : w[n].parent = Base => n \in Copied(t),
           NEW B, Beneath(w, R, B)
    PROVE  \A n \in SourceOf(w) :
               n \in Copied(t) \/ n \in B \/ (w[n].kind = "special" /\ j > 0)
<1> DEFINE Out(n) == ~(n \in Copied(t) \/ n \in B \/ (w[n].kind = "special" /\ j > 0))
           S == {n \in SourceOf(w) : Out(n)}
<1> SUFFICES ASSUME S # {} PROVE FALSE
    OBVIOUS
<1>1. S \subseteq Nat
    BY SourceIs, TreesAssumption
<1> HIDE DEF S
<1>2. PICK n \in S : \A m \in S : n <= m
    BY <1>1, LeastNumber
<1>3. n \in SourceOf(w) /\ Out(n) /\ n \in Nat
    BY <1>1 DEF S
<1> DEFINE p == w[n].parent
<1>4. p # Base
    BY <1>3
<1>5. p \in SourceOf(w) /\ w[p].kind = "dir" /\ p < n
    BY <1>3, <1>4, SourceIs
<1>6. p \in Nat
    BY <1>5, SourceIs, TreesAssumption
<1> HIDE DEF p
<1>7. p = w[n].parent
    BY DEF p
<1>8. p \notin S
    BY <1>2, <1>3, <1>5, <1>6
<1>9. p \in Copied(t) \/ p \in B
    BY <1>5, <1>8 DEF S
<1>10. p \notin B /\ p \notin R
    BY <1>3, <1>5, <1>7 DEF Beneath
<1>11. Settled(t, w, R, j, n)
    <2>1. \/ Settled(t, w, R, j, n)
          \/ Awaited(s, w, n) \/ Opening(s, n) \/ Due(s, w, p)
        BY ONLY <1>3, <1>7, <1>9, <1>10, Covered(t, w, s, R, j) DEF Covered
    <2>2. ~Awaited(s, w, n) /\ ~Opening(s, n) /\ ~Due(s, w, p)
        BY ONLY s = << >>, EmptyLevels
    <2> QED
        BY <2>1, <2>2
<1>12. n \notin R
    BY <1>3 DEF Beneath
<1> QED
    BY <1>3, <1>11, <1>12 DEF Settled

LEMMA AllRemain ==
    ASSUME Copyist, NEW x, Gains(tree, tree', was, x), stack' = stack
    PROVE  \A i \in 1..Len(stack') : Twin(stack'[i], tree', was)
BY SettledTwins

LEMMA SealDirectoryCopies ==
    ASSUME Copyist, SealDirectory, pc' # "over", was' = was
    PROVE  CopyInv'
<1>1. /\ Gains(tree, tree', was, hand.src) /\ Shut(tree', was, hand.src)
      /\ hand.src \in Copied(tree)
    BY SealDirectoryGains
<1>2. /\ pc = "leave" /\ phase = "copy" /\ reported' = reported /\ skipped' = skipped
      /\ stack' = stack
    BY DEF SealDirectory, AfterCopy, told, Over
<1>3. /\ Known /\ pc \notin Before /\ was \in Trees /\ skipped \in Nat
      /\ Chained(stack, was) /\ Covered(tree, was, stack, reported, skipped)
      /\ AllShut(tree, was, stack, reported, hand.src)
    BY <1>2, CopyingIs
<1>4. /\ Covered(tree', was, stack, reported, skipped)
      /\ AllShut(tree', was, stack, reported, None)
    BY <1>1, <1>3, SealCovers
<1>5. \A i \in 1..Len(stack') : Twin(stack'[i], tree', was)
    BY <1>1, <1>2, AllRemain
<1>6. \A n \in SourceOf(was) : was[n].parent = Base => n \in Copied(tree')
    BY <1>1, <1>3 DEF Copyist, CopyInv, Gains
<1>7. CASE stack # << >>
    <2>1. pc' = "entry" /\ phase' = "copy"
        BY <1>2, <1>7 DEF SealDirectory
    <2> QED
        BY <1>1, <1>2, <1>3, <1>4, <1>5, <2>1, CopyOn DEF Before
<1>8. CASE stack = << >>
    <2>1. pc' = "root" /\ phase' = "remove" /\ reported = {} /\ skipped = 0
        BY <1>2, <1>8 DEF SealDirectory, AfterCopy, Over, Complete
    <2>2. \A n \in SourceOf(was) : n \in Copied(tree')
        <3>1. Beneath(was, reported, {})
            BY <2>1 DEF Beneath
        <3>2. \A n \in SourceOf(was) : n \in Copied(tree') \/ n \in {}
                  \/ (was[n].kind = "special" /\ skipped > 0)
            BY <1>3, <1>4, <1>6, <1>8, <3>1, AllSettled
        <3> QED
            BY <2>1, <3>2
    <2>3. Tidy(tree', was)
        BY <1>1 DEF Gains
    <2> QED
        BY <1>2, <1>5, <1>6, <2>1, <2>2, <2>3 DEF CopyInv, Before
<1> QED
    BY <1>7, <1>8

(* The one level that a copy begins with. *)
LEMMA FirstCovers ==
    ASSUME NEW w \in Trees, NEW t, NEW s, NEW f, s = <<f>>, f.todo = None, NEW j,
           Copied(t) \subseteq {f.src}
    PROVE  Covered(t, w, s, {}, j) /\ AllShut(t, w, s, {}, None)
<1>1. Len(s) = 1 /\ s[1] = f /\ 1..1 = {1}
    OBVIOUS
<1>2. \A p : Entered(s, p) <=> p = f.src
    BY <1>1 DEF Entered
<1>3. \A n : w[n].parent = f.src => Awaited(s, w, n)
    BY <1>1 DEF Awaited
<1>4. Covered(t, w, s, {}, j)
    BY <1>2, <1>3 DEF Covered
<1> QED
    BY <1>2, <1>4 DEF AllShut

-----------------------------------------------------------------------------
(***************************************************************************)
(* How a copy begins.                                                      *)
(***************************************************************************)
LEMMA CopiedIs ==
    ASSUME NEW w, NEW t, Tidy(t, w)
    PROVE  Copied(t) \subseteq SourceOf(w)
<1> SUFFICES ASSUME NEW n \in Copied(t) PROVE n \in SourceOf(w)
    OBVIOUS
<1>1. PICK c \in Nodes : t[c].linked /\ t[c].copyOf = n
    BY DEF Copied
<1>2. n \in Nodes /\ n # None
    BY NoneAssumption DEF Copied
<1> QED
    BY <1>1, <1>2 DEF Tidy, CopyOf

LEMMA OneLevel ==
    ASSUME NEW f, NEW t, NEW w, Twin(f, t, w), NEW s, s = <<f>>
    PROVE  \A i \in 1..Len(s) : Twin(s[i], t, w)
<1>1. Len(s) = 1 /\ s[1] = f /\ 1..1 = {1}
    OBVIOUS
<1> QED
    BY <1>1

LEMMA BeginTreeTwin ==
    ASSUME Known, BeginTree
    PROVE  LET d == IF Destination = None THEN New ELSE Destination
           IN tree'[d].copyOf = Source
<1>1. tree \in [Nodes -> Inodes]
    BY KnownTree
<1>2. CASE Destination = None
    <2>1. Make(tree, "dir", "t", Base, Free, Source)
        BY <1>2 DEF BeginTree
    <2>2. New \in Nodes
        BY <2>1 DEF Make, New, Spare
    <2>3. tree'[New].copyOf = Source
        BY <1>1, <2>1, <2>2 DEF Make
    <2> QED
        BY <1>2, <2>3
<1>3. CASE Destination # None
    <2>1. Destination \in Nodes
        BY <1>3, DestinationIs
    <2>2. tree' = Remade(tree, Destination, Free, Source)
        BY <1>3 DEF BeginTree, Remade
    <2> QED
        BY <1>1, <1>3, <2>1, <2>2, RemadeIs
<1> QED
    BY <1>2, <1>3

LEMMA CountedCopies ==
    ASSUME Copyist, Counted, was' = was
    PROVE  CopyInv'
<1>1. /\ pc = "leave" /\ phase = "count" /\ pc' = "entry" /\ tree' = tree
      /\ reported' = reported /\ skipped' = skipped /\ Known
    BY DEF Counted, told, Copyist
<1>2. CopyInv /\ Tidy(tree, was) /\ was \in Trees
    BY <1>1, CopyistTree DEF Known, Counts
<1>3. CASE stack # << >>
    <2>1. stack' = stack /\ phase' = "count"
        BY <1>1, <1>3 DEF Counted
    <2>2. \A i \in 1..Len(stack') : Twin(stack'[i], tree', was)
        BY <1>1, <1>2, <2>1 DEF CopyInv
    <2> QED
        BY <1>1, <2>1, <2>2, CountOn DEF Before
<1>4. CASE stack = << >>
    <2>1. PICK f : /\ stack' = <<f>> /\ SameDirs(f, hand) /\ f.todo = None /\ phase' = "copy"
        BY <1>1, <1>4, CountedLevels
    <2>2. /\ Twin(hand, tree, was) /\ reported = {}
          /\ \A n \in Copied(tree) : was[n].parent = Base
          /\ \A n \in SourceOf(was) : was[n].parent = Base => n \in Copied(tree)
        BY <1>1, <1>2 DEF CopyInv, Before
    <2>3. Linked(hand, Base, was)
        <3>1. Linked(hand, DirOf(stack, Len(stack) + 1), was)
            BY <1>1 DEF Route, Known, Copyist
        <3>2. Len(stack) = 0
            BY <1>4
        <3> QED
            BY <3>1, <3>2 DEF DirOf
    <2>4. Copied(tree) \subseteq {f.src}
        <3> SUFFICES ASSUME NEW n \in Copied(tree) PROVE n = f.src
            OBVIOUS
        <3>1. n \in SourceOf(was) /\ was[n].parent = Base
            BY <1>2, <2>2, CopiedIs
        <3>2. hand.src \in SourceOf(was) /\ was[hand.src].parent = Base
            BY <2>3 DEF Linked
        <3>3. was[n].name = "s" /\ was[hand.src].name = "s"
            BY <1>2, <3>1, <3>2, SourceIs
        <3>4. n = hand.src
            BY <1>2, <3>1, <3>2, <3>3, SourceUnique
        <3> QED
            BY <2>1, <3>4 DEF SameDirs
    <2>5. Covered(tree, was, stack', {}, skipped) /\ AllShut(tree, was, stack', {}, None)
        BY <1>2, <2>1, <2>4, FirstCovers
    <2>6. Twin(f, tree, was)
        BY <2>1, <2>2 DEF Twin, SameDirs
    <2>7. \A i \in 1..Len(stack') : Twin(stack'[i], tree, was)
        BY <2>1, <2>6, OneLevel
    <2> QED
        BY <1>1, <1>2, <2>1, <2>2, <2>5, <2>7 DEF CopyInv, Before, LeftDir
<1> QED
    BY <1>3, <1>4

LEMMA BeginTreeCopies ==
    ASSUME Copyist, BeginTree, was' = was
    PROVE  CopyInv'
<1>1. /\ pc = "begin" /\ pc' = "entry" /\ phase' \in {"count", "copy"}
      /\ reported' = reported /\ skipped' = skipped /\ Source # None /\ Known
    BY DEF BeginTree, told, Copyist, Kind
<1>2. /\ CopyInv /\ Tidy(tree, was) /\ Intact(tree, was) /\ was \in Trees
      /\ Copied(tree) = {} /\ reported = {}
    BY <1>1, CopyistTree DEF Known, Counts, CopyInv, Before, Copyist, Route
<1>3. /\ Gains(tree, tree', was, Source) /\ Source \in Copied(tree')
      /\ Source \in SourceOf(was) /\ was[Source].parent = Base
    BY BeginTreeGains
<1>4. Copied(tree') = {Source} /\ Tidy(tree', was)
    BY <1>2, <1>3 DEF Gains
<1>5. \A n \in SourceOf(was) : was[n].parent = Base => n = Source
    BY <1>2, <1>3, SourceIs, SourceUnique
<1>6. PICK f : /\ stack' = <<f>> /\ f.src = Source /\ f.todo = None
               /\ f.mode = tree[Source].mode
               /\ f.dst = IF Destination = None THEN New ELSE Destination
    BY <1>1, BeginTreeLevels
<1>7. tree[Source] = was[Source]
    BY <1>2, <1>3, SourceIs, SourceSide DEF Intact
<1>8. tree'[f.dst].copyOf = Source
    BY <1>1, <1>6, BeginTreeTwin
<1>9. \A i \in 1..Len(stack') : Twin(stack'[i], tree', was)
    BY <1>6, <1>7, <1>8, OneLevel DEF Twin
<1>10. Covered(tree', was, stack', {}, skipped) /\ AllShut(tree', was, stack', {}, None)
    BY <1>2, <1>4, <1>6, FirstCovers
<1> QED
    BY <1>1, <1>2, <1>3, <1>4, <1>5, <1>9, <1>10 DEF CopyInv, Before, LeftDir

LEMMA CopyOneCopies ==
    ASSUME Copyist, CopyOne, pc' # "over", was' = was
    PROVE  CopyInv'
<1>1. /\ pc = "one" /\ pc' = "settle" /\ phase' = phase /\ stack' = stack
      /\ reported' = reported /\ skipped' = skipped /\ Known
    BY DEF CopyOne, told, Over, Copyist
<1>2. /\ CopyInv /\ was \in Trees /\ Copied(tree) = {} /\ reported = {}
      /\ phase = "copy" /\ stack = << >>
    BY <1>1 DEF Known, Counts, CopyInv, Before, Copyist, Route, Inv
<1>3. /\ Gains(tree, tree', was, Source) /\ Source \in Copied(tree')
      /\ Source \in SourceOf(was) /\ was[Source].kind # "dir"
    BY CopyOneGains
<1>4. was[Source].parent = Base
    BY <1>1, SourceEnd, NoneAssumption DEF CopyOne, Kind
<1>5. Copied(tree') = {Source} /\ Tidy(tree', was)
    BY <1>2, <1>3 DEF Gains
<1>6. \A n \in SourceOf(was) : was[n].parent = Base => n = Source
    BY <1>2, <1>3, <1>4, SourceIs, SourceUnique
<1>7. Len(stack') = 0 /\ 1..0 = {}
    BY <1>1, <1>2
<1>8. Covered(tree', was, stack', reported, skipped)
    <2>1. \A n \in SourceOf(was) : was[n].parent # Source
        BY <1>2, <1>3, LeafIsNoParent
    <2>2. \A p : ~Entered(stack', p)
        BY <1>7 DEF Entered
    <2> QED
        BY <1>5, <2>1, <2>2 DEF Covered
<1>9. AllShut(tree', was, stack', reported, None)
    BY <1>3, <1>5 DEF AllShut
<1> QED
    BY <1>1, <1>2, <1>5, <1>6, <1>7, <1>8, <1>9 DEF CopyInv, Before, LeftDir

LEMMA BeforeCopies ==
    ASSUME Copyist, Begin \/ CrossDevices, was' = was
    PROVE  CopyInv'
<1>1. /\ pc \in Before /\ pc' \in Before /\ phase' = "copy" /\ stack' = stack
      /\ reported' = reported /\ Known /\ CopyInv /\ Tidy(tree, was)
    BY CopyistTree DEF Begin, CrossDevices, told, levels, Copyist, Before, Route, Known
<1>2. Copied(tree) = {} /\ reported = {} /\ stack = << >> /\ was \in Trees
    BY <1>1 DEF CopyInv, Before, Known, Inv, Counts
<1>3. \A c \in Nodes : /\ tree'[c].copyOf = tree[c].copyOf
                       /\ tree'[c].linked => tree[c].linked
    <2>1. CASE Begin
        BY <2>1 DEF Begin
    <2>2. CASE CrossDevices
        BY <1>1, <2>2, CrossDevicesAside DEF Shrunk
    <2> QED
        BY <2>1, <2>2
<1>4. \A c \in Nodes : tree[c].linked => tree[c].copyOf \notin Nodes
    BY <1>2 DEF Copied
<1>5. \A c \in Nodes : tree[c].linked => tree[c].copyOf = None
    BY <1>1, <1>2, <1>4, SourceIs DEF Tidy, CopyOf
<1>6. Tidy(tree', was) /\ Copied(tree') = {}
    BY <1>3, <1>5, NoneAssumption DEF Tidy, Copied
<1>7. Len(stack') = 0 /\ 1..0 = {}
    BY <1>1, <1>2
<1> QED
    BY <1>1, <1>2, <1>6, <1>7 DEF CopyInv, Before
-----------------------------------------------------------------------------
(***************************************************************************)
(* The removal of a source leaves its copy alone.                          *)
(***************************************************************************)
Behind(t, u) == \A n \in Nodes :
    /\ u[n].copyOf = t[n].copyOf /\ (u[n].linked => t[n].linked)
    /\ t[n].side = "destination" =>
           /\ u[n].linked = t[n].linked /\ u[n].kind = t[n].kind /\ u[n].mode = t[n].mode
           /\ u[n].parent = t[n].parent /\ u[n].name = t[n].name /\ u[n].side = t[n].side

LEMMA BehindKeeps ==
    ASSUME NEW w, NEW t \in [Nodes -> Inodes], NEW u, Tidy(t, w), Behind(t, u)
    PROVE  Tidy(u, w) /\ Copied(t) \subseteq Copied(u)
<1>1. ASSUME NEW c \in Nodes, t[c].linked, t[c].copyOf # None
      PROVE  u[c].linked /\ u[c].copyOf = t[c].copyOf /\ CopyOf(u, w, c, t[c].copyOf)
    <2> DEFINE n == t[c].copyOf
    <2>1. CopyOf(t, w, c, n)
        BY <1>1 DEF Tidy
    <2>2. /\ u[c].linked = t[c].linked /\ u[c].kind = t[c].kind /\ u[c].mode = t[c].mode
          /\ u[c].parent = t[c].parent /\ u[c].name = t[c].name /\ u[c].side = t[c].side
          /\ u[c].copyOf = n
        BY <2>1 DEF CopyOf, Behind
    <2> HIDE DEF n
    <2>3. t[c].parent # None => u[t[c].parent].copyOf = t[t[c].parent].copyOf
        BY NodeFields DEF Behind
    <2>4. Place(u, w, u[c].parent, u[c].name, n)
        BY <2>1, <2>2, <2>3 DEF CopyOf, Place
    <2>5. CopyOf(u, w, c, n)
        BY <2>1, <2>2, <2>4 DEF CopyOf
    <2> QED
        BY <1>1, <2>2, <2>5 DEF n
<1>2. Tidy(u, w)
    <2> SUFFICES ASSUME NEW c \in Nodes, u[c].linked, u[c].copyOf # None
                 PROVE  CopyOf(u, w, c, u[c].copyOf)
        BY DEF Tidy
    <2>1. t[c].linked /\ t[c].copyOf = u[c].copyOf
        BY DEF Behind
    <2> QED
        BY <1>1, <2>1
<1>3. ASSUME NEW n \in Copied(t) PROVE n \in Copied(u)
    <2>1. PICK c \in Nodes : t[c].linked /\ t[c].copyOf = n
        BY DEF Copied
    <2>2. n \in Nodes /\ n # None
        BY NoneAssumption DEF Copied
    <2>3. u[c].linked /\ u[c].copyOf = n
        BY <1>1, <2>1, <2>2
    <2> QED
        BY <2>2, <2>3 DEF Copied
<1> QED
    BY <1>2, <1>3

LEMMA WithoutBehind ==
    ASSUME tree \in [Nodes -> Inodes], NEW n \in Nodes, NEW dir \in Nodes,
           tree[n].side = "source", dir = Base \/ tree[dir].side = "source"
    PROVE  Behind(tree, Without(n, dir))
<1> DEFINE u == Unlinks(tree, n)
           mode == IF dir = Base THEN u[dir].mode ELSE Free
           v == [u EXCEPT ![dir].mode = mode]
<1>1. u \in [Nodes -> Inodes]
    <2>1. [tree[n] EXCEPT !.linked = FALSE] \in Inodes
        BY Unlinkable
    <2> QED
        BY <2>1 DEF Unlinks
<1>2. \A m \in Nodes \ {n} : u[m] = tree[m]
    BY DEF Unlinks
<1>3. u[n].copyOf = tree[n].copyOf /\ ~u[n].linked
    BY DEF Unlinks, Inodes
<1>4. Without(n, dir) = v
    BY DEF Without, Unlinks
<1> HIDE DEF u
<1>5. \A m \in Nodes \ {dir} : v[m] = u[m]
    BY <1>1
<1>6. /\ v[dir].copyOf = u[dir].copyOf /\ v[dir].linked = u[dir].linked
      /\ v[dir].kind = u[dir].kind /\ v[dir].mode = mode /\ v[dir].side = u[dir].side
      /\ v[dir].parent = u[dir].parent /\ v[dir].name = u[dir].name
    BY <1>1 DEF Inodes
<1> HIDE DEF v
<1>7. ASSUME NEW m \in Nodes, m # n
      PROVE  /\ v[m].copyOf = tree[m].copyOf /\ v[m].linked = tree[m].linked
             /\ tree[m].side = "destination" =>
                    /\ v[m].kind = tree[m].kind /\ v[m].mode = tree[m].mode
                    /\ v[m].parent = tree[m].parent /\ v[m].name = tree[m].name
                    /\ v[m].side = tree[m].side
    <2>1. u[m] = tree[m]
        BY <1>2, <1>7
    <2>2. CASE m # dir
        BY <1>5, <2>1, <2>2
    <2>3. CASE m = dir
        BY <1>6, <2>1, <2>3
    <2> QED
        BY <2>2, <2>3
<1>8. v[n].copyOf = tree[n].copyOf /\ ~v[n].linked
    BY <1>3, <1>5, <1>6
<1>9. Behind(tree, v)
    BY <1>7, <1>8 DEF Behind
<1> QED
    BY <1>4, <1>9

LEMMA LeftIs ==
    ASSUME Known, Route, pc = "leave", Left # None
    PROVE  /\ Left \in Nodes /\ tree[Left].linked /\ tree[Left].side = "source"
           /\ tree[Left].parent = Above /\ tree[Left].name = hand.name
           /\ Above \in Nodes /\ (Above = Base \/ tree[Above].side = "source")
<1>1. /\ Left \in Nodes /\ tree[Left].linked /\ tree[Left].parent = Above
      /\ tree[Left].name = hand.name /\ Above \in Nodes
    BY AboveIs, AtIs DEF Left
<1>2. Linked(hand, Above, was)
    BY AboveIs DEF Route, Known
<1>3. was \in Trees /\ Sided(tree) /\ tree \in [Nodes -> Inodes]
    BY KnownTree
<1>4. CASE Above = Base
    <2>1. hand.name = "s"
        BY <1>2, <1>3, <1>4, SourceIs DEF Linked
    <2>2. tree[Left].side # "destination"
        BY <1>1, <1>3, <1>4, <2>1 DEF Sided
    <2> QED
        BY <1>1, <1>3, <1>4, <2>2, NodeFields
<1>5. CASE Above # Base
    <2>1. Above \in SourceOf(was)
        BY <1>2, <1>3, <1>5, SourceIs DEF Linked
    <2>2. tree[Above].side = "source"
        BY <2>1, KnownTree
    <2>3. tree[Left].side = tree[Above].side
        BY <1>1, <1>3, <1>5, NoneAssumption DEF Sided
    <2> QED
        BY <1>1, <2>2, <2>3
<1> QED
    BY <1>4, <1>5

LEMMA RemovalBehind ==
    ASSUME Known, Route, Unlink \/ Enter \/ RemoveDirectory
    PROVE  Behind(tree, tree')
<1>1. tree \in [Nodes -> Inodes]
    BY KnownTree
<1>2. CASE Unlink
    <2>1. Handling /\ Entry # None /\ tree' = Without(Entry, Dir)
        BY <1>2 DEF Unlink, Handling, Kind
    <2>2. Entry \in Nodes /\ tree[Entry].side = "source" /\ Dir \in Nodes
        BY <2>1, EntrySource, EntryIs DEF Known
    <2>3. Dir = Base \/ tree[Dir].side = "source"
        <3>1. CASE pc = "root"
            BY <3>1 DEF Dir
        <3>2. CASE pc # "root"
            BY <2>1, <3>2, EntrySource, TopSource, KnownTree DEF Known, Handling, Walking, Inv, Walked
        <3> QED
            BY <3>1, <3>2
    <2> QED
        BY <1>1, <2>1, <2>2, <2>3, WithoutBehind
<1>3. CASE Enter
    <2>1. Handling /\ Entry # None
        BY <1>3 DEF Enter, Handling, Kind
    <2>2. Entry \in Nodes /\ tree[Entry].side = "source"
        BY <2>1, EntrySource
    <2> DEFINE e == Entry
    <2>3. tree' = tree \/ tree' = [tree EXCEPT ![e].mode = Free]
        BY <1>3 DEF Enter
    <2> HIDE DEF e
    <2>4. e \in Nodes /\ tree[e].side = "source"
        BY <2>2 DEF e
    <2>5. CASE tree' = [tree EXCEPT ![e].mode = Free]
        <3>1. \A m \in Nodes \ {e} : tree'[m] = tree[m]
            BY <1>1, <2>4, <2>5
        <3>2. tree'[e].copyOf = tree[e].copyOf /\ tree'[e].linked = tree[e].linked
            BY <1>1, <2>4, <2>5 DEF Inodes
        <3>3. tree[e].side # "destination"
            BY <2>4
        <3> QED
            BY <3>1, <3>2, <3>3 DEF Behind
    <2> QED
        BY <2>3, <2>5 DEF Behind
<1>4. CASE RemoveDirectory
    <2>1. pc = "leave" /\ Left # None /\ tree' = Without(Left, Above)
        BY <1>4 DEF RemoveDirectory, Empty, Kind
    <2> QED
        BY <1>1, <2>1, LeftIs, WithoutBehind
<1> QED
    BY <1>2, <1>3, <1>4

LEMMA RemovalLeaves ==
    ASSUME Known, Route, Work, phase = "remove"
    PROVE  Behind(tree, tree') /\ pc \notin Before /\ phase' = "remove"
<1>1. pc \notin Before /\ pc # "settle"
    BY DEF Route, Known, Before
<1>2. \/ List \/ CannotList \/ Leave \/ LoseFooting \/ Vanished \/ Unlink \/ Enter
      \/ StepOver \/ RemoveDirectory \/ KeepDirectory
      \/ OpenSource \/ CannotOpenSource \/ OpenDestination \/ CannotOpenDestination
    BY <1>1 DEF Work, Begin, Refuse, Rename, CannotRename, CrossDevices, Gone, CopyOne,
                CannotCopyOne, UnlinkSource, BeginTree, CannotBegin, Count, Counted,
                CopyEntry, SkipEntry, CannotCopy, MakeDirectory, SealDirectory, Before
<1>3. pc \notin {"open_src", "open_dst"}
    BY DEF Known, Stand, InStep
<1>4. phase' = "remove"
    BY <1>2 DEF List, CannotList, Leave, LoseFooting, Vanished, Unlink, Enter, StepOver,
                RemoveDirectory, KeepDirectory, OpenSource, CannotOpenSource,
                OpenDestination, CannotOpenDestination
<1>5. CASE Unlink \/ Enter \/ RemoveDirectory
    BY <1>1, <1>4, <1>5, RemovalBehind
<1>6. CASE ~(Unlink \/ Enter \/ RemoveDirectory)
    <2>1. tree' = tree
        BY <1>2, <1>3, <1>6
           DEF List, CannotList, Leave, LoseFooting, Vanished, StepOver, KeepDirectory,
               OpenSource, CannotOpenSource, OpenDestination, CannotOpenDestination
    <2> QED
        BY <1>1, <1>4, <2>1 DEF Behind
<1> QED
    BY <1>5, <1>6

LEMMA RemovalGoes ==
    ASSUME Known, Route, Work, phase = "remove", pc' # "over"
    PROVE  pc' \notin Before
<1>1. pc \notin Before
    BY RemovalLeaves
<1>2. pc' \in Before => Begin \/ CrossDevices \/ CopyOne
    BY StepGoes DEF Before
<1> QED
    BY <1>1, <1>2 DEF Before, Begin, CrossDevices, CopyOne

LEMMA RemovalCopies ==
    ASSUME Copyist, Work, phase = "remove", pc' # "over", was' = was, Stand'
    PROVE  CopyInv'
<1>1. Known /\ Route /\ CopyInv /\ Tidy(tree, was) /\ tree \in [Nodes -> Inodes]
    BY CopyistTree, KnownTree DEF Copyist
<1>2. Behind(tree, tree') /\ pc \notin Before /\ pc' \notin Before /\ phase' = "remove"
    BY <1>1, RemovalLeaves, RemovalGoes
<1>3. Tidy(tree', was) /\ Copied(tree) \subseteq Copied(tree')
    BY <1>1, <1>2, BehindKeeps
<1>4. SourceOf(was) \subseteq Copied(tree')
    BY <1>1, <1>3 DEF CopyInv
<1>5. /\ Single(stack') /\ pc' # "open_dst"
      /\ pc' = "leave" => hand'.dst = None
    BY <1>2 DEF Stand, InStep
<1>6. ASSUME pc' = "leave" PROVE Twin(hand', tree', was) /\ hand'.todo = {}
    <2>1. Leave
        BY <1>1, <1>6, StepGoes
    <2> QED
        BY <1>5, <1>6, <2>1 DEF Leave, Pop, Twin
<1>7. \A i \in 1..Len(stack') : Twin(stack'[i], tree', was)
    BY <1>5 DEF Single, Twin
<1> QED
    BY <1>2, <1>3, <1>4, <1>5, <1>6, <1>7 DEF CopyInv, Before

LEMMA NextCopying ==
    ASSUME Fit, Work, Stand'
    PROVE  Copying'
<1> SUFFICES ASSUME Calm', job'.cmd # "remove" PROVE CopyInv'
    BY DEF Copying
<1>1. was' = was /\ job' = job /\ pc' # "over" /\ Known
    BY StepFixed DEF Calm, Fit
<1>2. Copyist
    BY <1>1 DEF Fit, Copyist
<1>3. CASE phase = "remove"
    BY <1>1, <1>2, <1>3, RemovalCopies
<1>4. CASE phase # "remove"
    <2>1. CASE Begin \/ CrossDevices \/ CopyOne \/ BeginTree \/ Counted \/ Count
        BY <1>1, <1>2, <2>1, BeforeCopies, CopyOneCopies, BeginTreeCopies, CountedCopies,
           CountCopies
    <2>2. CASE List \/ CannotList \/ Leave
        BY <1>1, <1>2, <1>4, <2>2, ListCopies, CannotListCopies, LeaveCopies
    <2>3. CASE CopyEntry \/ SkipEntry \/ CannotCopy \/ MakeDirectory
        BY <1>1, <1>2, <2>3, CopyEntryCopies, SkipEntryCopies, CannotCopyCopies,
           MakeDirectoryCopies
    <2>4. CASE OpenSource \/ CannotOpenSource \/ OpenDestination \/ CannotOpenDestination
               \/ SealDirectory
        BY <1>1, <1>2, <2>4, OpenSourceCopies, CannotOpenSourceCopies,
           OpenDestinationCopies, CannotOpenDestinationCopies, SealDirectoryCopies
    <2> QED
        BY <1>1, <1>4, <2>1, <2>2, <2>3, <2>4
           DEF Work, Refuse, Rename, CannotRename, Gone, CannotCopyOne, UnlinkSource,
               CannotBegin, LoseFooting, Vanished, Unlink, Enter, StepOver,
               RemoveDirectory, KeepDirectory, Over
<1> QED
    BY <1>3, <1>4

-----------------------------------------------------------------------------
(***************************************************************************)
(* The invariant that is kept as long as nobody interferes.                *)
(***************************************************************************)
(* Which commands come to a rename, and to the end of a single entry.      *)
Roles ==
    /\ pc = "rename" => job.cmd = "move"
    /\ pc = "settle" => job.cmd # "copy"

Ruled == Inv /\ Stand /\ Counts /\ Roles /\ Origin /\ Route /\ Walks /\ Copying

LEMMA RuledFits ==
    ASSUME Ruled, Calm
    PROVE  Fit
BY DEF Ruled, Fit, Known, Origin, Route, Copying

LEMMA Unfinished == Work => pc # "over"
BY DEF Work, Begin, Refuse, Rename, CannotRename, CrossDevices, Gone, CopyOne,
       CannotCopyOne, UnlinkSource, BeginTree, CannotBegin, List, CannotList, Leave,
       LoseFooting, Count, Counted, CopyEntry, SkipEntry, CannotCopy, MakeDirectory,
       OpenSource, CannotOpenSource, OpenDestination, CannotOpenDestination,
       SealDirectory, Vanished, Unlink, Enter, StepOver, RemoveDirectory,
       KeepDirectory, Walking

LEMMA StillBefore ==
    ASSUME Counts, [Next]_vars, Still'
    PROVE  Still /\ (Work \/ UNCHANGED vars)
<1>1. changes \in Nat
    BY JobsAssumption DEF Counts
<1>2. CASE Change
    BY <1>1, <1>2 DEF Change, Still
<1>3. CASE Work
    BY <1>3, StepFixed DEF Still
<1>4. CASE UNCHANGED vars
    BY <1>4 DEF Still, vars, bounds
<1> QED
    BY <1>2, <1>3, <1>4 DEF Next

LEMMA NextRoles ==
    ASSUME Roles, Work
    PROVE  Roles'
<1>1. CASE pc' \notin {"rename", "settle"}
    BY <1>1 DEF Roles
<1>2. CASE pc' \in {"rename", "settle"}
    <2>1. \/ Begin \/ CopyOne
        BY <1>2 DEF Work, Begin, Refuse, Rename, CannotRename, CrossDevices, Gone, CopyOne,
            CannotCopyOne, UnlinkSource, BeginTree, CannotBegin, List, CannotList, Leave,
            LoseFooting, Count, Counted, CopyEntry, SkipEntry, CannotCopy, MakeDirectory,
            OpenSource, CannotOpenSource, OpenDestination, CannotOpenDestination,
            SealDirectory, Vanished, Unlink, Enter, StepOver, RemoveDirectory,
            KeepDirectory, Walking, Over, Advance, Report, AfterCopy
    <2> QED
        BY <1>2, <2>1 DEF Begin, CopyOne, Roles, Over
<1> QED
    BY <1>1, <1>2

LEMMA NextRuled ==
    ASSUME Ruled, [Next]_vars
    PROVE  Ruled'
<1>1. Inv' /\ Stand' /\ Counts'
    BY NextInv, NextStand, NextCounts DEF Ruled
<1>2. Roles'
    <2>1. CASE UNCHANGED vars
        BY <2>1 DEF Ruled, Roles, vars
    <2>2. CASE Change
        BY <2>2 DEF Ruled, Roles, Change
    <2> QED
        BY <2>1, <2>2, NextRoles DEF Ruled, Next
<1>3. CASE ~Calm'
    BY <1>1, <1>2, <1>3 DEF Ruled, Origin, Route, Walks, Copying
<1>4. CASE Calm'
    <2>1. Still /\ (Work \/ UNCHANGED vars)
        BY <1>4, StillBefore DEF Ruled, Calm
    <2>2. CASE Work
        <3>1. Fit
            BY <2>1, <2>2, Unfinished, RuledFits DEF Calm
        <3>2. Origin' /\ Route' /\ Walks' /\ Copying'
            BY <1>1, <2>2, <3>1, NextOrigin, NextRoute, NextWalks, NextCopying DEF Fit
        <3> QED
            BY <1>1, <1>2, <3>2 DEF Ruled
    <2>3. CASE UNCHANGED vars
        <3>1. UNCHANGED <<tree, job, phase, pc, stack, hand, reported, skipped, changes, was>>
            BY <2>3 DEF vars, levels, told, bounds
        <3> QED
            BY <1>1, <1>2, <3>1
               DEF Ruled, Origin, Route, Walks, Copying, CopyInv, Calm, Still, LeftDir, Before
    <2> QED
        BY <2>1, <2>2, <2>3
<1> QED
    BY <1>3, <1>4

-----------------------------------------------------------------------------
(***************************************************************************)
(* What a move keeps.                                                      *)
(***************************************************************************)
Safe(t, w) == \A n \in SourceOf(w) :
    t[n].linked \/ \E c \in Nodes : t[c].linked /\ t[c].copyOf = n /\ CopyOf(t, w, c, n)

Lossless == Still /\ job.cmd = "move" => Safe(tree, was)

LEMMA SafeMove ==
    ASSUME Lossless
    PROVE  MoveLosesNothing
<1> SUFFICES ASSUME Still, job.cmd = "move", NEW n \in Nodes, InSource(n)
             PROVE  tree[n].linked \/ HasCopy(n)
    BY DEF MoveLosesNothing
<1>1. n \in SourceOf(was)
    BY DEF InSource, SourceRoots, SourceOf
<1>2. Safe(tree, was)
    BY DEF Lossless
<1> QED
    BY <1>1, <1>2 DEF Safe, HasCopy, IsCopy, HasMode, InPlace, CopyOf, Place

LEMMA SafeIntact ==
    ASSUME NEW w \in Trees, NEW t, Intact(t, w)
    PROVE  Safe(t, w)
BY SourceIs, SourceSide DEF Intact, Safe

LEMMA SafeCopied ==
    ASSUME NEW w \in Trees, NEW t, Tidy(t, w),
           \A n \in SourceOf(w) : t[n].linked \/ n \in Copied(t)
    PROVE  Safe(t, w)
<1> SUFFICES ASSUME NEW n \in SourceOf(w), ~t[n].linked
             PROVE  \E c \in Nodes : t[c].linked /\ t[c].copyOf = n /\ CopyOf(t, w, c, n)
    BY DEF Safe
<1>1. n \in Nodes /\ n # None
    BY SourceIs, NoneAssumption
<1>2. PICK c \in Nodes : t[c].linked /\ t[c].copyOf = n
    BY DEF Copied
<1> QED
    BY <1>1, <1>2 DEF Tidy

(* Not even a walk that ends loses anything.                               *)
LEMMA RenameSafe ==
    ASSUME Known, Rename, Intact(tree, was)
    PROVE  Safe(tree', was)
<1>1. was \in Trees /\ tree' = Renamed /\ tree \in [Nodes -> Inodes]
    BY KnownTree DEF Rename
<1>2. ASSUME NEW n \in SourceOf(was) PROVE tree'[n].linked
    <2>1. n \in Nodes /\ tree[n].linked /\ tree[n].side = "source"
        BY <1>1, <1>2, SourceIs, SourceSide, KnownTree DEF Intact
    <2>2. n # Destination
        BY <2>1, DestinationIs, NoneAssumption
    <2>3. CASE n = Source
        <3> DEFINE r == [tree[n] EXCEPT !.name = "t"]
        <3>1. tree[n] \in Inodes
            BY <1>1, <2>1
        <3>2. r.linked
            BY <2>1, <3>1 DEF Inodes
        <3> HIDE DEF r
        <3>3. Renamed[n] = r
            BY ONLY <2>1, <2>2, <2>3 DEF Renamed, r
        <3> QED
            BY <1>1, <3>2, <3>3
    <2>4. CASE n # Source
        BY <1>1, <2>1, <2>2, <2>4 DEF Renamed
    <2> QED
        BY <2>3, <2>4
<1> QED
    BY <1>2 DEF Safe

LEMMA UnlinkSourceSafe ==
    ASSUME Copyist, UnlinkSource
    PROVE  Safe(tree', was)
<1>1. /\ Known /\ pc = "settle" /\ phase = "copy" /\ CopyInv /\ Tidy(tree, was)
      /\ Intact(tree, was) /\ was \in Trees /\ tree \in [Nodes -> Inodes]
    BY CopyistTree, KnownTree DEF UnlinkSource, Copyist, Route, Known
<1>2. CASE tree' = tree
    BY <1>1, <1>2, SafeIntact
<1>3. CASE Kind(Source) # "none" /\ tree' = [tree EXCEPT ![Source].linked = FALSE]
    <2> DEFINE s == Source
    <2>1. s # None
        BY <1>3 DEF Kind
    <2>2. s \in SourceOf(was) /\ was[s].parent = Base /\ s \in Nodes /\ tree[s].side = "source"
        BY <1>1, <2>1, SourceEnd
    <2>3. tree' = Unlinks(tree, s)
        BY <1>3 DEF Unlinks
    <2> HIDE DEF s
    <2>4. \A m \in Nodes \ {s} : tree'[m] = tree[m]
        BY <1>1, <2>2, <2>3 DEF Unlinks
    <2>5. tree'[s].copyOf = tree[s].copyOf /\ ~tree'[s].linked
        BY <1>1, <2>2, <2>3 DEF Unlinks, Inodes
    <2>6. Behind(tree, tree')
        BY <2>2, <2>4, <2>5 DEF Behind
    <2>7. Tidy(tree', was) /\ Copied(tree) \subseteq Copied(tree')
        BY <1>1, <2>6, BehindKeeps
    <2>8. s \in Copied(tree)
        BY <1>1, <2>2 DEF CopyInv, Before
    <2>9. ASSUME NEW n \in SourceOf(was), n # s PROVE tree'[n].linked
        BY <1>1, <2>4, <2>9, SourceIs, SourceSide DEF Intact
    <2> QED
        BY <1>1, <2>7, <2>8, <2>9, SafeCopied
<1> QED
    BY <1>2, <1>3 DEF UnlinkSource

LEMMA StepSafe ==
    ASSUME Copyist, Work
    PROVE  Safe(tree', was)
<1>1. Known /\ Route /\ Tidy(tree, was) /\ was \in Trees /\ tree \in [Nodes -> Inodes] /\ Fit
    BY CopyistTree, KnownTree DEF Copyist, Fit
<1>2. CASE phase = "remove"
    <2>1. Behind(tree, tree')
        BY <1>1, <1>2, RemovalLeaves
    <2>2. Tidy(tree', was) /\ Copied(tree) \subseteq Copied(tree')
        BY <1>1, <2>1, BehindKeeps
    <2>3. SourceOf(was) \subseteq Copied(tree)
        BY <1>2 DEF Copyist, CopyInv
    <2> QED
        BY <1>1, <2>2, <2>3, SafeCopied
<1>3. CASE phase # "remove"
    <2>1. Intact(tree, was) /\ OldOnes(tree, was)
        BY <1>1, <1>3 DEF Copyist, Known
    <2>2. CASE CrossDevices \/ CopyOne \/ BeginTree \/ CopyEntry \/ CannotCopy
               \/ MakeDirectory \/ OpenDestination \/ SealDirectory \/ CannotCopyOne
        <3>1. Aside(tree, tree')
            BY <1>1, <2>2, StepAside, CannotCopyOneGains
        <3> QED
            BY <1>1, <2>1, <3>1, AsideKeeps, SafeIntact
    <2>3. CASE Rename
        BY <1>1, <2>1, <2>3, RenameSafe
    <2>4. CASE UnlinkSource
        BY <2>4, UnlinkSourceSafe
    <2>5. CASE tree' = tree
        BY <1>1, <2>1, <2>5, SafeIntact
    <2> QED
        BY <1>3, <2>2, <2>3, <2>4, <2>5
           DEF Work, Begin, Refuse, CannotRename, Gone, CannotBegin, List, CannotList,
               Leave, LoseFooting, Count, Counted, SkipEntry, OpenSource,
               CannotOpenSource, CannotOpenDestination, Vanished, Unlink, Enter,
               StepOver, RemoveDirectory, KeepDirectory
<1> QED
    BY <1>2, <1>3

LEMMA NextLossless ==
    ASSUME Ruled, Lossless, [Next]_vars
    PROVE  Lossless'
<1> SUFFICES ASSUME Still', job'.cmd = "move" PROVE Safe(tree', was')
    BY DEF Lossless
<1>1. Still /\ (Work \/ UNCHANGED vars)
    BY StillBefore DEF Ruled
<1>2. CASE Work
    <2>1. Calm /\ was' = was /\ job' = job
        BY <1>1, <1>2, Unfinished, StepFixed DEF Calm
    <2>2. Copyist
        BY <2>1, RuledFits DEF Fit, Copyist
    <2> QED
        BY <1>2, <2>1, <2>2, StepSafe
<1>3. CASE UNCHANGED vars
    <2>1. tree' = tree /\ was' = was /\ job' = job
        BY <1>3 DEF vars
    <2> QED
        BY <1>1, <2>1 DEF Lossless
<1> QED
    BY <1>1, <1>2, <1>3

LEMMA InitRuled == Init => Ruled /\ Lossless
<1> SUFFICES ASSUME Init PROVE Ruled /\ Lossless
    OBVIOUS
<1>1. Inv /\ Stand /\ Counts
    BY InitInv, InitStand, InitCounts
<1>2. /\ pc = "idle" /\ phase = "count" /\ stack = << >> /\ reported = {}
      /\ was = tree /\ tree \in Trees /\ Len(stack) = 0 /\ 1..0 = {}
    BY DEF Init
<1>3. Origin /\ Route /\ Walks /\ Roles
    BY <1>2, EmptyChained DEF Origin, OldOnes, Intact, Route, Walks, Roles
<1>4. \A n \in Nodes : tree[n].copyOf = None
    BY <1>2, TreesAssumption
<1>5. CopyInv
    BY <1>2, <1>4, NoneAssumption DEF CopyInv, Tidy, Copied, Before
<1>6. Intact(tree, was)
    BY <1>2 DEF Intact
<1>7. Safe(tree, was)
    BY <1>2, <1>6, SafeIntact
<1> QED
    BY <1>1, <1>3, <1>5, <1>7 DEF Ruled, Copying, Lossless

(* A move that only the command itself is at work in loses nothing: at any *)
(* moment, should it fail or be killed, what stood in the source is there  *)
(* still or stands, whole, in its place in the destination: no entry is    *)
(* removed that the copy before it has not brought over or that it could   *)
(* not tell of.                                                            *)
THEOREM MoveLosesNothingTheorem == Spec => []MoveLosesNothing
<1>1. Init => Ruled /\ Lossless
    BY InitRuled
<1>2. Ruled /\ Lossless /\ [Next]_vars => Ruled' /\ Lossless'
    BY NextRuled, NextLossless
<1>3. Ruled /\ Lossless => MoveLosesNothing
    BY SafeMove
<1> QED
    BY <1>1, <1>2, <1>3, PTL DEF Spec

-----------------------------------------------------------------------------
(***************************************************************************)
(* What a copy has told when it ends.                                      *)
(***************************************************************************)
Answered(t, w, R) == \A n \in SourceOf(w) : w[n].kind # "special" =>
    \/ \E c \in Nodes : /\ t[c].linked /\ t[c].copyOf = n /\ CopyOf(t, w, c, n)
                        /\ (w[n].kind = "dir" /\ n \in R) \/ t[c].mode = w[n].mode
    \/ n \in Below(w, R)

Told == Still /\ job.cmd = "copy" /\ end \in {"ok", "partial"} =>
    Answered(tree, was, reported)

LEMMA ToldCopies ==
    ASSUME Told
    PROVE  CopiesOrReports
<1> SUFFICES ASSUME Still, job.cmd = "copy", end \in {"ok", "partial"},
                    NEW n \in Nodes, InSource(n), was[n].kind # "special"
             PROVE  \/ \E c \in Nodes :
                           IsCopy(c, n) /\ ((was[n].kind = "dir" /\ n \in reported)
                                               \/ HasMode(c, n))
                    \/ n \in Below(was, reported)
    BY DEF CopiesOrReports
<1>1. n \in SourceOf(was)
    BY DEF InSource, SourceRoots, SourceOf
<1>2. \/ \E c \in Nodes :
             /\ tree[c].linked /\ tree[c].copyOf = n /\ CopyOf(tree, was, c, n)
             /\ (was[n].kind = "dir" /\ n \in reported) \/ tree[c].mode = was[n].mode
      \/ n \in Below(was, reported)
    BY <1>1 DEF Told, Answered
<1>3. ASSUME NEW c \in Nodes, tree[c].linked, tree[c].copyOf = n, CopyOf(tree, was, c, n)
      PROVE  IsCopy(c, n)
    BY <1>3 DEF IsCopy, InPlace, CopyOf, Place
<1> QED
    BY <1>2, <1>3 DEF HasMode

LEMMA BelowAll ==
    ASSUME NEW w \in Trees, NEW R
    PROVE  Beneath(w, R, Below(w, R))
<1> SUFFICES ASSUME NEW n \in SourceOf(w), n \in R \/ w[n].parent \in Below(w, R)
             PROVE  n \in Below(w, R)
    BY DEF Beneath
<1>1. w \in [Nodes -> Inodes] /\ n \in Nodes /\ w[n].linked
    BY SourceIs
<1>2. CASE n \in R
    BY <1>1, <1>2, BelowIs
<1>3. CASE w[n].parent \in Below(w, R)
    <2>1. w[n].parent \in Nodes /\ w[w[n].parent].linked /\ w[n].parent # None
        BY <1>1, <1>3, BelowIs, NoneAssumption
    <2> QED
        BY <1>1, <1>3, <2>1, BelowIs
<1> QED
    BY <1>2, <1>3

(* With no level left, all is answered.                                    *)
LEMMA NoneLeft ==
    ASSUME NEW w \in Trees, NEW t, Tidy(t, w), NEW s, s = << >>, NEW R, NEW j \in Nat,
           Covered(t, w, s, R, j), AllShut(t, w, s, R, None),
           \A n \in SourceOf(w) : w[n].parent = Base => n \in Copied(t)
    PROVE  Answered(t, w, R)
<1> SUFFICES ASSUME NEW n \in SourceOf(w), w[n].kind # "special", n \notin Below(w, R)
             PROVE  \E c \in Nodes :
                        /\ t[c].linked /\ t[c].copyOf = n /\ CopyOf(t, w, c, n)
                        /\ (w[n].kind = "dir" /\ n \in R) \/ t[c].mode = w[n].mode
    BY DEF Answered
<1>1. n \in Nodes /\ n # None
    BY SourceIs, NoneAssumption
<1>2. n \in Copied(t)
    <2>1. Beneath(w, R, Below(w, R))
        BY BelowAll
    <2>2. \A m \in SourceOf(w) :
              m \in Copied(t) \/ m \in Below(w, R) \/ (w[m].kind = "special" /\ j > 0)
        BY <2>1, AllSettled
    <2> QED
        BY <2>2
<1>3. \A c \in Nodes : t[c].linked /\ t[c].copyOf = n => CopyOf(t, w, c, n)
    BY <1>1 DEF Tidy
<1>4. PICK c \in Nodes : t[c].linked /\ t[c].copyOf = n
    BY <1>2 DEF Copied
<1>5. CASE w[n].kind # "dir"
    BY <1>3, <1>4, <1>5 DEF CopyOf
<1>6. CASE w[n].kind = "dir"
    <2>1. ~Entered(s, n) /\ ~Due(s, w, n)
        BY ONLY s = << >>, EmptyLevels
    <2>2. Shut(t, w, n) \/ n \in R
        BY <1>1, <1>2, <1>6, <2>1 DEF AllShut
    <2>3. CASE n \in R
        BY <1>3, <1>4, <1>6, <2>3
    <2>4. CASE Shut(t, w, n)
        BY <1>3, <2>4 DEF Shut
    <2> QED
        BY <2>2, <2>3, <2>4
<1> QED
    BY <1>5, <1>6

LEMMA CopyOneAnswers ==
    ASSUME Copyist, CopyOne
    PROVE  Answered(tree', was, reported)
<1>1. /\ pc = "one" /\ Known /\ CopyInv /\ was \in Trees /\ Copied(tree) = {}
    BY DEF CopyOne, Known, Counts, CopyInv, Before, Copyist
<1>2. /\ Gains(tree, tree', was, Source) /\ Source \in Copied(tree')
      /\ Source \in SourceOf(was) /\ was[Source].kind # "dir"
    BY CopyOneGains
<1>3. was[Source].parent = Base
    BY <1>1, SourceEnd, NoneAssumption DEF CopyOne, Kind
<1>4. Copied(tree') = {Source} /\ Tidy(tree', was)
    BY <1>1, <1>2 DEF Gains
<1>5. \A n \in SourceOf(was) : was[n].parent = Base => n \in Copied(tree')
    BY <1>1, <1>2, <1>3, SourceIs, SourceUnique
<1>6. PICK s : s = << >>
    OBVIOUS
<1>7. Covered(tree', was, s, reported, 0)
    <2>1. \A n \in SourceOf(was) : was[n].parent # Source
        BY <1>1, <1>2, LeafIsNoParent
    <2>2. \A p : ~Entered(s, p)
        BY ONLY <1>6, EmptyLevels
    <2> QED
        BY <1>4, <2>1, <2>2 DEF Covered
<1>8. AllShut(tree', was, s, reported, None)
    BY <1>2, <1>4 DEF AllShut
<1> QED
    BY <1>1, <1>4, <1>5, <1>6, <1>7, <1>8, NoneLeft

LEMMA SealDirectoryAnswers ==
    ASSUME Copyist, SealDirectory, stack = << >>
    PROVE  Answered(tree', was, reported)
<1>1. /\ Gains(tree, tree', was, hand.src) /\ Shut(tree', was, hand.src)
      /\ hand.src \in Copied(tree)
    BY SealDirectoryGains
<1>2. pc = "leave" /\ phase = "copy"
    BY DEF SealDirectory
<1>3. /\ Known /\ pc \notin Before /\ was \in Trees /\ skipped \in Nat
      /\ Chained(stack, was) /\ Covered(tree, was, stack, reported, skipped)
      /\ AllShut(tree, was, stack, reported, hand.src)
    BY <1>2, CopyingIs
<1>4. /\ Covered(tree', was, stack, reported, skipped)
      /\ AllShut(tree', was, stack, reported, None)
    BY <1>1, <1>3, SealCovers
<1>5. \A n \in SourceOf(was) : was[n].parent = Base => n \in Copied(tree')
    BY <1>1, <1>3 DEF Copyist, CopyInv, Gains
<1>6. Tidy(tree', was)
    BY <1>1 DEF Gains
<1> QED
    BY <1>3, <1>4, <1>5, <1>6, NoneLeft

(* A copy ends well in these two ways only.                                *)
LEMMA CopyEnds ==
    ASSUME Ruled, Work, Calm, job.cmd = "copy", end' \in {"ok", "partial"}
    PROVE  /\ CopyOne \/ (SealDirectory /\ stack = << >>)
           /\ reported' = reported
<1>1. /\ end = None /\ phase # "remove" /\ pc # "rename" /\ pc # "settle" /\ pc # "root"
    BY DEF Ruled, Counts, Calm, Walks, Roles, Inv
<1>2. end' # end
    BY <1>1, NoneAssumption
<1>3. ASSUME NEW gone, Advance(gone) PROVE FALSE
    BY <1>1, <1>2, <1>3 DEF Advance
<1>4. ASSUME NEW n, Report(n) PROVE FALSE
    BY <1>3, <1>4 DEF Report, Over
<1>5. CopyOne \/ SealDirectory
    <2>1. ~(CopyEntry \/ SkipEntry \/ CannotCopy \/ CannotOpenSource \/ Vanished \/ Unlink
            \/ StepOver)
        BY <1>3, <1>4 DEF CopyEntry, SkipEntry, CannotCopy, CannotOpenSource, Vanished,
                          Unlink, StepOver
    <2>2. ~Count
        BY <1>2, <1>3 DEF Count
    <2>3. ~(Begin \/ Refuse \/ Rename \/ CannotRename \/ CrossDevices \/ Gone
            \/ CannotCopyOne \/ UnlinkSource \/ BeginTree \/ CannotBegin)
        BY <1>1, <1>2 DEF Begin, Refuse, Rename, CannotRename, CrossDevices, Gone,
                     CannotCopyOne, UnlinkSource, BeginTree, CannotBegin, Over
    <2>4. ~(List \/ CannotList \/ Leave \/ LoseFooting \/ Counted \/ MakeDirectory)
        BY <1>1, <1>2 DEF List, CannotList, Leave, LoseFooting, Counted, MakeDirectory,
                          Over
    <2>5. ~(OpenSource \/ OpenDestination \/ CannotOpenDestination \/ Enter
            \/ RemoveDirectory \/ KeepDirectory)
        BY <1>1, <1>2 DEF OpenSource, OpenDestination, CannotOpenDestination, Enter,
                          RemoveDirectory, KeepDirectory
    <2> QED
        BY <2>1, <2>2, <2>3, <2>4, <2>5 DEF Work
<1>6. SealDirectory => stack = << >>
    BY <1>2 DEF SealDirectory
<1> QED
    BY <1>5, <1>6 DEF CopyOne, SealDirectory, told

LEMMA NextTold ==
    ASSUME Ruled, Told, [Next]_vars
    PROVE  Told'
<1> SUFFICES ASSUME Still', job'.cmd = "copy", end' \in {"ok", "partial"}
             PROVE  Answered(tree', was', reported')
    BY DEF Told
<1>1. Still /\ (Work \/ UNCHANGED vars)
    BY StillBefore DEF Ruled
<1>2. CASE Work
    <2>1. Calm /\ was' = was /\ job' = job
        BY <1>1, <1>2, Unfinished, StepFixed DEF Calm
    <2>2. Copyist
        BY <2>1, RuledFits DEF Fit, Copyist
    <2>3. (CopyOne \/ (SealDirectory /\ stack = << >>)) /\ reported' = reported
        BY <1>2, <2>1, CopyEnds
    <2> QED
        BY <2>1, <2>2, <2>3, CopyOneAnswers, SealDirectoryAnswers
<1>3. CASE UNCHANGED vars
    <2>1. tree' = tree /\ was' = was /\ job' = job /\ reported' = reported /\ end' = end
        BY <1>3 DEF vars, told
    <2> QED
        BY <1>1, <2>1 DEF Told
<1> QED
    BY <1>1, <1>2, <1>3

-----------------------------------------------------------------------------
(***************************************************************************)
(* A removal by force that nothing hinders.                                *)
(***************************************************************************)
(* What is in a directory is in hand, or still to come.                    *)
Tended(u, f, next) == \A n \in Nodes : u[n].linked /\ u[n].parent = f.src =>
    f.todo = None \/ u[n].name \in f.todo \/ n = next

LEMMA AttendTop ==
    ASSUME NEW s \in Seq(Frames), s # << >>, NEW r, Len(r) = Len(s),
           \A i \in 1..(Len(s) - 1) : r[i] = s[i], r[Len(s)].src = s[Len(s)].src,
           r[Len(s)].emptied, NEW t, NEW u, Shrunk(t, u), NEW left, Attended(s, t, left),
           NEW next, Tended(u, r[Len(s)], next)
    PROVE  Attended(r, u, next)
<1>1. Len(s) \in Nat /\ Len(s) >= 1
    OBVIOUS
<1>2. \A i \in 1..Len(s) : r[i].src = s[i].src
    <2> TAKE i \in 1..Len(s)
    <2>1. i = Len(s) \/ i \in 1..(Len(s) - 1)
        BY <1>1
    <2> QED
        BY <2>1
<1>3. ASSUME NEW i \in 1..Len(r)
      PROVE  r[i].emptied /\ \A n \in Nodes : u[n].linked /\ u[n].parent = r[i].src =>
                 \/ r[i].todo = None \/ u[n].name \in r[i].todo
                 \/ i < Len(r) /\ n = r[i + 1].src
                 \/ i = Len(r) /\ n = next
    <2>1. CASE i = Len(s)
        BY <1>1, <2>1 DEF Tended
    <2>2. CASE i # Len(s)
        <3>1. i \in 1..(Len(s) - 1) /\ i + 1 \in 1..Len(s) /\ i < Len(s) /\ i \in 1..Len(s)
            BY <1>1, <2>2
        <3>2. r[i] = s[i] /\ r[i + 1].src = s[i + 1].src
            BY <1>2, <3>1
        <3>3. s[i].emptied /\ \A n \in Nodes : t[n].linked /\ t[n].parent = s[i].src =>
                 \/ s[i].todo = None \/ t[n].name \in s[i].todo
                 \/ n = s[i + 1].src
            BY <2>2, <3>1 DEF Attended
        <3>4. \A n \in Nodes : u[n].linked => /\ t[n].linked /\ u[n].parent = t[n].parent
                                              /\ u[n].name = t[n].name
            BY DEF Shrunk
        <3> QED
            BY <3>1, <3>2, <3>3, <3>4
    <2> QED
        BY <2>1, <2>2
<1> QED
    BY <1>3 DEF Attended

LEMMA AttendPop ==
    ASSUME NEW s \in Seq(Frames), s # << >>, NEW r, Len(r) = Len(s) - 1,
           \A i \in 1..(Len(s) - 1) : SameLevel(r[i], s[i]), NEW t, Attended(s, t, None)
    PROVE  Attended(r, t, s[Len(s)].src)
<1>1. Len(s) \in Nat /\ Len(s) >= 1
    OBVIOUS
<1>2. ASSUME NEW i \in 1..Len(r)
      PROVE  r[i].emptied /\ \A n \in Nodes : t[n].linked /\ t[n].parent = r[i].src =>
                 \/ r[i].todo = None \/ t[n].name \in r[i].todo
                 \/ i < Len(r) /\ n = r[i + 1].src
                 \/ i = Len(r) /\ n = s[Len(s)].src
    <2>1. i \in 1..(Len(s) - 1) /\ i < Len(s) /\ i \in 1..Len(s) /\ i # Len(s)
        BY <1>1
    <2>2. s[i].emptied /\ \A n \in Nodes : t[n].linked /\ t[n].parent = s[i].src =>
              s[i].todo = None \/ t[n].name \in s[i].todo \/ n = s[i + 1].src
        BY <2>1 DEF Attended
    <2>3. r[i].src = s[i].src /\ r[i].todo = s[i].todo /\ r[i].emptied = s[i].emptied
        BY <2>1 DEF SameLevel
    <2>4. CASE i = Len(r)
        <3>1. i + 1 = Len(s)
            BY <1>1, <2>4
        <3> QED
            BY <2>2, <2>3, <2>4, <3>1
    <2>5. CASE i # Len(r)
        <3>1. i + 1 \in 1..(Len(s) - 1) /\ i < Len(r)
            BY <1>1, <2>5
        <3>2. r[i + 1].src = s[i + 1].src
            BY <3>1 DEF SameLevel
        <3> QED
            BY <2>2, <2>3, <3>1, <3>2
    <2> QED
        BY <2>4, <2>5
<1> QED
    BY <1>2 DEF Attended

LEMMA AttendPush ==
    ASSUME NEW s \in Seq(Frames), NEW r, Len(r) = Len(s) + 1,
           \A i \in 1..(Len(s) - 1) : SameLevel(r[i], s[i]), NEW t, NEW u, Shrunk(t, u),
           NEW left, Attended(s, t, left),
           s # << >> => /\ r[Len(s)].src = s[Len(s)].src
                        /\ r[Len(s)].emptied = s[Len(s)].emptied
                        /\ Tended(u, r[Len(s)], r[Len(s) + 1].src),
           r[Len(s) + 1].emptied, r[Len(s) + 1].todo = None
    PROVE  Attended(r, u, None)
<1>1. PICK k \in Nat : k = Len(s)
    OBVIOUS
<1>2. \A n \in Nodes : u[n].linked => /\ t[n].linked /\ u[n].parent = t[n].parent
                                      /\ u[n].name = t[n].name
    BY DEF Shrunk
<1>3. ASSUME NEW i \in 1..(k + 1)
      PROVE  r[i].emptied /\ \A n \in Nodes : u[n].linked /\ u[n].parent = r[i].src =>
                 \/ r[i].todo = None \/ u[n].name \in r[i].todo
                 \/ i < k + 1 /\ n = r[i + 1].src
                 \/ i = k + 1 /\ n = None
    <2>1. CASE i = k + 1
        BY <1>1, <2>1
    <2>2. CASE i = k
        <3>1. s # << >> /\ k \in 1..k
            BY <1>1, <2>2
        <3>2. s[k].emptied
            BY <1>1, <3>1 DEF Attended
        <3>3. r[k].emptied /\ Tended(u, r[k], r[k + 1].src)
            BY <1>1, <3>1, <3>2
        <3>4. i < k + 1
            BY <2>2
        <3> QED
            BY <2>2, <3>3, <3>4 DEF Tended
    <2>3. CASE i < k
        <3>1. i \in 1..(k - 1) /\ i \in 1..k /\ i + 1 \in 1..k
            BY <2>3
        <3>2. s[i].emptied /\ \A n \in Nodes : t[n].linked /\ t[n].parent = s[i].src =>
                 s[i].todo = None \/ t[n].name \in s[i].todo \/ n = s[i + 1].src
            BY <1>1, <2>3, <3>1 DEF Attended
        <3>3. r[i].src = s[i].src /\ r[i].todo = s[i].todo /\ r[i].emptied = s[i].emptied
            BY <1>1, <3>1 DEF SameLevel
        <3>4. r[i + 1].src = s[i + 1].src
            <4>1. i + 1 = k \/ i + 1 \in 1..(k - 1)
                BY <3>1
            <4>2. s # << >>
                BY <1>1, <3>1
            <4> QED
                BY <1>1, <4>1, <4>2 DEF SameLevel
        <3> QED
            BY <1>2, <2>3, <3>2, <3>3, <3>4
    <2> QED
        BY <2>1, <2>2, <2>3
<1> QED
    BY <1>1, <1>3 DEF Attended

Remover ==
    /\ Known /\ Route /\ phase = "remove" /\ Forced /\ faults = 0 /\ faults' = 0
    /\ Clearing

LEMMA RemoverTree ==
    ASSUME Remover
    PROVE  /\ Known /\ tree \in [Nodes -> Inodes] /\ IsTree(tree) /\ Sided(tree)
           /\ was \in Trees /\ was \in [Nodes -> Inodes] /\ stack \in Seq(Frames)
           /\ Shrunk(tree, tree) /\ Attended(stack, tree, LeftDir)
BY KnownTree DEF Remover, Shrunk, Clearing, Known, Stand, Standing

LEMMA NoFault ==
    ASSUME faults = 0, faults' = 0
    PROVE  \A f : ~Fault(f)
BY DEF Fault

(* What is linked stands where it stood.                                   *)
LEMMA NodeOld ==
    ASSUME Known, NEW n \in SourceOf(was), tree[n].linked
    PROVE  /\ tree[n].parent = was[n].parent /\ tree[n].name = was[n].name
           /\ tree[n].kind = was[n].kind
BY KnownTree DEF Known, OldOnes

LEMMA ChildOld ==
    ASSUME Known, NEW d \in SourceOf(was), NEW n \in Nodes, tree[n].linked,
           tree[n].parent = d
    PROVE  n \in SourceOf(was) /\ tree[n].name \in Names
<1>1. d \in Nodes \ {Base} /\ tree[d].side = "source" /\ Sided(tree) /\ was \in Trees
    BY KnownTree
<1>2. tree[n].side = "source"
    BY <1>1, NoneAssumption DEF Sided
<1>3. was[n].linked /\ was[n].parent = d /\ tree[n].name = was[n].name
    BY <1>2 DEF Known, OldOnes
<1>4. n \in SourceOf(was)
    BY <1>1, <1>3, SourceIs
<1> QED
    BY <1>1, <1>3, <1>4, SourceIs

LEMMA TopLinked ==
    ASSUME Remover, stack # << >>
    PROVE  /\ tree[Top.src].linked /\ Top.src \in SourceOf(was) /\ Top.src \in Nodes \ {Base}
           /\ Len(stack) \in 1..Len(stack) /\ Top = stack[Len(stack)]
           /\ tree[Top.src].kind = "dir" /\ Top.emptied
<1>1. /\ Len(stack) \in Nat /\ Len(stack) >= 1 /\ Len(stack) \in 1..Len(stack)
      /\ Top = stack[Len(stack)] /\ Top.src \in SourceOf(was)
      /\ Top.src \in Nodes \ {Base} /\ was[Top.src].kind = "dir"
    BY RemoverTree, TopSource
<1>2. tree[Top.src].linked
    BY <1>1 DEF Remover, Clearing
<1>3. tree[Top.src].kind = "dir"
    BY <1>1, <1>2, RemoverTree, NodeOld
<1>4. Top.emptied
    BY <1>1, RemoverTree DEF Attended
<1> QED
    BY <1>1, <1>2, <1>3, <1>4

(* The entries of the top level, none of them left.                        *)
LEMMA TopTended ==
    ASSUME Remover, stack # << >>, pc # "leave"
    PROVE  Tended(tree, Top, None)
<1>1. Len(stack) \in 1..Len(stack) /\ Top = stack[Len(stack)] /\ Len(stack) \in Nat
    BY TopLinked, RemoverTree
<1>2. LeftDir = None
    BY DEF LeftDir
<1>3. \A n \in Nodes : tree[n].linked /\ tree[n].parent = Top.src =>
          Top.todo = None \/ tree[n].name \in Top.todo \/ n = None
    BY <1>1, <1>2, RemoverTree DEF Attended
<1> QED
    BY <1>3 DEF Tended

LEMMA RemoverHandling ==
    ASSUME Remover, Handling, pc # "root"
    PROVE  /\ pc = "entry" /\ stack # << >> /\ Dir = Top.src
           /\ \A n \in Nodes : tree[n].linked /\ tree[n].parent = Top.src =>
                  tree[n].name \in Top.todo /\ (tree[n].name = Name => n = Entry)
<1>1. Known /\ IsTree(tree)
    BY RemoverTree
<1>2. pc = "entry"
    BY <1>1 DEF Handling, Walking, Known, Stand, InStep, Remover
<1>3. stack # << >> /\ Dir = Top.src
    BY <1>1, <1>2 DEF Known, Inv, Walked, Dir
<1>4. Top.todo \in SUBSET Names
    BY <1>1, <1>2, EntryIs DEF Known
<1>5. Tended(tree, Top, None)
    BY <1>2, <1>3, TopTended
<1>6. ASSUME NEW n \in Nodes, tree[n].linked, tree[n].parent = Top.src
      PROVE  tree[n].name \in Top.todo /\ (tree[n].name = Name => n = Entry)
    <2>1. tree[n].name \in Top.todo
        BY <1>4, <1>5, <1>6, NoneAssumption DEF Tended
    <2>2. tree[n].parent # None
        BY <1>3, <1>6, TopLinked, NoneAssumption
    <2>3. At(tree[n].parent, tree[n].name) = n
        BY <1>1, <1>6, <2>2, AtUnique
    <2> QED
        BY <1>3, <1>6, <2>1, <2>3 DEF Entry
<1> QED
    BY <1>2, <1>3, <1>6

(* The level below the top is the directory that has the top.              *)
LEMMA BelowTop ==
    ASSUME Remover, stack # << >>, Len(stack) # 1
    PROVE  LET below == stack[Len(stack) - 1]
           IN /\ below.src \in Nodes \ {Base} /\ tree[below.src].linked /\ below.dst = None
              /\ Up(Top.src) = below.src /\ Top.dst = None /\ Top.src # None
<1>1. /\ tree[Top.src].linked /\ Top.src \in SourceOf(was) /\ Top.src \in Nodes \ {Base}
      /\ Len(stack) \in 1..Len(stack) /\ Top = stack[Len(stack)]
    BY TopLinked
<1>2. PICK k \in Nat : k = Len(stack)
    BY RemoverTree
<1>3. k \in 1..k /\ k - 1 \in 1..k /\ k # 1
    BY <1>1, <1>2
<1>4. /\ Known /\ Single(stack) /\ Chained(stack, was) /\ IsTree(tree)
    BY RemoverTree DEF Remover, Known, Stand, InStep
<1>5. Linked(stack[k - 1], DirOf(stack, k - 1), was) /\ Linked(Top, stack[k - 1].src, was)
    BY <1>1, <1>2, <1>3, <1>4 DEF Chained, DirOf
<1>6. stack[k - 1].dst = None /\ Top.dst = None
    BY <1>1, <1>2, <1>3, <1>4 DEF Single
<1>7. stack[k - 1].src \in Nodes \ {Base}
    BY <1>4, <1>5, KnownTree DEF Linked
<1>8. tree[Top.src].parent = stack[k - 1].src
    BY <1>1, <1>4, <1>5, NodeOld DEF Linked
<1>9. tree[stack[k - 1].src].linked
    BY <1>1, <1>4, <1>7, <1>8, NoneAssumption DEF IsTree
<1> QED
    BY <1>1, <1>2, <1>6, <1>7, <1>8, <1>9, NoneAssumption DEF Up

(* The directory that the walk has left is there, and empty.               *)
LEMMA LeftHand ==
    ASSUME Remover, pc = "leave"
    PROVE  /\ Left = hand.src /\ hand.src \in Nodes \ {Base} /\ Above \in Nodes
           /\ tree[hand.src].parent = Above /\ tree[hand.src].linked /\ hand.emptied /\ Empty
<1>1. Known /\ Linked(hand, Above, was) /\ Above \in Nodes /\ IsTree(tree)
    BY RemoverTree, AboveIs DEF Remover, Route, Known
<1>2. /\ tree[hand.src].linked /\ hand.emptied
      /\ \A n \in Nodes : ~(tree[n].linked /\ tree[n].parent = hand.src)
    BY DEF Remover, Clearing
<1>3. hand.src \in SourceOf(was) /\ hand.src \in Nodes \ {Base}
    BY <1>1, KnownTree DEF Linked
<1>4. /\ tree[hand.src].parent = Above /\ tree[hand.src].name = hand.name
      /\ tree[hand.src].kind = "dir"
    BY <1>1, <1>2, <1>3, NodeOld DEF Linked
<1>5. Left = hand.src
    BY <1>1, <1>2, <1>3, <1>4, AtUnique, NoneAssumption DEF Left
<1>6. Empty
    BY <1>2, <1>3, <1>4, <1>5, NoneAssumption DEF Empty, Kind, Children, Removable, Remover
<1> QED
    BY <1>1, <1>2, <1>3, <1>4, <1>5, <1>6

(* Nothing goes wrong.                                                     *)
LEMMA Unhindered ==
    ASSUME Remover
    PROVE  ~CannotList /\ ~LoseFooting /\ ~StepOver /\ ~KeepDirectory
<1>1. (\A f : ~Fault(f)) /\ Forced
    BY NoFault DEF Remover
<1>2. ~CannotList
    BY <1>1 DEF CannotList
<1>3. ~StepOver
    BY <1>1 DEF StepOver, Removable
<1>4. ~KeepDirectory
    BY <1>1, LeftHand DEF KeepDirectory
<1>5. ASSUME LoseFooting PROVE FALSE
    <2>1. pc = "entry" /\ Len(stack) > 1 /\ ~Revivable(stack[Len(stack) - 1], Top)
        BY <1>1, <1>5 DEF LoseFooting
    <2>2. stack # << >>
        BY <2>1 DEF Remover, Known, Inv, Walked
    <2>3. PICK k \in Nat : k = Len(stack)
        BY RemoverTree
    <2>4. Len(stack) # 1
        BY <2>1, <2>3
    <2> QED
        BY <2>1, <2>2, <2>4, BelowTop DEF Revivable, SameParent
<1> QED
    BY <1>2, <1>3, <1>4, <1>5

LEMMA GoesOn ==
    ASSUME Remover, stack # << >>, Len(stack') = Len(stack), stack' # << >>,
           \A i \in 1..(Len(stack) - 1) : stack'[i] = stack[i],
           stack'[Len(stack)].src = Top.src, stack'[Len(stack)].emptied,
           Shrunk(tree, tree'), tree'[Top.src].linked,
           Tended(tree', stack'[Len(stack)], None), pc' = "entry"
    PROVE  Clearing'
<1>1. /\ stack \in Seq(Frames) /\ Top = stack[Len(stack)]
      /\ Attended(stack, tree, LeftDir)
    BY RemoverTree, TopLinked
<1>2. Attended(stack', tree', None)
    BY <1>1, AttendTop
<1> QED
    BY <1>2 DEF Clearing, LeftDir

LEMMA RemoverLists ==
    ASSUME Remover, List
    PROVE  pc' # "over" /\ Clearing'
<1>1. pc = "entry" /\ pc' = "entry" /\ tree' = tree /\ Known
    BY DEF List, Remover
<1>2. /\ Len(stack') = Len(stack) /\ stack' # << >> /\ stack # << >>
      /\ \A i \in 1..(Len(stack) - 1) : stack'[i] = stack[i]
      /\ SameDirs(stack'[Len(stack)], Top) /\ stack'[Len(stack)].emptied = Top.emptied
      /\ stack'[Len(stack)].todo = Listing(Top.src)
    BY <1>1, ListLevels
<1>3. tree[Top.src].linked /\ Top.src \in SourceOf(was) /\ Top.emptied
    BY <1>2, TopLinked
<1>4. \A n \in Nodes : tree[n].linked /\ tree[n].parent = Top.src =>
          tree[n].name \in Listing(Top.src)
    BY <1>1, <1>3, ChildOld, AtIs DEF Listing
<1>5. Tended(tree', stack'[Len(stack)], None)
    BY <1>1, <1>2, <1>4 DEF Tended, SameDirs
<1> QED
    BY <1>1, <1>2, <1>3, <1>5, GoesOn, RemoverTree DEF SameDirs

LEMMA RemoverLeaves ==
    ASSUME Remover, Leave
    PROVE  pc' # "over" /\ Clearing'
<1>1. /\ pc = "entry" /\ pc' = "leave" /\ tree' = tree /\ Known /\ Top.todo = {} /\ Pop
      /\ stack # << >>
    BY DEF Leave, Remover, Known, Inv, Walked
<1>2. /\ Len(stack) \in Nat /\ Len(stack) >= 1 /\ Len(stack') = Len(stack) - 1
      /\ hand' = Top
      /\ \A i \in 1..(Len(stack) - 1) : SameLevel(stack'[i], stack[i])
      /\ stack' = << >> <=> Len(stack) = 1
    BY <1>1, PopLevels
<1>3. /\ stack \in Seq(Frames) /\ LeftDir = None /\ Attended(stack, tree, None)
      /\ tree[Top.src].linked /\ Top.emptied /\ Top = stack[Len(stack)]
    BY <1>1, RemoverTree, TopLinked DEF LeftDir
<1>4. Attended(stack', tree, Top.src)
    BY <1>1, <1>2, <1>3, AttendPop
<1>5. stack' # << >> => tree[stack'[Len(stack')].src].linked
    <2> SUFFICES ASSUME stack' # << >> PROVE tree[stack'[Len(stack')].src].linked
        OBVIOUS
    <2>1. Len(stack) # 1 /\ Len(stack) - 1 \in 1..(Len(stack) - 1)
        BY <1>2
    <2>2. stack'[Len(stack')].src = stack[Len(stack) - 1].src
        BY <1>2, <2>1 DEF SameLevel
    <2> QED
        BY <1>1, <2>1, <2>2, BelowTop
<1>6. \A n \in Nodes : ~(tree[n].linked /\ tree[n].parent = Top.src)
    <2>1. Tended(tree, Top, None)
        BY <1>1, TopTended
    <2> QED
        BY <1>1, <2>1, NoneAssumption DEF Tended
<1> QED
    BY <1>1, <1>2, <1>3, <1>4, <1>5, <1>6 DEF Clearing, LeftDir

(* Without its root nothing is left of a source.                           *)
LEMMA RootGone ==
    ASSUME NEW w \in Trees, NEW t \in [Nodes -> Inodes], IsTree(t), OldOnes(t, w),
           \A n \in Nodes : ~(t[n].linked /\ t[n].parent = Base /\ t[n].name = "s")
    PROVE  Cleared(t, w)
<1> DEFINE S == {n \in SourceOf(w) : t[n].linked}
<1>1. ASSUME NEW n \in S
      PROVE  n \in Nat /\ \E p \in S : p < n
    <2>0. n \in SourceOf(w) /\ t[n].linked
        OBVIOUS
    <2> HIDE DEF S
    <2>1. n \in Nodes /\ n \in Nat /\ w[n].linked /\ w[n].side = "source"
        <3>1. n \in Nodes /\ w[n].linked
            BY <2>0, SourceIs
        <3>2. w[n].side = "source"
            BY <2>0, SourceSide
        <3>3. n \in Nat
            BY <3>1, TreesAssumption
        <3> QED
            BY <3>1, <3>2, <3>3
    <2>2. t[n].parent = w[n].parent /\ t[n].name = w[n].name
        BY <2>0, <2>1 DEF OldOnes
    <2>3. w[n].parent # Base
        BY <2>0, <2>1, <2>2, SourceIs
    <2>4. w[n].parent \in SourceOf(w) /\ w[n].parent < n /\ w[n].parent \in Nodes
        BY <2>0, <2>3, SourceIs
    <2>5. t[w[n].parent].linked
        BY <2>0, <2>1, <2>2, <2>4, NoneAssumption DEF IsTree
    <2> QED
        BY <2>1, <2>4, <2>5 DEF S
<1>2. S \subseteq Nat
    BY <1>1
<1> HIDE DEF S
<1>3. S = {}
    <2>1. SUFFICES ASSUME S # {} PROVE FALSE
        OBVIOUS
    <2>2. PICK n \in S : \A m \in S : n <= m
        BY <1>2, <2>1, LeastNumber
    <2>3. PICK p \in S : p < n
        BY <1>1
    <2> QED
        BY <1>2, <2>2, <2>3
<1> QED
    BY <1>3 DEF S, Cleared

LEMMA RootClears ==
    ASSUME Remover, Shrunk(tree, tree'),
           At(Base, "s") # None => ~tree'[At(Base, "s")].linked
    PROVE  Cleared(tree', was)
<1>1. Known /\ tree \in [Nodes -> Inodes] /\ IsTree(tree) /\ was \in Trees
    BY RemoverTree
<1>2. tree' \in [Nodes -> Inodes] /\ IsTree(tree') /\ OldOnes(tree', was)
    BY <1>1, ShrunkTree, ShrunkOld DEF Shrunk, Known
<1>3. ASSUME NEW n \in Nodes, tree'[n].linked, tree'[n].parent = Base, tree'[n].name = "s"
      PROVE  FALSE
    <2>1. tree[n].linked /\ tree[n].parent = Base /\ tree[n].name = "s"
        BY <1>3 DEF Shrunk
    <2>2. Base # None
        BY TreesAssumption, NoneAssumption
    <2>3. At(Base, "s") = n
        BY <1>1, <2>1, <2>2, AtUnique
    <2> QED
        BY <1>3, <2>3, NoneAssumption
<1> QED
    BY <1>1, <1>2, <1>3, RootGone

(* The entry in hand is gone.                                              *)
LEMMA RemoverAdvances ==
    ASSUME Remover, Handling, Advance(TRUE), Shrunk(tree, tree'),
           pc # "root" => tree'[Top.src].linked, Entry # None => ~tree'[Entry].linked
    PROVE  /\ pc' = "over" => end' = "ok" /\ Cleared(tree', was)
           /\ pc' # "over" => Clearing'
<1>1. CASE pc = "root"
    <2>1. pc' = "over" /\ end' = "ok"
        BY <1>1 DEF Advance, Over
    <2>2. Entry = At(Base, "s")
        BY <1>1 DEF Entry, Dir, Name
    <2> QED
        BY <2>1, <2>2, RootClears
<1>2. CASE pc # "root"
    <2>1. /\ pc = "entry" /\ stack # << >> /\ Known
          /\ \A n \in Nodes : tree[n].linked /\ tree[n].parent = Top.src =>
                 tree[n].name \in Top.todo /\ (tree[n].name = Name => n = Entry)
        BY <1>2, RemoverHandling DEF Remover
    <2>2. /\ pc' = "entry" /\ Len(stack') = Len(stack) /\ stack' # << >>
          /\ \A i \in 1..(Len(stack) - 1) : stack'[i] = stack[i]
          /\ SameDirs(stack'[Len(stack)], Top)
          /\ stack'[Len(stack)].todo = Top.todo \ {Name}
          /\ stack'[Len(stack)].emptied = (Top.emptied /\ TRUE)
        BY <1>2, <2>1, AdvanceLevels
    <2>3. Top.emptied
        BY <2>1, TopLinked
    <2>4. ASSUME NEW n \in Nodes, tree'[n].linked, tree'[n].parent = Top.src
          PROVE  tree'[n].name \in Top.todo \ {Name}
        <3>1. tree[n].linked /\ tree[n].parent = Top.src /\ tree[n].name = tree'[n].name
            BY <2>4 DEF Shrunk
        <3>2. n # Entry
            BY <2>4, NoneAssumption
        <3> QED
            BY <2>1, <3>1, <3>2
    <2>5. Tended(tree', stack'[Len(stack)], None)
        BY <2>2, <2>4 DEF Tended, SameDirs
    <2> QED
        BY <1>2, <2>1, <2>2, <2>3, <2>5, GoesOn DEF SameDirs
<1> QED
    BY <1>1, <1>2

LEMMA WithoutUnlinks ==
    ASSUME tree \in [Nodes -> Inodes], NEW n \in Nodes, NEW dir \in Nodes
    PROVE  ~Without(n, dir)[n].linked
<1> DEFINE u == Unlinks(tree, n)
           mode == IF dir = Base THEN u[dir].mode ELSE Free
           v == [u EXCEPT ![dir].mode = mode]
<1>1. u \in [Nodes -> Inodes]
    <2>1. [tree[n] EXCEPT !.linked = FALSE] \in Inodes
        BY Unlinkable
    <2> QED
        BY <2>1 DEF Unlinks
<1>2. ~u[n].linked
    BY DEF Unlinks, Inodes
<1>3. Without(n, dir) = v
    BY DEF Without, Unlinks
<1> HIDE DEF u
<1>4. \A m \in Nodes \ {dir} : v[m] = u[m]
    BY <1>1
<1>5. v[dir].linked = u[dir].linked
    BY <1>1 DEF Inodes
<1> HIDE DEF v
<1>6. ~v[n].linked
    BY <1>2, <1>4, <1>5
<1> QED
    BY <1>3, <1>6

LEMMA RemoverPasses ==
    ASSUME Remover, Vanished \/ Unlink
    PROVE  /\ pc' = "over" => end' = "ok" /\ Cleared(tree', was)
           /\ pc' # "over" => Clearing'
<1>1. Handling /\ Advance(TRUE) /\ Known
    BY DEF Vanished, Unlink, Handling, Remover
<1>2. pc # "root" => stack # << >>
    BY <1>1, RemoverHandling
<1>3. CASE Vanished
    <2>1. Entry = None /\ tree' = tree
        BY <1>3 DEF Vanished
    <2> QED
        BY <1>1, <1>2, <2>1, RemoverTree, TopLinked, RemoverAdvances
<1>4. CASE Unlink
    <2>1. Entry # None /\ tree[Entry].kind # "dir" /\ tree' = Without(Entry, Dir)
        BY <1>4 DEF Unlink, Kind
    <2>2. Entry \in Nodes /\ Dir \in Nodes
        BY <1>1, <2>1, EntryIs DEF Known
    <2>3. Shrunk(tree, tree')
        BY <1>1, <1>4, UnlinkShrinks
    <2>4. ~tree'[Entry].linked
        BY <2>1, <2>2, RemoverTree, WithoutUnlinks
    <2>5. ASSUME pc # "root" PROVE tree'[Top.src].linked
        <3>1. /\ tree[Top.src].linked /\ tree[Top.src].kind = "dir" /\ Top.src \in Nodes
            BY <1>2, <2>5, TopLinked
        <3>2. TreeSound(tree, within) /\ Entry # Base
            BY <1>1, <2>1, BaseSide DEF Known, Stand
        <3>3. \A m \in Nodes : ~(tree[m].linked /\ tree[m].parent = Entry)
            BY <2>1, <2>2, LeafHasNoEntries, RemoverTree
        <3>4. tree'[Top.src].linked = tree[Top.src].linked
            BY <2>1, <2>2, <3>1, <3>2, <3>3, WithoutShrinks
        <3> QED
            BY <3>1, <3>4
    <2> QED
        BY <1>1, <2>1, <2>3, <2>4, <2>5, RemoverAdvances
<1> QED
    BY <1>3, <1>4

LEMMA EnterLinks ==
    ASSUME Known, Enter
    PROVE  \A n \in Nodes : tree'[n].linked = tree[n].linked
<1> DEFINE e == Entry
<1>1. tree' = tree \/ tree' = [tree EXCEPT ![e].mode = Free]
    BY DEF Enter
<1> HIDE DEF e
<1>2. tree \in [Nodes -> Inodes]
    BY KnownTree
<1>3. ASSUME tree' = [tree EXCEPT ![e].mode = Free], NEW n \in Nodes
      PROVE  tree'[n].linked = tree[n].linked
    <2>1. CASE n = e
        BY <1>2, <1>3, <2>1 DEF Inodes
    <2>2. CASE n # e
        BY <1>2, <1>3, <2>2
    <2> QED
        BY <2>1, <2>2
<1> QED
    BY <1>1, <1>3

LEMMA RemoverEnters ==
    ASSUME Remover, Enter
    PROVE  pc' # "over" /\ Clearing'
<1> DEFINE f == Frame(Entry, None, Name, None)
<1>1. /\ Handling /\ Known /\ Kind(Entry) = "dir" /\ pc' = "entry" /\ Push(f)
    BY DEF Enter, Handling, Remover
<1>2. f \in Frames /\ f.src = Entry /\ f.todo = None /\ f.emptied = TRUE
    BY <1>1, EntryFrame
<1>3. Entry \in Nodes /\ tree[Entry].linked
    BY <1>1, EntrySource DEF Kind
<1> HIDE DEF f
<1>4. /\ Len(stack) \in Nat /\ Len(stack') = Len(stack) + 1
      /\ SameLevel(stack'[Len(stack) + 1], f)
      /\ \A i \in 1..(Len(stack) - 1) : SameLevel(stack'[i], stack[i])
      /\ stack # << >> =>
             /\ pc # "root" /\ SameDirs(stack'[Len(stack)], Top)
             /\ stack'[Len(stack)].todo = Top.todo \ {Name}
             /\ stack'[Len(stack)].emptied = Top.emptied
    BY <1>1, <1>2, PushLevels
<1>5. /\ stack'[Len(stack) + 1].src = Entry /\ stack'[Len(stack) + 1].emptied
      /\ stack'[Len(stack) + 1].todo = None
    BY <1>2, <1>4 DEF SameLevel
<1>6. Shrunk(tree, tree') /\ \A n \in Nodes : tree'[n].linked = tree[n].linked
    BY <1>1, EnterShrinks, EnterLinks
<1>7. ASSUME stack # << >>
      PROVE  /\ stack'[Len(stack)].src = stack[Len(stack)].src
             /\ stack'[Len(stack)].emptied = stack[Len(stack)].emptied
             /\ Tended(tree', stack'[Len(stack)], stack'[Len(stack) + 1].src)
    <2>1. pc # "root" /\ Top = stack[Len(stack)]
        BY <1>4, <1>7, TopLinked
    <2>2. \A n \in Nodes : tree[n].linked /\ tree[n].parent = Top.src =>
              tree[n].name \in Top.todo /\ (tree[n].name = Name => n = Entry)
        BY <1>1, <2>1, RemoverHandling
    <2>3. ASSUME NEW n \in Nodes, tree'[n].linked, tree'[n].parent = Top.src
          PROVE  tree'[n].name \in Top.todo \ {Name} \/ n = Entry
        <3>1. tree[n].linked /\ tree[n].parent = Top.src /\ tree[n].name = tree'[n].name
            BY <1>6, <2>3 DEF Shrunk
        <3> QED
            BY <2>2, <3>1
    <2>4. Tended(tree', stack'[Len(stack)], Entry)
        BY <1>4, <1>7, <2>3 DEF Tended, SameDirs
    <2> QED
        BY <1>4, <1>5, <1>7, <2>1, <2>4 DEF SameDirs
<1>8. stack \in Seq(Frames) /\ Attended(stack, tree, LeftDir)
    BY RemoverTree
<1>9. Attended(stack', tree', None)
    BY <1>4, <1>5, <1>6, <1>7, <1>8, AttendPush
<1>10. tree'[stack'[Len(stack')].src].linked
    BY <1>3, <1>4, <1>5, <1>6
<1> QED
    BY <1>1, <1>9, <1>10 DEF Clearing, LeftDir

LEMMA RemoverRemoves ==
    ASSUME Remover, RemoveDirectory
    PROVE  /\ pc' = "over" => end' = "ok" /\ Cleared(tree', was)
           /\ pc' # "over" => Clearing'
<1>1. /\ pc = "leave" /\ Known /\ Children(Left) = {} /\ Left # None
      /\ tree' = Without(Left, Above)
    BY DEF RemoveDirectory, Empty, Kind, Remover
<1>2. /\ Left = hand.src /\ Left \in Nodes \ {Base} /\ Above \in Nodes
      /\ tree[Left].parent = Above /\ tree[Left].linked
    BY <1>1, LeftHand
<1>3. Shrunk(tree, tree') /\ ~tree'[Left].linked
    BY <1>1, <1>2, RemoveDirectoryShrinks, RemoverTree, WithoutUnlinks
<1>4. CASE stack = << >>
    <2>1. pc' = "over" /\ end' = "ok"
        BY <1>4 DEF RemoveDirectory, Over
    <2>2. Above = Base
        BY <1>4 DEF Above
    <2>3. Linked(hand, Base, was)
        BY <1>1, <2>2, AboveIs DEF Remover, Route, Known
    <2>4. hand.name = "s"
        BY <2>3, SourceIs, RemoverTree DEF Linked
    <2>5. Cleared(tree', was)
        BY <1>3, <2>2, <2>4, RootClears DEF Left
    <2> QED
        BY <2>1, <2>5
<1>5. CASE stack # << >>
    <2>1. pc' = "entry" /\ stack' = stack
        BY <1>5 DEF RemoveDirectory
    <2>2. Above = Top.src
        BY <1>5 DEF Above
    <2>3. /\ tree[Top.src].linked /\ Top.src \in Nodes /\ Top.emptied
          /\ Len(stack) \in 1..Len(stack) /\ Top = stack[Len(stack)]
        BY <1>5, TopLinked
    <2>4. Top.src # Left
        BY <1>1, <1>2, <2>2 DEF Children
    <2>5. TreeSound(tree, within)
        BY <1>1 DEF Known, Stand
    <2>6. \A m \in Nodes : ~(tree[m].linked /\ tree[m].parent = Left)
        BY <1>1 DEF Children
    <2>7. tree'[Top.src].linked
        BY <1>1, <1>2, <2>3, <2>4, <2>5, <2>6, WithoutShrinks
    <2>8. \A n \in Nodes : tree[n].linked /\ tree[n].parent = Top.src =>
               Top.todo = None \/ tree[n].name \in Top.todo \/ n = Left
        <3>1. Attended(stack, tree, Left) /\ Len(stack) \in Nat
            BY <1>1, <1>2, RemoverTree DEF LeftDir
        <3> QED
            BY <2>3, <3>1 DEF Attended
    <2>9. Tended(tree', Top, None)
        <3>1. ASSUME NEW n \in Nodes, tree'[n].linked, tree'[n].parent = Top.src
              PROVE  Top.todo = None \/ tree'[n].name \in Top.todo
            <4>1. /\ tree[n].linked /\ tree[n].parent = Top.src
                  /\ tree[n].name = tree'[n].name /\ n # Left
                BY <1>3, <3>1 DEF Shrunk
            <4> QED
                BY <2>8, <4>1
        <3> QED
            BY <3>1 DEF Tended
    <2> QED
        BY <1>3, <1>5, <2>1, <2>3, <2>7, <2>9, GoesOn
<1> QED
    BY <1>4, <1>5

LEMMA RemoverWorks ==
    ASSUME Remover, Work
    PROVE  /\ pc' = "over" => end' = "ok" /\ Cleared(tree', was)
           /\ pc' # "over" => Clearing'
<1>1. Known /\ Route /\ phase = "remove"
    BY DEF Remover
<1>2. pc \notin Before /\ pc # "settle" /\ pc \notin {"open_src", "open_dst"}
    BY <1>1 DEF Route, Known, Before, Stand, InStep
<1>3. \/ List \/ CannotList \/ Leave \/ LoseFooting \/ Vanished \/ Unlink \/ Enter
      \/ StepOver \/ RemoveDirectory \/ KeepDirectory
    BY <1>1, <1>2 DEF Work, Begin, Refuse, Rename, CannotRename, CrossDevices, Gone,
            CopyOne, CannotCopyOne, UnlinkSource, BeginTree, CannotBegin, Count, Counted,
            CopyEntry, SkipEntry, CannotCopy, MakeDirectory, SealDirectory, Before,
            OpenSource, CannotOpenSource, OpenDestination, CannotOpenDestination
<1>4. CASE List \/ Leave \/ Enter
    BY <1>4, RemoverLists, RemoverLeaves, RemoverEnters
<1>5. CASE Vanished \/ Unlink
    BY <1>5, RemoverPasses
<1>6. CASE RemoveDirectory
    BY <1>6, RemoverRemoves
<1> QED
    BY <1>3, <1>4, <1>5, <1>6, Unhindered

(* A fault is remembered.                                                  *)
LEMMA FaultStays ==
    ASSUME Counts, Work, faults' = 0
    PROVE  faults = 0
<1>1. faults' = faults \/ \E f : Fault(f)
    BY DEF Work, Begin, Refuse, Rename, CannotRename, CrossDevices, Gone, CopyOne,
           CannotCopyOne, UnlinkSource, BeginTree, CannotBegin, List, CannotList, Leave,
           LoseFooting, Count, Counted, CopyEntry, SkipEntry, CannotCopy, MakeDirectory,
           OpenSource, CannotOpenSource, OpenDestination, CannotOpenDestination,
           SealDirectory, Vanished, Unlink, Enter, StepOver, RemoveDirectory,
           KeepDirectory, bounds
<1>2. faults \in Nat
    BY JobsAssumption DEF Counts
<1> QED
    BY <1>1, <1>2 DEF Fault

LEMMA NextRemoving ==
    ASSUME Ruled, Removing, [Next]_vars
    PROVE  Removing'
<1> SUFFICES ASSUME Still', faults' = 0, job'.cmd = "remove", job'.force
             PROVE  /\ pc' = "over" => end' = "ok" /\ Cleared(tree', was')
                    /\ pc' # "over" => Clearing'
    BY DEF Removing
<1>1. Still /\ (Work \/ UNCHANGED vars)
    BY StillBefore DEF Ruled
<1>2. CASE Work
    <2>1. Calm /\ was' = was /\ job' = job /\ faults = 0 /\ pc # "over"
        BY <1>1, <1>2, Unfinished, StepFixed, FaultStays DEF Calm, Ruled
    <2>2. Known /\ Route /\ Walks /\ Clearing
        BY <1>1, <2>1, RuledFits DEF Fit, Removing
    <2>3. CASE pc = "idle"
        <3>1. Begin
            BY <1>2, <2>1, <2>3
               DEF Work, Refuse, Rename, CannotRename, CrossDevices, Gone, CopyOne,
                   CannotCopyOne, UnlinkSource, BeginTree, CannotBegin, List, CannotList,
                   Leave, LoseFooting, Count, Counted, CopyEntry, SkipEntry, CannotCopy,
                   MakeDirectory, OpenSource, CannotOpenSource, OpenDestination,
                   CannotOpenDestination, SealDirectory, Vanished, Unlink, Enter,
                   StepOver, RemoveDirectory, KeepDirectory, Walking
        <3>2. pc' = "root" /\ stack' = stack /\ tree' = tree
            BY <2>1, <3>1 DEF Begin, levels
        <3> QED
            BY <2>2, <2>3, <3>2 DEF Clearing, LeftDir
    <2>4. CASE pc # "idle"
        <3>1. Remover
            BY <2>1, <2>2, <2>4 DEF Remover, Walks, Forced
        <3> QED
            BY <1>2, <2>1, <3>1, RemoverWorks
    <2> QED
        BY <2>3, <2>4
<1>3. CASE UNCHANGED vars
    <2>1. UNCHANGED <<tree, was, job, pc, stack, hand, end, faults>>
        BY <1>3 DEF vars, levels, bounds
    <2> QED
        BY <1>1, <2>1 DEF Removing, Clearing, LeftDir
<1> QED
    BY <1>1, <1>2, <1>3

LEMMA InitTold == Init => Told /\ Removing
<1> SUFFICES ASSUME Init PROVE Told /\ Removing
    OBVIOUS
<1>1. pc = "idle" /\ end = None /\ stack = << >> /\ Len(stack) = 0 /\ 1..0 = {}
    BY DEF Init
<1>2. Told
    BY <1>1, NoneAssumption DEF Told
<1>3. Removing
    BY <1>1 DEF Removing, Clearing, Attended
<1> QED
    BY <1>2, <1>3

(* What a command says at its end is true of the tree it leaves, as long   *)
(* as nobody else is at work in it.  A copy that ends well has a copy of   *)
(* every entry in its place and under its mode, but for those on_error()   *)
(* was told of, and what is below them; and rmtree_at() with force, when   *)
(* no call fails, leaves nothing of its tree and has nothing to report.    *)
THEOREM EndsAsReportedTheorem == Spec => []EndsAsReported
<1>1. Init => Ruled /\ Told /\ Removing
    BY InitRuled, InitTold
<1>2. Ruled /\ Told /\ Removing /\ [Next]_vars => Ruled' /\ Told' /\ Removing'
    BY NextRuled, NextTold, NextRemoving
<1>3. Told /\ Removing => EndsAsReported
    <2>1. \A n : InSource(n) <=> n \in SourceOf(was)
        BY DEF InSource, SourceRoots, SourceOf
    <2>2. Removing => ForceRemovesAll
        BY <2>1 DEF ForceRemovesAll, Removing, Cleared
    <2> QED
        BY <2>2, ToldCopies DEF EndsAsReported
<1> QED
    BY <1>1, <1>2, <1>3, PTL DEF Spec
=============================================================================
