------------------------- MODULE PatchSorter_proofs -------------------------
(***************************************************************************)
(* Whatever moves are generated, in whatever order: an answered plan is a   *)
(* chain of valid moves from the start to the target, and "impossible" is   *)
(* answered only when no chain of valid moves leads there.                 *)
(*                                                                         *)
(* The first invariant says that every plan the sorter holds - in a call,   *)
(* in the memory, in the queue, on its way back - leads where it should.    *)
(* The second one says that what a visited configuration leads to has been  *)
(* visited, is still to be tried, or the search has already succeeded.      *)
(***************************************************************************)
EXTENDS PatchSorterProperties, WellFoundedInduction,
        SequenceTheorems, TLAPS

(* Plans that grow at their head or at their end, and what Valids lets through: by an induction
   over a set of naturals. *)

\* The order on Nat, as a set, is well founded.
LEMMA LessIsWellFounded == IsWellFoundedOn({ss \in Nat \X Nat : ss[1] < ss[2]}, Nat)
  BY NatLessThanWellFounded, Zenon DEF OpToRel

\* A set that has 0 and is closed under successor has every natural number.
LEMMA SetInduction ==
  ASSUME NEW S, 0 \in S, \A n \in Nat : n \in S => n + 1 \in S
  PROVE  Nat \subseteq S
<1> DEFINE T == Nat \ S
           R == {ss \in Nat \X Nat : ss[1] < ss[2]}
<1> SUFFICES ASSUME T # {} PROVE FALSE
  OBVIOUS
<1>1. IsWellFoundedOn(R, Nat) /\ T \subseteq Nat
  BY LessIsWellFounded
<1>2. PICK x \in T : \A y \in T : ~(<<y, x>> \in R)
  <2> HIDE DEF R, T
  <2> QED BY <1>1, WFMin, Zenon
<1>3. x # 0 /\ x - 1 \in Nat /\ (x - 1) + 1 = x /\ x - 1 < x
  OBVIOUS
<1>4. x - 1 \in S
  <2> SUFFICES ASSUME x - 1 \notin S PROVE FALSE
    OBVIOUS
  <2>1. x - 1 \in T /\ <<x - 1, x>> \in R
    BY <1>3
  <2> QED
    BY <1>2, <2>1
<1> QED
  BY <1>3, <1>4

----------------------------------------------------------------------------
(* Sequences of whatever elements.                                         *)

IsSeq(s) == \E S : s \in Seq(S)

\* The empty sequence is one.
LEMMA EmptyIsSeq == IsSeq(<<>>)
  BY <<>> \in Seq({}) DEF IsSeq

\* What a sequence is, without the set of its elements.
LEMMA SeqFacts ==
  ASSUME NEW s, IsSeq(s)
  PROVE  /\ Len(s) \in Nat /\ DOMAIN s = 1 .. Len(s)
         /\ s = <<>> <=> Len(s) = 0
  BY DEF IsSeq

\* Appending keeps it a sequence.
LEMMA AppendFacts ==
  ASSUME NEW s, IsSeq(s), NEW x
  PROVE  /\ IsSeq(Append(s, x)) /\ Len(Append(s, x)) = Len(s) + 1
         /\ \A i \in 1 .. Len(s) : Append(s, x)[i] = s[i]
         /\ Append(s, x)[Len(s) + 1] = x
<1>1. PICK S : s \in Seq(S)
  BY DEF IsSeq
<1>2. s \in Seq(S \cup {x})
  BY <1>1
<1>3. Append(s, x) \in Seq(S \cup {x})
  BY <1>2
<1> QED
  BY <1>2, <1>3 DEF IsSeq

\* A move in front of a plan.
LEMMA ConsFacts ==
  ASSUME NEW s, IsSeq(s), NEW x
  PROVE  /\ IsSeq(<<x>> \o s) /\ Len(<<x>> \o s) = Len(s) + 1
         /\ (<<x>> \o s)[1] = x
         /\ \A i \in 1 .. Len(s) : (<<x>> \o s)[i + 1] = s[i]
<1>1. PICK S : s \in Seq(S)
  BY DEF IsSeq
<1>2. s \in Seq(S \cup {x}) /\ <<x>> \in Seq(S \cup {x})
  BY <1>1
<1>3. <<x>> \o s \in Seq(S \cup {x})
  BY <1>2
<1> QED
  BY <1>2, <1>3 DEF IsSeq

\* The rest of a sequence, in front and behind.
LEMMA TailFacts ==
  ASSUME NEW s, IsSeq(s), s # <<>>
  PROVE  /\ IsSeq(Tail(s)) /\ Len(Tail(s)) = Len(s) - 1
         /\ \A i \in 1 .. Len(s) - 1 : Tail(s)[i] = s[i + 1]
         /\ Head(s) = s[1]
<1>1. PICK S : s \in Seq(S)
  BY DEF IsSeq
<1> QED
  BY <1>1 DEF IsSeq

\* What Front of the community modules leaves.
LEMMA FrontFacts ==
  ASSUME NEW s, IsSeq(s), s # <<>>
  PROVE  /\ IsSeq(Front(s)) /\ Len(Front(s)) = Len(s) - 1
         /\ \A i \in 1 .. Len(s) - 1 : Front(s)[i] = s[i]
<1>1. PICK S : s \in Seq(S)
  BY DEF IsSeq
<1>2. Len(s) \in Nat /\ Len(s) # 0 /\ 1 \in Nat /\ Len(s) - 1 \in Nat
  BY <1>1
<1>3. Front(s) = [i \in 1 .. Len(s) - 1 |-> s[i]]
  BY <1>1, <1>2, SubSeqProperties DEF Front
<1>4. Front(s) \in Seq(S) /\ Len(Front(s)) = Len(s) - 1
  BY <1>1, <1>2, <1>3
<1> QED
  BY <1>3, <1>4 DEF IsSeq

----------------------------------------------------------------------------
(* Along.                                                                  *)

\* The recursive function in Along is defined.
LEMMA AlongFacts ==
  ASSUME NEW d, NEW plan, Len(plan) \in Nat
  PROVE  Along(d, plan) =
           [i \in 0 .. Len(plan) |-> IF i = 0 THEN d ELSE ApplyMove(plan[i], Along(d, plan)[i - 1])]
<1> DEFINE Fits(f, n) == f = [i \in 0 .. n |-> IF i = 0 THEN d ELSE ApplyMove(plan[i], f[i - 1])]
           S == {n \in Nat : \E f : Fits(f, n)}
<1>1. 0 \in S
  <2> DEFINE f == [i \in 0 .. 0 |-> d]
  <2>1. Fits(f, 0)
    OBVIOUS
  <2> QED BY <2>1
<1>2. ASSUME NEW n \in Nat, n \in S PROVE n + 1 \in S
  <2>1. PICK f : Fits(f, n)
    BY <1>2
  <2> DEFINE g == [i \in 0 .. n + 1 |-> IF i = n + 1 THEN ApplyMove(plan[n + 1], f[n]) ELSE f[i]]
  <2>2. \A i \in 0 .. n + 1 : g[i] = IF i = 0 THEN d ELSE ApplyMove(plan[i], g[i - 1])
    <3> SUFFICES ASSUME NEW i \in 0 .. n + 1
                 PROVE  g[i] = IF i = 0 THEN d ELSE ApplyMove(plan[i], g[i - 1])
      OBVIOUS
    <3>1. CASE i = n + 1
      BY <3>1
    <3>2. CASE i # n + 1
      <4>1. i \in 0 .. n /\ g[i] = f[i]
        BY <3>2
      <4>2. i # 0 => i - 1 \in 0 .. n + 1 /\ i - 1 # n + 1 /\ g[i - 1] = f[i - 1]
        BY <4>1
      <4>3. f[i] = IF i = 0 THEN d ELSE ApplyMove(plan[i], f[i - 1])
        BY <2>1, <4>1
      <4> QED BY <4>1, <4>2, <4>3
    <3> QED BY <3>1, <3>2
  <2>3. \E h : Fits(h, n + 1)
    BY <2>2
  <2> QED BY <2>3
<1>3. Len(plan) \in S
  <2> HIDE DEF S
  <2> QED BY <1>1, <1>2, SetInduction
<1>4. \E f : Fits(f, Len(plan))
  BY <1>3
<1> QED
  BY <1>4 DEF Along

\* A plan with one more move in front goes where the plan goes from what the
\* move makes.
LEMMA AlongCons ==
  ASSUME NEW d, NEW m, NEW plan, IsSeq(plan)
  PROVE  \A i \in 0 .. Len(plan) :
           Along(d, <<m>> \o plan)[i + 1] = Along(ApplyMove(m, d), plan)[i]
<1> DEFINE long == Along(d, <<m>> \o plan)
           short == Along(ApplyMove(m, d), plan)
           S == {n \in Nat : n <= Len(plan) => long[n + 1] = short[n]}
<1>1. /\ Len(plan) \in Nat /\ Len(<<m>> \o plan) = Len(plan) + 1
      /\ (<<m>> \o plan)[1] = m
      /\ \A i \in 1 .. Len(plan) : (<<m>> \o plan)[i + 1] = plan[i]
  BY ConsFacts, SeqFacts
<1> DEFINE Step(f, i) == IF i = 0 THEN d ELSE ApplyMove((<<m>> \o plan)[i], f[i - 1])
<1>2. \A i \in 0 .. Len(plan) + 1 : long[i] = Step(long, i)
  <2>1. Len(<<m>> \o plan) \in Nat
    BY <1>1
  <2>2. long = [i \in 0 .. Len(<<m>> \o plan) |-> Step(long, i)]
    BY <2>1, AlongFacts
  <2> QED BY <1>1, <2>2
<1>3. \A i \in 0 .. Len(plan) :
        short[i] = IF i = 0 THEN ApplyMove(m, d) ELSE ApplyMove(plan[i], short[i - 1])
  BY <1>1, AlongFacts
<1> HIDE DEF long, short
<1>4. 0 \in S
  <2>1. long[0] = d /\ long[1] = ApplyMove(m, long[0]) /\ short[0] = ApplyMove(m, d)
    BY <1>1, <1>2, <1>3
  <2> QED BY <2>1
<1>5. ASSUME NEW n \in Nat, n \in S PROVE n + 1 \in S
  <2> SUFFICES ASSUME n + 1 <= Len(plan) PROVE long[n + 2] = short[n + 1]
    OBVIOUS
  <2>1. long[n + 1] = short[n]
    BY <1>1, <1>5
  <2>2. long[n + 2] = ApplyMove((<<m>> \o plan)[n + 2], long[n + 1])
    BY <1>1, <1>2
  <2>3. (<<m>> \o plan)[n + 2] = plan[n + 1]
    BY <1>1
  <2>4. short[n + 1] = ApplyMove(plan[n + 1], short[n])
    BY <1>1, <1>3
  <2> QED BY <2>1, <2>2, <2>3, <2>4
<1>6. Nat \subseteq S
  <2> HIDE DEF S
  <2> QED BY <1>4, <1>5, SetInduction
<1> QED
  BY <1>1, <1>6 DEF long, short

\* A plan with one more move at its end goes where the plan goes, and on.
LEMMA AlongAppend ==
  ASSUME NEW d, NEW m, NEW plan, IsSeq(plan)
  PROVE  /\ \A i \in 0 .. Len(plan) : Along(d, Append(plan, m))[i] = Along(d, plan)[i]
         /\ Along(d, Append(plan, m))[Len(plan) + 1] = ApplyMove(m, Along(d, plan)[Len(plan)])
<1> DEFINE long == Along(d, Append(plan, m))
           short == Along(d, plan)
           S == {n \in Nat : n <= Len(plan) => long[n] = short[n]}
<1>1. /\ Len(plan) \in Nat /\ Len(Append(plan, m)) = Len(plan) + 1
      /\ Append(plan, m)[Len(plan) + 1] = m
      /\ \A i \in 1 .. Len(plan) : Append(plan, m)[i] = plan[i]
  BY AppendFacts, SeqFacts
<1> DEFINE Step(f, i) == IF i = 0 THEN d ELSE ApplyMove((Append(plan, m))[i], f[i - 1])
<1>2. \A i \in 0 .. Len(plan) + 1 : long[i] = Step(long, i)
  <2>1. Len(Append(plan, m)) \in Nat
    BY <1>1
  <2>2. long = [i \in 0 .. Len(Append(plan, m)) |-> Step(long, i)]
    BY <2>1, AlongFacts
  <2> QED BY <1>1, <2>2
<1>3. \A i \in 0 .. Len(plan) :
        short[i] = IF i = 0 THEN d ELSE ApplyMove(plan[i], short[i - 1])
  BY <1>1, AlongFacts
<1> HIDE DEF long, short
<1>4. 0 \in S
  BY <1>1, <1>2, <1>3
<1>5. ASSUME NEW n \in Nat, n \in S PROVE n + 1 \in S
  <2> SUFFICES ASSUME n + 1 <= Len(plan) PROVE long[n + 1] = short[n + 1]
    OBVIOUS
  <2>1. long[n] = short[n]
    BY <1>1, <1>5
  <2>2. long[n + 1] = ApplyMove(Append(plan, m)[n + 1], long[n])
    BY <1>1, <1>2
  <2>3. short[n + 1] = ApplyMove(plan[n + 1], short[n])
    BY <1>1, <1>3
  <2> QED BY <1>1, <2>1, <2>2, <2>3
<1>6. Nat \subseteq S
  <2> HIDE DEF S
  <2> QED BY <1>4, <1>5, SetInduction
<1>7. \A i \in 0 .. Len(plan) : long[i] = short[i]
  BY <1>1, <1>6
<1>8. long[Len(plan) + 1] = ApplyMove(m, long[Len(plan)])
  BY <1>1, <1>2
<1> QED
  BY <1>1, <1>7, <1>8 DEF long, short

----------------------------------------------------------------------------
(* Valids.                                                                 *)

\* A move that is generated on a document.
Tried(r, m, d) ==
    \E j \in 1 .. Len(Generate(d, Target(r), r.order)) : m = Generate(d, Target(r), r.order)[j]

\* Valids is a sequence of valid moves, all of them generated.
LEMMA ValidsFacts ==
  ASSUME NEW d, IsSeq(Generate(d, Target(req), req.order))
  PROVE  /\ IsSeq(Valids(d))
         /\ \A i \in 1 .. Len(Valids(d)) : /\ ValidMove(Valids(d)[i], d, Target(req), req.order)
                                           /\ Tried(req, Valids(d)[i], d)
<1> DEFINE moves == Generate(d, Target(req), req.order)
           OK(m) == ValidMove(m, d, Target(req), req.order)
           Next1(s, i) == IF OK(moves[i]) THEN Append(s, moves[i]) ELSE s
           Fits(f, n) == f = [i \in 0 .. n |-> IF i = 0 THEN <<>> ELSE Next1(f[i - 1], i)]
           Was(m) == \E j \in 1 .. Len(moves) : m = moves[j]
           Good(s) == IsSeq(s) /\ \A i \in 1 .. Len(s) : OK(s[i]) /\ Was(s[i])
           S == {n \in Nat : \E f : Fits(f, n)}
<1> HIDE DEF OK
<1>0. Len(moves) \in Nat
  BY SeqFacts
<1>1. 0 \in S
  <2> DEFINE f == [i \in 0 .. 0 |-> <<>>]
  <2>1. Fits(f, 0)
    OBVIOUS
  <2> QED BY <2>1
<1>2. ASSUME NEW n \in Nat, n \in S PROVE n + 1 \in S
  <2>1. PICK f : Fits(f, n)
    BY <1>2
  <2> DEFINE g == [i \in 0 .. n + 1 |-> IF i = n + 1 THEN Next1(f[n], n + 1) ELSE f[i]]
  <2> HIDE DEF Next1
  <2>2. \A i \in 0 .. n + 1 : g[i] = IF i = 0 THEN <<>> ELSE Next1(g[i - 1], i)
    <3> SUFFICES ASSUME NEW i \in 0 .. n + 1
                 PROVE  g[i] = IF i = 0 THEN <<>> ELSE Next1(g[i - 1], i)
      OBVIOUS
    <3>1. CASE i = n + 1
      BY <3>1
    <3>2. CASE i # n + 1
      <4>1. i \in 0 .. n /\ g[i] = f[i]
        BY <3>2
      <4>2. i # 0 => i - 1 \in 0 .. n + 1 /\ i - 1 # n + 1 /\ g[i - 1] = f[i - 1]
        BY <4>1
      <4>3. f[i] = IF i = 0 THEN <<>> ELSE Next1(f[i - 1], i)
        BY <2>1, <4>1
      <4> QED BY <4>1, <4>2, <4>3
    <3> QED BY <3>1, <3>2
  <2>3. \E h : Fits(h, n + 1)
    BY <2>2
  <2> QED BY <2>3
<1>3. Len(moves) \in S
  <2> HIDE DEF S
  <2> QED BY <1>0, <1>1, <1>2, SetInduction
<1> DEFINE among == CHOOSE g : Fits(g, Len(moves))
           R == {n \in Nat : n <= Len(moves) => Good(among[n])}
<1>4. Valids(d) = among[Len(moves)]
  BY DEF Valids, OK
<1>5. Fits(among, Len(moves))
  BY <1>3
<1> HIDE DEF among
<1>6. 0 \in R
  BY <1>0, <1>5, EmptyIsSeq
<1>7. ASSUME NEW n \in Nat, n \in R PROVE n + 1 \in R
  <2> HIDE DEF Good
  <2> SUFFICES ASSUME n + 1 <= Len(moves) PROVE Good(among[n + 1])
    OBVIOUS
  <2> USE DEF Good
  <2> DEFINE s == among[n]
  <2>1. Good(s)
    BY <1>0, <1>7
  <2>2. among[n + 1] = Next1(s, n + 1)
    <3> HIDE DEF Next1
    <3>1. n + 1 \in 0 .. Len(moves) /\ n + 1 # 0 /\ (n + 1) - 1 = n
      BY <1>0
    <3>2. among[n + 1] = Next1(among[(n + 1) - 1], n + 1)
      BY <1>5, <3>1
    <3> QED BY <3>1, <3>2
  <2> HIDE DEF s
  <2>3. CASE OK(moves[n + 1])
    <3> DEFINE long == Append(s, moves[n + 1])
    <3>1. /\ IsSeq(long) /\ Len(s) \in Nat /\ Len(long) = Len(s) + 1
          /\ \A i \in 1 .. Len(s) : long[i] = s[i]
          /\ long[Len(s) + 1] = moves[n + 1]
      BY <2>1, AppendFacts, SeqFacts
    <3>2. among[n + 1] = long
      BY <2>2, <2>3
    <3> HIDE DEF long
    <3>3. \A i \in 1 .. Len(long) : OK(long[i]) /\ Was(long[i])
      <4> SUFFICES ASSUME NEW i \in 1 .. Len(long) PROVE OK(long[i]) /\ Was(long[i])
        OBVIOUS
      <4>1. CASE i = Len(s) + 1
        <5>1. n + 1 \in 1 .. Len(moves)
          BY <1>0
        <5>2. Was(moves[n + 1])
          BY <5>1
        <5> HIDE DEF Was
        <5> QED BY <2>3, <3>1, <4>1, <5>2
      <4>2. CASE i # Len(s) + 1
        <5> HIDE DEF Was
        <5> QED BY <2>1, <3>1, <4>2
      <4> QED BY <4>1, <4>2
    <3> QED BY <3>1, <3>2, <3>3
  <2>4. CASE ~OK(moves[n + 1])
    BY <2>1, <2>2, <2>4
  <2> QED BY <2>3, <2>4
<1>8. Nat \subseteq R
  <2> HIDE DEF R
  <2> QED BY <1>6, <1>7, SetInduction
<1>9. Good(among[Len(moves)])
  BY <1>0, <1>8
<1> QED
  BY <1>4, <1>9 DEF OK, Tried
-----------------------------------------------------------------------------

OK(r, m, d) == ValidMove(m, d, Target(r), r.order) /\ Tried(r, m, d)

\* A plan that leads from d to the target, and one that leads from the start to d.
Leads(r, d, plan) ==
    /\ IsSeq(plan)
    /\ Along(d, plan)[Len(plan)] = Target(r)
    /\ \A i \in 1 .. Len(plan) : OK(r, plan[i], Along(d, plan)[i - 1])

Reaches(r, plan, d) ==
    /\ IsSeq(plan)
    /\ Along(Start(r), plan)[Len(plan)] = d
    /\ \A i \in 1 .. Len(plan) : OK(r, plan[i], Along(Start(r), plan)[i - 1])

LeadsOrNone(r, d, plan) == plan = None \/ Leads(r, d, plan)

CallOK(r, c) ==
    /\ c = [doc |-> c.doc, left |-> c.left, via |-> c.via, best |-> c.best]
    /\ IsSeq(c.left) /\ \A i \in 1 .. Len(c.left) : OK(r, c.left[i], c.doc)
    /\ LeadsOrNone(r, c.doc, c.best)
    /\ c.best # None => r.algorithm = "MEMOIZATION"

\* What the call above the n-th one is about.
Called(r, s, n) == IF n = 0 THEN Start(r) ELSE ApplyMove(s[n].via, s[n].doc)

CallsInv ==
    /\ IsSeq(stack)
    /\ \A n \in 1 .. Len(stack) :
         /\ CallOK(req, stack[n])
         /\ stack[n].doc = Called(req, stack, n - 1)
         /\ n < Len(stack) \/ phase \in {"call", "return"} => OK(req, stack[n].via, stack[n].doc)

PhaseInv ==
    /\ phase \in {"asked", "call", "queue"} => (phase = "call" \/ stack = <<>>)
    /\ phase = "call" => doc = Called(req, stack, Len(stack))
    /\ phase = "loop" => stack # <<>>
    /\ phase = "return" => LeadsOrNone(req, Called(req, stack, Len(stack)), result)
    /\ phase = "sorted" => Leads(req, Start(req), result)
    /\ phase = "impossible" => stack = <<>>
    /\ phase \notin {"queue", "sorted"} => queue = <<>>

MemInv == \A e \in mem : LeadsOrNone(req, e[1], e[2])

QueueInv ==
    /\ IsSeq(queue)
    /\ \A i \in 1 .. Len(queue) : Reaches(req, queue[i].plan, queue[i].doc)

PlanInv == CallsInv /\ PhaseInv /\ MemInv /\ QueueInv

----------------------------------------------------------------------------
(* The plans.                                                              *)

\* At the target there is nothing to do.
LEMMA LeadsAtTarget == ASSUME NEW r PROVE Leads(r, Target(r), <<>>)
<1>1. IsSeq(<<>>) /\ Len(<<>>) = 0
  BY EmptyIsSeq
<1>2. Along(Target(r), <<>>)[0] = Target(r)
  BY <1>1, AlongFacts
<1> QED
  BY <1>1, <1>2 DEF Leads

\* Found: a valid move in front of a plan from where the move goes.
LEMMA LeadsFound ==
  ASSUME NEW r, NEW d, NEW m, NEW plan, OK(r, m, d), Leads(r, ApplyMove(m, d), plan)
  PROVE  Leads(r, d, <<m>> \o plan)
<1> DEFINE long == <<m>> \o plan
<1>1. /\ IsSeq(long) /\ Len(plan) \in Nat /\ Len(long) = Len(plan) + 1
      /\ long[1] = m /\ \A i \in 1 .. Len(plan) : long[i + 1] = plan[i]
  BY ConsFacts, SeqFacts DEF Leads
<1>2. \A i \in 0 .. Len(plan) : Along(d, long)[i + 1] = Along(ApplyMove(m, d), plan)[i]
  BY AlongCons DEF Leads
<1>3. Along(d, long)[0] = d
  <2>1. Along(d, long) =
          [i \in 0 .. Len(long) |-> IF i = 0 THEN d ELSE ApplyMove(long[i], Along(d, long)[i - 1])]
    <3> HIDE DEF long
    <3> QED BY <1>1, AlongFacts
  <2> QED BY <1>1, <2>1
<1> HIDE DEF long
<1>4. Along(d, long)[Len(long)] = Target(r)
  BY <1>1, <1>2 DEF Leads
<1>5. ASSUME NEW i \in 1 .. Len(long) PROVE OK(r, long[i], Along(d, long)[i - 1])
  <2>1. CASE i = 1
    BY <1>1, <1>3, <2>1
  <2>2. CASE i # 1
    <3> DEFINE j == i - 1
    <3>1. j \in 1 .. Len(plan) /\ j - 1 \in 0 .. Len(plan) /\ i = j + 1 /\ i - 1 = (j - 1) + 1
      BY <1>1, <2>2
    <3>2. OK(r, plan[j], Along(ApplyMove(m, d), plan)[j - 1])
      BY <3>1 DEF Leads
    <3>3. long[i] = plan[j]
      BY <1>1, <3>1
    <3>4. Along(d, long)[i - 1] = Along(ApplyMove(m, d), plan)[j - 1]
      <4> HIDE DEF j
      <4> QED BY <1>2, <3>1
    <3> QED BY <3>2, <3>3, <3>4
  <2> QED BY <2>1, <2>2
<1>6. Leads(r, d, long)
  BY <1>1, <1>4, <1>5 DEF Leads
<1> QED
  BY <1>6 DEF long

\* BfsSorter: a valid move behind a plan to where the move starts.
LEMMA ReachesNext ==
  ASSUME NEW r, NEW d, NEW m, NEW plan, OK(r, m, d), Reaches(r, plan, d)
  PROVE  Reaches(r, Append(plan, m), ApplyMove(m, d))
<1> DEFINE long == Append(plan, m)
           s == Start(r)
<1>1. /\ IsSeq(long) /\ Len(plan) \in Nat /\ Len(long) = Len(plan) + 1
      /\ long[Len(plan) + 1] = m /\ \A i \in 1 .. Len(plan) : long[i] = plan[i]
  BY AppendFacts, SeqFacts DEF Reaches
<1>2. /\ \A i \in 0 .. Len(plan) : Along(s, long)[i] = Along(s, plan)[i]
      /\ Along(s, long)[Len(plan) + 1] = ApplyMove(m, Along(s, plan)[Len(plan)])
  BY AlongAppend DEF Reaches
<1> HIDE DEF long
<1>3. Along(s, long)[Len(long)] = ApplyMove(m, d)
  BY <1>1, <1>2 DEF Reaches
<1>4. ASSUME NEW i \in 1 .. Len(long) PROVE OK(r, long[i], Along(s, long)[i - 1])
  <2>1. CASE i = Len(plan) + 1
    <3>1. Along(s, long)[Len(plan)] = d
      BY <1>1, <1>2 DEF Reaches
    <3> QED BY <1>1, <2>1, <3>1
  <2>2. CASE i # Len(plan) + 1
    <3>1. i \in 1 .. Len(plan) /\ i - 1 \in 0 .. Len(plan)
      BY <1>1, <2>2
    <3> QED BY <1>1, <1>2, <3>1 DEF Reaches
  <2> QED BY <2>1, <2>2
<1>5. Reaches(r, long, ApplyMove(m, d))
  BY <1>1, <1>3, <1>4 DEF Reaches
<1> QED
  BY <1>5 DEF long

----------------------------------------------------------------------------
(* The stack of calls.                                                     *)

\* What an update of a call's record leaves alone.
LEMMA CallUpdates ==
  ASSUME NEW c, c = [doc |-> c.doc, left |-> c.left, via |-> c.via, best |-> c.best],
         NEW x, NEW y
  PROVE  /\ [c EXCEPT !.via = x, !.left = y] = [doc |-> c.doc, left |-> y, via |-> x, best |-> c.best]
         /\ [c EXCEPT !.best = x] = [doc |-> c.doc, left |-> c.left, via |-> c.via, best |-> x]
<1> DEFINE e == [c EXCEPT !.via = x]
<1>1. /\ e = [doc |-> c.doc, left |-> c.left, via |-> x, best |-> c.best]
      /\ [c EXCEPT !.best = x] = [doc |-> c.doc, left |-> c.left, via |-> c.via, best |-> x]
  OBVIOUS
<1>2. [c EXCEPT !.via = x, !.left = y] = [e EXCEPT !.left = y]
  OBVIOUS
<1>3. e.doc = c.doc /\ e.left = c.left /\ e.via = x /\ e.best = c.best
  BY <1>1
<1> HIDE DEF e
<1>4. [e EXCEPT !.left = y] = [doc |-> e.doc, left |-> y, via |-> e.via, best |-> e.best]
  BY <1>1, <1>3
<1> QED
  BY <1>1, <1>2, <1>3, <1>4

\* The valid moves of a configuration, in a call that has tried none.
LEMMA NewCallOK ==
  ASSUME NEW d, IsSeq(Generate(d, Target(req), req.order))
  PROVE  CallOK(req, [doc |-> d, left |-> Valids(d), via |-> None, best |-> None])
<1> DEFINE c == [doc |-> d, left |-> Valids(d), via |-> None, best |-> None]
<1>1. c = [doc |-> c.doc, left |-> c.left, via |-> c.via, best |-> c.best]
  OBVIOUS
<1>2. IsSeq(c.left) /\ \A i \in 1 .. Len(c.left) : OK(req, c.left[i], c.doc)
  BY ValidsFacts DEF OK
<1> QED
  BY <1>1, <1>2 DEF CallOK, LeadsOrNone

\* A call returns: the calls below stay as they are, and the one below waits.
LEMMA CallReturns ==
  ASSUME CallsInv, stack # <<>>, stack' = Front(stack), req' = req, phase' = "return"
  PROVE  /\ CallsInv'
         /\ Called(req, stack', Len(stack')) = Top.doc
         /\ CallOK(req, Top)
<1>1. /\ IsSeq(stack') /\ Len(stack) \in Nat \ {0} /\ Len(stack') = Len(stack) - 1
      /\ \A n \in 1 .. Len(stack') : stack'[n] = stack[n]
  <2>1. IsSeq(stack)
    BY DEF CallsInv
  <2>2. Len(stack) \in Nat /\ Len(stack) # 0
    BY <2>1, SeqFacts
  <2>3. /\ IsSeq(Front(stack)) /\ Len(Front(stack)) = Len(stack) - 1
        /\ \A n \in 1 .. Len(stack) - 1 : Front(stack)[n] = stack[n]
    BY <2>1, FrontFacts
  <2> QED BY <2>2, <2>3
<1>2. \A n \in 1 .. Len(stack') : n \in 1 .. Len(stack) /\ n < Len(stack)
  BY <1>1
<1>3. ASSUME NEW n \in 1 .. Len(stack')
      PROVE  /\ CallOK(req, stack'[n])
             /\ stack'[n].doc = Called(req, stack', n - 1)
             /\ OK(req, stack'[n].via, stack'[n].doc)
  <2>1. stack'[n] = stack[n] /\ n \in 1 .. Len(stack) /\ n < Len(stack)
    BY <1>1, <1>2
  <2>2. n - 1 = 0 \/ n - 1 \in 1 .. Len(stack')
    BY <1>1
  <2>3. Called(req, stack', n - 1) = Called(req, stack, n - 1)
    BY <1>1, <2>2 DEF Called
  <2> QED BY <2>1, <2>3 DEF CallsInv
<1>4. Len(stack') = 0 \/ Len(stack') \in 1 .. Len(stack')
  BY <1>1
<1>5. Called(req, stack', Len(stack')) = Called(req, stack, Len(stack) - 1)
  BY <1>1, <1>4 DEF Called
<1>6. Len(stack) \in 1 .. Len(stack)
  BY <1>1
<1> QED
  BY <1>1, <1>3, <1>5, <1>6 DEF CallsInv, Top

\* The call at the top changes: what it has left, is trying or has found.
LEMMA TopChanges ==
  ASSUME CallsInv, stack # <<>>, req' = req, NEW c, c.doc = Top.doc, CallOK(req, c),
         stack' = [stack EXCEPT ![Len(stack)] = c],
         phase' \in {"call", "return"} => OK(req, c.via, c.doc)
  PROVE  CallsInv' /\ Len(stack') = Len(stack) /\ stack' # <<>> /\ Top' = c
<1> DEFINE l == Len(stack)
<1>0. PICK S : stack \in Seq(S)
  BY DEF CallsInv, IsSeq
<1>1. l \in Nat \ {0}
  BY <1>0
<1>2. stack' \in Seq(S \cup {c})
  <2>1. stack \in Seq(S \cup {c})
    BY <1>0
  <2> QED BY <1>1, <2>1
<1>3. Len(stack') = l /\ stack'[l] = c /\ \A n \in 1 .. l : n # l => stack'[n] = stack[n]
  BY <1>0, <1>1
<1> HIDE DEF l
<1>4. ASSUME NEW n \in 1 .. l
      PROVE  /\ CallOK(req, stack'[n])
             /\ stack'[n].doc = Called(req, stack', n - 1)
             /\ n < l \/ phase' \in {"call", "return"} => OK(req, stack'[n].via, stack'[n].doc)
  <2>1. n - 1 = 0 \/ (n - 1 \in 1 .. l /\ n - 1 # l)
    BY <1>1
  <2>2. Called(req, stack', n - 1) = Called(req, stack, n - 1)
    BY <1>3, <2>1 DEF Called
  <2>3. CASE n = l
    BY <1>3, <2>2, <2>3 DEF CallsInv, Top, l
  <2>4. CASE n # l
    <3>1. stack'[n] = stack[n] /\ n < l
      BY <1>1, <1>3, <2>4
    <3> QED BY <2>2, <3>1 DEF CallsInv, l
  <2> QED BY <2>3, <2>4
<1>5. CallsInv'
  BY <1>2, <1>3, <1>4 DEF CallsInv, IsSeq
<1>6. stack' # <<>>
  BY <1>1, <1>2, <1>3
<1> QED
  BY <1>3, <1>5, <1>6 DEF Top, l

\* A new call on top of those that wait.
LEMMA CallAdded ==
  ASSUME CallsInv, PhaseInv, phase = "call", req' = req, phase' = "loop",
         NEW c, c.doc = doc, CallOK(req, c), stack' = Append(stack, c)
  PROVE  CallsInv' /\ Len(stack') = Len(stack) + 1 /\ stack' # <<>>
<1>1. /\ IsSeq(stack') /\ Len(stack) \in Nat /\ Len(stack') = Len(stack) + 1
      /\ stack'[Len(stack) + 1] = c /\ \A n \in 1 .. Len(stack) : stack'[n] = stack[n]
  <2>1. IsSeq(stack)
    BY DEF CallsInv
  <2> QED BY <2>1, AppendFacts, SeqFacts
<1>2. ASSUME NEW n \in 1 .. Len(stack')
      PROVE  /\ CallOK(req, stack'[n])
             /\ stack'[n].doc = Called(req, stack', n - 1)
             /\ n < Len(stack') => OK(req, stack'[n].via, stack'[n].doc)
  <2>1. n - 1 = 0 \/ n - 1 \in 1 .. Len(stack)
    BY <1>1
  <2>2. Called(req, stack', n - 1) = Called(req, stack, n - 1)
    BY <1>1, <2>1 DEF Called
  <2>3. CASE n = Len(stack) + 1
    <3>1. doc = Called(req, stack, n - 1)
      BY <1>1, <2>3 DEF PhaseInv
    <3> QED BY <1>1, <2>2, <2>3, <3>1
  <2>4. CASE n # Len(stack) + 1
    <3>1. n \in 1 .. Len(stack) /\ stack'[n] = stack[n]
      BY <1>1, <2>4
    <3> QED BY <2>2, <3>1 DEF CallsInv
  <2> QED BY <2>3, <2>4
<1> QED
  BY <1>1, <1>2, SeqFacts DEF CallsInv

\* The calls wait or go on: only the phase changes, to one that asks no more.
LEMMA CallsStay ==
  ASSUME CallsInv, stack' = stack, req' = req,
         phase' \in {"call", "return"} => stack = <<>> \/ phase \in {"call", "return"}
  PROVE  CallsInv'
<1>1. Len(stack) \in Nat /\ (stack = <<>> => Len(stack) = 0)
  BY SeqFacts DEF CallsInv
<1>2. \A n \in Nat : Called(req, stack', n) = Called(req, stack, n)
  BY DEF Called
<1>3. \A n \in 1 .. Len(stack) : n - 1 \in Nat
  BY <1>1
<1> QED
  BY <1>1, <1>2, <1>3 DEF CallsInv

\* The call at the top.
LEMMA TopFacts ==
  ASSUME CallsInv, stack # <<>>
  PROVE  /\ Len(stack) \in Nat \ {0}
         /\ CallOK(req, Top)
         /\ Called(req, stack, Len(stack)) = ApplyMove(Top.via, Top.doc)
         /\ phase \in {"call", "return"} => OK(req, Top.via, Top.doc)
<1>1. Len(stack) \in Nat /\ Len(stack) # 0
  BY SeqFacts DEF CallsInv
<1>2. Len(stack) \in 1 .. Len(stack)
  BY <1>1
<1> QED
  BY <1>1, <1>2 DEF CallsInv, Top, Called

----------------------------------------------------------------------------
(* Every step keeps the invariant.                                         *)

\* The phases that no action leaves for the search.
LEMMA InitPlanInv == Init => PlanInv
<1> SUFFICES ASSUME Init PROVE PlanInv
  OBVIOUS
<1>1. IsSeq(<<>>) /\ Len(<<>>) = 0
  BY EmptyIsSeq
<1> QED
  BY <1>1 DEF Init, PlanInv, CallsInv, PhaseInv, MemInv, QueueInv

\* A search starts, or does not.
LEMMA StartKeepsPlanInv ==
  ASSUME PlanInv, Refuse \/ Begin
  PROVE  PlanInv'
<1>0. IsSeq(<<>>) /\ Len(<<>>) = 0 /\ stack = <<>> /\ queue = <<>>
  BY EmptyIsSeq DEF PlanInv, PhaseInv, Refuse, Begin
<1>1. CASE Refuse
  <2>1. CallsInv'
    BY <1>1, CallsStay DEF PlanInv, Refuse
  <2> QED BY <1>0, <1>1, <2>1 DEF PlanInv, PhaseInv, MemInv, QueueInv, Refuse
<1>2. CASE Begin
  <2>1. CallsInv'
    BY <1>0, <1>2, CallsStay DEF PlanInv, Begin
  <2>2. MemInv'
    BY <1>2 DEF PlanInv, MemInv, Begin
  <2>3. CASE req.algorithm = "BFS"
    <3> DEFINE e == [doc |-> Start(req), plan |-> <<>>]
    <3>1. Along(Start(req), <<>>)[0] = Start(req)
      BY <1>0, AlongFacts
    <3>2. Reaches(req, e.plan, e.doc)
      BY <1>0, <3>1 DEF Reaches
    <3>3. queue' = <<e>> /\ req' = req /\ phase' = "queue" /\ stack' = stack
      BY <1>2, <2>3 DEF Begin
    <3> HIDE DEF e
    <3>4. <<e>> \in Seq({e}) /\ Len(<<e>>) = 1 /\ <<e>>[1] = e
      OBVIOUS
    <3>5. QueueInv'
      <4>1. queue' \in Seq({e}) /\ Len(queue') = 1 /\ queue'[1] = e
        BY <3>3, <3>4
      <4>2. IsSeq(queue') /\ \A i \in 1 .. Len(queue') : queue'[i] = e
        BY <4>1 DEF IsSeq
      <4> QED BY <3>2, <3>3, <4>2 DEF QueueInv
    <3>6. PhaseInv'
      BY <1>0, <3>3 DEF PhaseInv
    <3> QED BY <2>1, <2>2, <3>5, <3>6 DEF PlanInv
  <2>4. CASE req.algorithm # "BFS"
    <3>1. QueueInv'
      BY <1>2, <2>4 DEF PlanInv, QueueInv, Begin
    <3>2. PhaseInv'
      BY <1>0, <1>2, <2>4 DEF PhaseInv, Begin, Called
    <3> QED BY <2>1, <2>2, <3>1, <3>2 DEF PlanInv
  <2> QED BY <2>3, <2>4
<1> QED BY <1>1, <1>2

\* What the target or the memory answers, and a configuration met again.
LEMMA ReturnKeepsPlanInv ==
  ASSUME PlanInv, Arrive \/ Recall \/ TurnBack
  PROVE  PlanInv'
<1>1. phase = "call" /\ phase' = "return" /\ UNCHANGED <<req, doc, stack, mem, queue>>
  BY DEF Arrive, Recall, TurnBack, Return
<1>2. doc = Called(req, stack, Len(stack))
  BY <1>1 DEF PlanInv, PhaseInv
<1>3. LeadsOrNone(req, doc, result')
  <2>1. CASE Arrive
    BY <2>1, LeadsAtTarget DEF Arrive, Return, LeadsOrNone
  <2>2. CASE Recall
    <3>1. PICK e \in mem : e[1] = doc /\ result' = e[2]
      BY <2>2 DEF Recall, Return
    <3> QED BY <3>1 DEF PlanInv, MemInv
  <2>3. CASE TurnBack
    BY <2>3 DEF TurnBack, Return, LeadsOrNone
  <2> QED BY <2>1, <2>2, <2>3
<1>4. CallsInv'
  BY <1>1, CallsStay DEF PlanInv
<1>5. Called(req', stack', Len(stack')) = doc
  BY <1>1, <1>2 DEF Called
<1>6. PhaseInv'
  BY <1>1, <1>3, <1>5 DEF PlanInv, PhaseInv
<1> QED
  BY <1>1, <1>4, <1>6 DEF PlanInv, MemInv, QueueInv

\* A new call, with the valid moves of its configuration.
LEMMA VisitKeepsPlanInv ==
  ASSUME PlanInv, Visit, \A d, t, o : IsSeq(Generate(d, t, o))
  PROVE  PlanInv'
<1> DEFINE c == [doc |-> doc, left |-> Valids(doc), via |-> None, best |-> None]
<1>1. CallOK(req, c) /\ c.doc = doc
  BY NewCallOK
<1>2. stack' = Append(stack, c) /\ phase = "call" /\ phase' = "loop"
      /\ UNCHANGED <<req, mem, queue>>
  BY DEF Visit
<1> HIDE DEF c
<1>3. CallsInv' /\ stack' # <<>>
  BY <1>1, <1>2, CallAdded DEF PlanInv
<1> QED
  BY <1>2, <1>3 DEF PlanInv, PhaseInv, MemInv, QueueInv

\* The loop takes its next valid move.
LEMMA DescendKeepsPlanInv ==
  ASSUME PlanInv, Descend
  PROVE  PlanInv'
<1> DEFINE c == [Top EXCEPT !.via = Head(Top.left), !.left = Tail(Top.left)]
<1>0. stack # <<>> /\ phase = "loop" /\ phase' = "call" /\ UNCHANGED <<req, mem, queue>>
  BY DEF PlanInv, PhaseInv, Descend
<1>1. CallOK(req, Top) /\ Top.left # <<>>
  BY <1>0, TopFacts DEF PlanInv, Descend
<1>2. /\ IsSeq(Tail(Top.left)) /\ Len(Tail(Top.left)) = Len(Top.left) - 1
      /\ Len(Top.left) \in Nat \ {0} /\ Head(Top.left) = Top.left[1]
      /\ \A i \in 1 .. Len(Top.left) - 1 : Tail(Top.left)[i] = Top.left[i + 1]
  BY <1>1, TailFacts, SeqFacts DEF CallOK
<1>3. /\ c = [doc |-> Top.doc, left |-> Tail(Top.left), via |-> Head(Top.left), best |-> Top.best]
      /\ c.doc = Top.doc
  <2>1. c = [doc |-> Top.doc, left |-> Tail(Top.left), via |-> Head(Top.left), best |-> Top.best]
    BY <1>1, CallUpdates DEF CallOK
  <2> QED BY <2>1
<1>4. stack' = [stack EXCEPT ![Len(stack)] = c]
  <2>1. Len(stack) \in DOMAIN stack
    BY <1>0, TopFacts, SeqFacts DEF PlanInv, CallsInv
  <2> QED BY <1>1, <2>1 DEF Descend, Top, CallOK
<1>5. OK(req, c.via, c.doc)
  BY <1>1, <1>2, <1>3 DEF CallOK
<1>6. \A i \in 1 .. Len(Tail(Top.left)) : OK(req, Tail(Top.left)[i], Top.doc)
  BY <1>1, <1>2 DEF CallOK
<1>7. CallOK(req, c)
  BY <1>1, <1>2, <1>3, <1>6 DEF CallOK
<1>8. doc' = ApplyMove(c.via, c.doc)
  BY <1>3 DEF Descend
<1> HIDE DEF c
<1>9. CallsInv' /\ stack' # <<>> /\ Len(stack') = Len(stack) /\ Top' = c
  BY <1>0, <1>3, <1>4, <1>5, <1>7, TopChanges DEF PlanInv
<1>10. doc' = Called(req', stack', Len(stack'))
  <2>1. Len(stack') # 0
    BY <1>0, <1>9, TopFacts DEF PlanInv
  <2> QED BY <1>8, <1>9, <2>1 DEF Called, Top
<1> QED
  BY <1>0, <1>9, <1>10 DEF PlanInv, PhaseInv, MemInv, QueueInv

\* Nothing is left to try.
LEMMA ExhaustKeepsPlanInv ==
  ASSUME PlanInv, Exhaust
  PROVE  PlanInv'
<1>0. stack # <<>> /\ stack' = Front(stack) /\ phase' = "return" /\ UNCHANGED <<req, queue>>
      /\ phase = "loop"
  BY DEF PlanInv, PhaseInv, Exhaust, Return
<1>1. CallsInv' /\ Called(req, stack', Len(stack')) = Top.doc /\ CallOK(req, Top)
  BY <1>0, CallReturns DEF PlanInv
<1>2. LeadsOrNone(req, Top.doc, result') /\ MemInv'
  <2>1. CASE req.algorithm = "MEMOIZATION"
    <3>1. mem' = mem \cup {<<Top.doc, Top.best>>} /\ result' = Top.best
      BY <2>1 DEF Exhaust, Return
    <3> QED BY <1>0, <1>1, <3>1 DEF PlanInv, MemInv, CallOK
  <2>2. CASE req.algorithm # "MEMOIZATION"
    BY <1>0, <2>2 DEF PlanInv, MemInv, Exhaust, Return, LeadsOrNone
  <2> QED BY <2>1, <2>2
<1>3. Called(req', stack', Len(stack')) = Top.doc
  BY <1>0, <1>1
<1>4. PhaseInv'
  BY <1>0, <1>2, <1>3 DEF PlanInv, PhaseInv
<1> QED
  BY <1>0, <1>1, <1>2, <1>4 DEF PlanInv, QueueInv

\* DfsSorter passes the plan on, with its move in front.
LEMMA PassOnKeepsPlanInv ==
  ASSUME PlanInv, PassOn
  PROVE  PlanInv'
<1>0. stack # <<>> /\ stack' = Front(stack) /\ phase = "return" /\ phase' = "return"
      /\ result # None /\ result' = <<Top.via>> \o result /\ UNCHANGED <<req, mem, queue>>
  BY DEF PassOn, Found
<1>1. CallsInv' /\ Called(req, stack', Len(stack')) = Top.doc
  BY <1>0, CallReturns DEF PlanInv
<1>2. OK(req, Top.via, Top.doc) /\ Leads(req, ApplyMove(Top.via, Top.doc), result)
  BY <1>0, TopFacts DEF PlanInv, PhaseInv, LeadsOrNone
<1>3. Leads(req, Top.doc, result')
  BY <1>0, <1>2, LeadsFound
<1>4. LeadsOrNone(req', Called(req', stack', Len(stack')), result')
  BY <1>0, <1>1, <1>3 DEF LeadsOrNone
<1>5. PhaseInv'
  BY <1>0, <1>4 DEF PlanInv, PhaseInv
<1> QED
  BY <1>0, <1>1, <1>5 DEF PlanInv, MemInv, QueueInv

\* MemoizationSorter keeps a plan that is shorter.
LEMMA ImproveKeepsPlanInv ==
  ASSUME PlanInv, Improve
  PROVE  PlanInv'
<1> DEFINE c == [Top EXCEPT !.best = <<Top.via>> \o result]
<1>0. stack # <<>> /\ phase = "return" /\ phase' = "loop" /\ result # None
      /\ req.algorithm = "MEMOIZATION" /\ UNCHANGED <<req, mem, queue>>
  BY DEF Improve
<1>1. /\ CallOK(req, Top)
      /\ OK(req, Top.via, Top.doc) /\ Leads(req, ApplyMove(Top.via, Top.doc), result)
  BY <1>0, TopFacts DEF PlanInv, PhaseInv, LeadsOrNone
<1>2. Leads(req, Top.doc, <<Top.via>> \o result)
  BY <1>1, LeadsFound
<1>3. /\ c = [doc |-> Top.doc, left |-> Top.left, via |-> Top.via, best |-> <<Top.via>> \o result]
      /\ c.doc = Top.doc
  <2>1. c = [doc |-> Top.doc, left |-> Top.left, via |-> Top.via, best |-> <<Top.via>> \o result]
    BY <1>1, CallUpdates DEF CallOK
  <2> QED BY <2>1
<1>4. stack' = [stack EXCEPT ![Len(stack)] = c]
  <2>1. Len(stack) \in DOMAIN stack
    BY <1>0, TopFacts, SeqFacts DEF PlanInv, CallsInv
  <2> QED BY <1>1, <2>1 DEF Improve, Found, Top, CallOK
<1>5. CallOK(req, c)
  BY <1>0, <1>1, <1>2, <1>3 DEF CallOK, LeadsOrNone
<1> HIDE DEF c
<1>6. CallsInv' /\ stack' # <<>>
  BY <1>0, <1>3, <1>4, <1>5, TopChanges DEF PlanInv
<1> QED
  BY <1>0, <1>6 DEF PlanInv, PhaseInv, MemInv, QueueInv

\* The loop goes on, or the answer is given.
LEMMA GoOnKeepsPlanInv ==
  ASSUME PlanInv, Ignore \/ Answer
  PROVE  PlanInv'
<1>1. CASE Ignore
  <2>1. CallsInv'
    BY <1>1, CallsStay DEF PlanInv, Ignore
  <2> QED BY <1>1, <2>1 DEF PlanInv, PhaseInv, MemInv, QueueInv, Ignore
<1>2. CASE Answer
  <2>1. CallsInv'
    BY <1>2, CallsStay DEF PlanInv, Answer
  <2>2. Len(stack) = 0
    BY <1>2, SeqFacts DEF PlanInv, CallsInv, Answer
  <2>3. LeadsOrNone(req, Start(req), result)
    BY <1>2, <2>2 DEF PlanInv, PhaseInv, Answer, Called
  <2> QED BY <1>2, <2>1, <2>3 DEF PlanInv, PhaseInv, MemInv, QueueInv, Answer, LeadsOrNone
<1> QED BY <1>1, <1>2

\* BfsSorter takes an entry out of its queue.
LEMMA DequeueKeepsPlanInv ==
  ASSUME PlanInv, Skip \/ Finish \/ Drained
  PROVE  PlanInv'
<1>1. CallsInv'
  BY CallsStay DEF PlanInv, Skip, Finish, Drained
<1>2. CASE Skip \/ Finish
  <2>1. IsSeq(queue) /\ queue # <<>> /\ queue' = Tail(queue)
    BY <1>2 DEF PlanInv, QueueInv, Skip, Finish
  <2>2. /\ IsSeq(queue') /\ Len(queue') = Len(queue) - 1 /\ Len(queue) \in Nat \ {0}
        /\ \A i \in 1 .. Len(queue) - 1 : queue'[i] = queue[i + 1]
    BY <2>1, TailFacts, SeqFacts
  <2>3. req' = req
    BY <1>2 DEF Skip, Finish
  <2>4. QueueInv'
    BY <2>2, <2>3 DEF PlanInv, QueueInv
  <2>5. Reaches(req, Entry.plan, Entry.doc)
    BY <2>2 DEF PlanInv, QueueInv, Entry
  <2>6. PhaseInv'
    <3>1. CASE Skip
      BY <3>1 DEF PlanInv, PhaseInv, Skip
    <3>2. CASE Finish
      <4>1. phase = "queue" /\ phase' = "sorted" /\ result' = Entry.plan /\ Entry.doc = Target(req)
        BY <3>2 DEF Finish
      <4>2. Leads(req, Start(req), result')
        BY <2>5, <4>1 DEF Leads, Reaches
      <4> QED BY <2>3, <4>1, <4>2 DEF PlanInv, PhaseInv
    <3> QED BY <1>2, <3>1, <3>2
  <2>7. MemInv'
    BY <1>2 DEF PlanInv, MemInv, Skip, Finish
  <2> QED BY <1>1, <2>4, <2>6, <2>7 DEF PlanInv
<1>3. CASE Drained
  BY <1>1, <1>3 DEF PlanInv, PhaseInv, MemInv, QueueInv, Drained
<1> QED BY <1>2, <1>3

\* What BfsSorter puts behind the rest of its queue.
LEMMA ExpandedQueue ==
  ASSUME QueueInv, Expand, \A d, t, o : IsSeq(Generate(d, t, o))
  PROVE  /\ IsSeq(queue') /\ IsSeq(Valids(Entry.doc))
         /\ Len(queue) \in Nat \ {0} /\ Len(Valids(Entry.doc)) \in Nat
         /\ Len(queue') = Len(queue) - 1 + Len(Valids(Entry.doc))
         /\ \A i \in 1 .. Len(queue) - 1 : queue'[i] = queue[i + 1]
         /\ \A i \in 1 .. Len(Valids(Entry.doc)) :
              queue'[Len(queue) - 1 + i] = [doc  |-> ApplyMove(Valids(Entry.doc)[i], Entry.doc),
                                            plan |-> Append(Entry.plan, Valids(Entry.doc)[i])]
<1> DEFINE valid == Valids(Entry.doc)
           next(i) == [doc  |-> ApplyMove(valid[i], Entry.doc), plan |-> Append(Entry.plan, valid[i])]
           new == [i \in 1 .. Len(valid) |-> next(i)]
           rest == Tail(queue)
<1>1. /\ IsSeq(rest) /\ Len(rest) = Len(queue) - 1 /\ Len(queue) \in Nat \ {0}
      /\ \A i \in 1 .. Len(queue) - 1 : rest[i] = queue[i + 1]
  BY TailFacts, SeqFacts DEF QueueInv, Expand
<1>2. IsSeq(valid)
  BY ValidsFacts
<1>3. Len(valid) \in Nat /\ DOMAIN valid = 1 .. Len(valid)
  BY <1>2, SeqFacts
<1>4. queue' = rest \o new
  BY <1>3 DEF Expand
<1> HIDE DEF next, rest, valid
<1>5. PICK R : rest \in Seq(R)
  BY <1>1 DEF IsSeq
<1> DEFINE S == R \cup {next(i) : i \in 1 .. Len(valid)}
<1>6. \A i \in 1 .. Len(valid) : next(i) \in S
  OBVIOUS
<1>7. new \in Seq(S) /\ rest \in Seq(S) /\ Len(new) = Len(valid)
  <2> HIDE DEF next
  <2>1. rest \in Seq(S)
    BY <1>5
  <2> HIDE DEF S
  <2>2. new \in Seq(S) /\ Len(new) = Len(valid)
    BY <1>3, <1>6
  <2> QED BY <2>1, <2>2
<1>8. \A i \in 1 .. Len(valid) : new[i] = next(i)
  OBVIOUS
<1> HIDE DEF new, S
<1>9. queue' \in Seq(S) /\ Len(queue') = Len(rest) + Len(valid)
  <2>1. rest \o new \in Seq(S) /\ Len(rest \o new) = Len(rest) + Len(new)
    BY <1>7, ConcatProperties
  <2> QED BY <1>4, <1>7, <2>1
<1>10. /\ \A i \in 1 .. Len(rest) : queue'[i] = rest[i]
       /\ \A i \in 1 .. Len(valid) : queue'[Len(rest) + i] = new[i]
  <2> DEFINE both == rest \o new
             k == Len(rest)
  <2>1. \A i \in 1 .. k + Len(new) : both[i] = IF i <= k THEN rest[i] ELSE new[i - k]
    BY <1>7, ConcatProperties
  <2>2. k \in Nat /\ Len(new) \in Nat
    BY <1>7, LenProperties
  <2> HIDE DEF both, k
  <2>3. \A i \in 1 .. k : both[i] = rest[i]
    BY <2>1, <2>2
  <2>4. \A i \in 1 .. Len(new) : k + i \in 1 .. k + Len(new) /\ ~(k + i <= k) /\ (k + i) - k = i
    BY <2>2
  <2>5. \A i \in 1 .. Len(new) : both[k + i] = new[i]
    BY <2>1, <2>4
  <2> QED BY <1>4, <1>7, <2>3, <2>5 DEF both, k
<1>11. IsSeq(queue')
  BY <1>9 DEF IsSeq
<1> QED
  BY <1>1, <1>2, <1>3, <1>8, <1>9, <1>10, <1>11 DEF next, valid

\* A configuration of the queue is expanded.
LEMMA ExpandKeepsPlanInv ==
  ASSUME PlanInv, Expand, \A d, t, o : IsSeq(Generate(d, t, o))
  PROVE  PlanInv'
<1> DEFINE valid == Valids(Entry.doc)
           l == Len(queue) - 1
<1>1. /\ IsSeq(queue') /\ IsSeq(valid) /\ Len(queue) \in Nat \ {0} /\ Len(valid) \in Nat
      /\ Len(queue') = l + Len(valid)
      /\ \A i \in 1 .. l : queue'[i] = queue[i + 1]
      /\ \A i \in 1 .. Len(valid) :
           queue'[l + i] = [doc  |-> ApplyMove(valid[i], Entry.doc), plan |-> Append(Entry.plan, valid[i])]
  BY ExpandedQueue DEF PlanInv
<1>2. req' = req /\ stack' = stack /\ phase' = phase /\ phase = "queue" /\ mem' = mem
      /\ UNCHANGED <<doc, result>>
  BY DEF Expand
<1>3. \A i \in 1 .. Len(valid) : OK(req, valid[i], Entry.doc)
  BY ValidsFacts DEF OK
<1>4. Reaches(req, Entry.plan, Entry.doc)
  BY <1>1 DEF PlanInv, QueueInv, Entry
<1> HIDE DEF valid
<1>5. ASSUME NEW i \in 1 .. Len(queue')
      PROVE  Reaches(req, queue'[i].plan, queue'[i].doc)
  <2>1. CASE i \in 1 .. l
    <3>1. i + 1 \in 1 .. Len(queue) /\ queue'[i] = queue[i + 1]
      BY <1>1, <2>1
    <3> QED BY <3>1 DEF PlanInv, QueueInv
  <2>2. CASE i \notin 1 .. l
    <3> DEFINE j == i - l
    <3>1. j \in 1 .. Len(valid) /\ i = l + j
      BY <1>1, <2>2
    <3>2. OK(req, valid[j], Entry.doc)
      BY <1>3, <3>1
    <3> HIDE DEF j, l
    <3>3. queue'[i] = [doc |-> ApplyMove(valid[j], Entry.doc), plan |-> Append(Entry.plan, valid[j])]
      BY <1>1, <3>1
    <3> QED BY <1>4, <3>2, <3>3, ReachesNext
  <2> QED BY <2>1, <2>2
<1>6. QueueInv'
  BY <1>1, <1>2, <1>5 DEF QueueInv
<1>7. CallsInv'
  BY <1>2, CallsStay DEF PlanInv
<1>8. PhaseInv' /\ MemInv'
  BY <1>2 DEF PlanInv, PhaseInv, MemInv
<1> QED BY <1>6, <1>7, <1>8 DEF PlanInv

\* Doing nothing.
LEMMA StutterKeepsPlanInv == PlanInv /\ UNCHANGED vars => PlanInv'
<1> SUFFICES ASSUME PlanInv, UNCHANGED vars PROVE PlanInv'
  OBVIOUS
<1>1. CallsInv'
  BY CallsStay DEF PlanInv, vars
<1> QED
  BY <1>1 DEF PlanInv, PhaseInv, MemInv, QueueInv, vars, Called

\* Every plan the sorter holds leads where it should.
THEOREM PlansLead ==
  ASSUME \A d, t, o : IsSeq(Generate(d, t, o))
  PROVE  Spec => []PlanInv
<1>1. Init => PlanInv
  BY InitPlanInv
<1>2. PlanInv /\ [Next]_vars => PlanInv'
  <2> SUFFICES ASSUME PlanInv, [Next]_vars PROVE PlanInv'
    OBVIOUS
  <2>1. CASE Refuse \/ Begin
    BY <2>1, StartKeepsPlanInv
  <2>2. CASE Arrive \/ Recall \/ TurnBack
    BY <2>2, ReturnKeepsPlanInv
  <2>3. CASE Visit
    BY <2>3, VisitKeepsPlanInv
  <2>4. CASE Descend
    BY <2>4, DescendKeepsPlanInv
  <2>5. CASE Exhaust
    BY <2>5, ExhaustKeepsPlanInv
  <2>6. CASE PassOn
    BY <2>6, PassOnKeepsPlanInv
  <2>7. CASE Improve
    BY <2>7, ImproveKeepsPlanInv
  <2>8. CASE Ignore \/ Answer
    BY <2>8, GoOnKeepsPlanInv
  <2>9. CASE Skip \/ Finish \/ Drained
    BY <2>9, DequeueKeepsPlanInv
  <2>10. CASE Expand
    BY <2>10, ExpandKeepsPlanInv
  <2>11. CASE UNCHANGED vars
    BY <2>11, StutterKeepsPlanInv
  <2> QED
    BY <2>1, <2>2, <2>3, <2>4, <2>5, <2>6, <2>7, <2>8, <2>9, <2>10, <2>11 DEF Next
<1> QED
  BY <1>1, <1>2, PTL DEF Spec

----------------------------------------------------------------------------
(* What follows for an answer.                                             *)

\* An answered plan goes through valid configurations only, to the target.
THEOREM AnswersAreSound ==
  ASSUME \A d, t, o : IsSeq(Generate(d, t, o))
  PROVE  Spec => []PlanIsSound
<1>1. PlanInv => PlanIsSound
  <2> SUFFICES ASSUME PlanInv, Sorted
               PROVE  /\ Along(Start(req), result)[Len(result)] = Target(req)
                      /\ \A s \in Steps : Valid(s[2])
    BY DEF PlanIsSound
  <2> DEFINE docs == Along(Start(req), result)
  <2>1. Leads(req, Start(req), result)
    BY DEF PlanInv, PhaseInv, Sorted
  <2>2. Len(result) \in Nat
    BY <2>1, SeqFacts DEF Leads
  <2>3. docs = [i \in 0 .. Len(result) |->
                  IF i = 0 THEN Start(req) ELSE ApplyMove(result[i], docs[i - 1])]
    BY <2>2, AlongFacts
  <2>4. ASSUME NEW i \in 1 .. Len(result) PROVE Valid(docs[i])
    <3>1. ValidMove(result[i], docs[i - 1], Target(req), req.order)
      BY <2>1 DEF Leads, OK
    <3>2. docs[i] = ApplyMove(result[i], docs[i - 1])
      <4> HIDE DEF docs
      <4> QED BY <2>2, <2>3
    <3> HIDE DEF docs
    <3> QED BY <3>1, <3>2 DEF ValidMove, FullConfig
  <2> QED
    BY <2>1, <2>4 DEF Leads, Steps
<1> QED
  BY <1>1, PlansLead, PTL

\* No answered plan changes a create-only field of a row that stays.
THEOREM AnswersKeepCreateOnly ==
  ASSUME \A d, t, o : IsSeq(Generate(d, t, o))
  PROVE  Spec => []CreateOnlyStays
<1>1. PlanInv => CreateOnlyStays
  <2> SUFFICES ASSUME PlanInv, Sorted, NEW s \in Steps, NEW f \in CreateOnlyFields(s[1] \cup s[2]),
                      Front(f) \in s[1] \cap s[2]
               PROVE  Cut(s[1], f) = Cut(s[2], f)
    BY DEF CreateOnlyStays
  <2> DEFINE docs == Along(Start(req), result)
  <2>1. Leads(req, Start(req), result)
    BY DEF PlanInv, PhaseInv, Sorted
  <2>2. Len(result) \in Nat
    BY <2>1, SeqFacts DEF Leads
  <2>3. docs = [i \in 0 .. Len(result) |->
                  IF i = 0 THEN Start(req) ELSE ApplyMove(result[i], docs[i - 1])]
    BY <2>2, AlongFacts
  <2>4. PICK i \in 1 .. Len(result) : s = <<docs[i - 1], docs[i]>>
    BY DEF Steps
  <2>5. ValidMove(result[i], docs[i - 1], Target(req), req.order)
    BY <2>1 DEF Leads, OK
  <2> HIDE DEF docs
  <2>6. docs[i] = ApplyMove(result[i], docs[i - 1])
    BY <2>2, <2>3
  <2>7. CreateOnlyKept(s[1], s[2], Target(req))
    BY <2>4, <2>5, <2>6 DEF ValidMove
  <2>8. f \in s[1] \/ f \in s[2]
    BY DEF CreateOnlyFields, FieldsIn
  <2>9. f \in CreateOnlyFields(s[1]) \cup CreateOnlyFields(s[2])
    BY <2>8 DEF CreateOnlyFields, FieldsIn
  <2> QED
    BY <2>7, <2>8, <2>9 DEF CreateOnlyKept
<1> QED
  BY <1>1, PlansLead, PTL

----------------------------------------------------------------------------
(* What has been visited.                                                  *)

\* Still to be visited: the configuration a call is about, what the moves
\* that are left lead to, and what is in the queue.
IsPending(x) ==
    \/ phase = "call" /\ x = doc
    \/ \E n \in 1 .. Len(stack) : \E i \in 1 .. Len(stack[n].left) :
         x = ApplyMove(stack[n].left[i], stack[n].doc)
    \/ \E i \in 1 .. Len(queue) : x = queue[i].doc

\* A plan has been found, and is on its way back.
Success ==
    \/ phase = "sorted"
    \/ phase = "return" /\ result # None
    \/ \E n \in 1 .. Len(stack) : stack[n].best # None

Seen(x) == x \in visited \/ IsPending(x)

ClosedInv ==
    Success \/ \A d \in visited : \A i \in 1 .. Len(Valids(d)) : Seen(ApplyMove(Valids(d)[i], d))

TargetInv == Target(req) \in visited => phase = "sorted"

StartInv ==
    \/ phase \in {"asked", "refused"} \/ Success
    \/ Start(req) \in visited
    \/ phase = "call" /\ stack = <<>>
    \/ phase = "queue" /\ \E i \in 1 .. Len(queue) : queue[i].doc = Start(req)

MemSeenInv == \A e \in mem : e[1] \in visited

CallsSeenInv == \A n \in 1 .. Len(stack) : stack[n].doc \in visited

UnvisitedInv == phase \in {"asked", "refused"} => visited = {}

SearchInv == ClosedInv /\ TargetInv /\ StartInv /\ MemSeenInv /\ CallsSeenInv /\ UnvisitedInv

\* A search starts, or does not.
LEMMA StartKeepsSearchInv ==
  ASSUME PlanInv, SearchInv, Refuse \/ Begin
  PROVE  SearchInv'
<1>1. /\ phase = "asked" /\ stack = <<>> /\ visited = {}
      /\ UNCHANGED <<req, stack, visited, mem, result>>
  BY DEF PlanInv, PhaseInv, SearchInv, UnvisitedInv, Refuse, Begin
<1>2. ClosedInv' /\ TargetInv' /\ MemSeenInv' /\ CallsSeenInv' /\ UnvisitedInv'
  BY <1>1 DEF SearchInv, ClosedInv, TargetInv, MemSeenInv, CallsSeenInv, UnvisitedInv
<1>3. StartInv'
  <2>1. CASE Refuse \/ req.algorithm # "BFS"
    BY <1>1, <2>1 DEF StartInv, Refuse, Begin
  <2>2. CASE Begin /\ req.algorithm = "BFS"
    <3>1. queue' = <<[doc |-> Start(req), plan |-> <<>>]>> /\ phase' = "queue"
      BY <2>2 DEF Begin
    <3>2. 1 \in 1 .. Len(queue') /\ queue'[1].doc = Start(req)
      BY <3>1
    <3> QED BY <1>1, <3>1, <3>2 DEF StartInv
  <2> QED BY <2>1, <2>2
<1> QED BY <1>2, <1>3 DEF SearchInv

\* The target is reached, or a configuration is met again.
LEMMA ReturnKeepsSearchInv ==
  ASSUME PlanInv, SearchInv, Arrive \/ Recall \/ TurnBack, ~IsSeq(None)
  PROVE  SearchInv'
<1>1. /\ phase = "call" /\ phase' = "return"
      /\ UNCHANGED <<req, doc, stack, visited, mem, queue>>
  BY DEF Arrive, Recall, TurnBack, Return
<1>2. result' # None \/ doc \in visited
  <2>1. CASE Arrive
    BY <2>1, EmptyIsSeq DEF Arrive, Return
  <2>2. CASE Recall
    BY <2>2 DEF Recall, SearchInv, MemSeenInv
  <2>3. CASE TurnBack
    BY <2>3 DEF TurnBack
  <2> QED BY <2>1, <2>2, <2>3
<1>3. ClosedInv'
  <2>1. CASE result' # None
    BY <1>1, <2>1 DEF ClosedInv, Success
  <2>2. CASE Success
    BY <1>1, <2>2 DEF ClosedInv, Success
  <2>3. CASE doc \in visited /\ ~Success
    <3>1. ASSUME NEW x, Seen(x) PROVE Seen(x)'
      BY <1>1, <2>3, <3>1 DEF Seen, IsPending
    <3>2. \A d : Valids(d)' = Valids(d)
      BY <1>1 DEF Valids
    <3> QED BY <1>1, <2>3, <3>1, <3>2 DEF SearchInv, ClosedInv
  <2> QED BY <1>2, <2>1, <2>2, <2>3
<1>4. StartInv'
  <2>1. CASE result' # None
    BY <1>1, <2>1 DEF StartInv, Success
  <2>2. CASE doc \in visited /\ stack = <<>>
    <3>1. Len(stack) = 0
      BY <2>2, SeqFacts DEF PlanInv, CallsInv
    <3>2. doc = Start(req)
      BY <1>1, <3>1 DEF PlanInv, PhaseInv, Called
    <3> QED BY <1>1, <2>2, <3>2 DEF StartInv
  <2>3. CASE stack # <<>>
    BY <1>1, <2>3 DEF SearchInv, StartInv, Success
  <2> QED BY <1>2, <2>1, <2>2, <2>3
<1> QED
  BY <1>1, <1>3, <1>4 DEF SearchInv, TargetInv, MemSeenInv, CallsSeenInv, UnvisitedInv

\* A configuration is visited: its valid moves are left to try.
LEMMA VisitKeepsSearchInv ==
  ASSUME PlanInv, SearchInv, Visit, \A d, t, o : IsSeq(Generate(d, t, o))
  PROVE  SearchInv'
<1> DEFINE c == [doc |-> doc, left |-> Valids(doc), via |-> None, best |-> None]
<1>1. /\ phase = "call" /\ phase' = "loop" /\ stack' = Append(stack, c) /\ doc # Target(req)
      /\ visited' = visited \cup {doc} /\ UNCHANGED <<req, doc, mem, queue, result>>
  BY DEF Visit
<1>2. c.doc = doc /\ c.left = Valids(doc) /\ c.best = None
  OBVIOUS
<1> HIDE DEF c
<1>3. /\ Len(stack) \in Nat /\ Len(stack') = Len(stack) + 1 /\ stack'[Len(stack) + 1] = c
      /\ \A n \in 1 .. Len(stack) : stack'[n] = stack[n]
  <2>1. IsSeq(stack)
    BY DEF PlanInv, CallsInv
  <2> QED BY <1>1, <2>1, AppendFacts, SeqFacts
<1>4. ASSUME NEW n \in 1 .. Len(stack) PROVE n \in 1 .. Len(stack') /\ stack'[n] = stack[n]
  BY <1>3
<1>5. Len(stack) + 1 \in 1 .. Len(stack')
  BY <1>3
<1>6. \A d : Valids(d)' = Valids(d)
  BY <1>1 DEF Valids
<1>7. ASSUME NEW x, Seen(x) PROVE Seen(x)'
  BY <1>1, <1>4, <1>7 DEF Seen, IsPending
<1>8. ASSUME NEW i \in 1 .. Len(Valids(doc)), NEW x, x = ApplyMove(Valids(doc)[i], doc)
      PROVE  Seen(x)'
  <2>1. stack'[Len(stack) + 1].left = Valids(doc) /\ stack'[Len(stack) + 1].doc = doc
    BY <1>2, <1>3
  <2> QED BY <1>5, <1>8, <2>1 DEF Seen, IsPending
<1>9. ClosedInv'
  <2>1. CASE Success
    BY <1>1, <1>4, <2>1 DEF ClosedInv, Success
  <2>2. CASE ~Success
    <3>1. ASSUME NEW d \in visited', NEW i \in 1 .. Len(Valids(d)), NEW x, x = ApplyMove(Valids(d)[i], d)
          PROVE  Seen(x)'
      <4>1. CASE d = doc
        BY <1>8, <3>1, <4>1
      <4>2. CASE d # doc
        <5>1. d \in visited /\ Seen(x)
          BY <1>1, <2>2, <3>1, <4>2 DEF SearchInv, ClosedInv
        <5> QED BY <1>7, <5>1
      <4> QED BY <4>1, <4>2
    <3> QED BY <1>6, <3>1 DEF ClosedInv
  <2> QED BY <2>1, <2>2
<1>10. StartInv'
  <2>1. CASE stack = <<>>
    <3>1. Len(stack) = 0
      BY <2>1, SeqFacts DEF PlanInv, CallsInv
    <3> QED BY <1>1, <3>1 DEF StartInv, PlanInv, PhaseInv, Called
  <2>2. CASE stack # <<>>
    <3>1. Success => Success'
      BY <1>1, <1>4 DEF Success
    <3> QED BY <1>1, <2>2, <3>1 DEF SearchInv, StartInv
  <2> QED BY <2>1, <2>2
<1>11. CallsSeenInv'
  <2> SUFFICES ASSUME NEW n \in 1 .. Len(stack') PROVE stack'[n].doc \in visited'
    BY DEF CallsSeenInv
  <2>1. n = Len(stack) + 1 \/ n \in 1 .. Len(stack)
    BY <1>3
  <2> QED BY <1>1, <1>2, <1>3, <2>1 DEF SearchInv, CallsSeenInv
<1> QED
  BY <1>1, <1>9, <1>10, <1>11 DEF SearchInv, TargetInv, MemSeenInv, UnvisitedInv

\* What was seen stays seen: then the closure stays.
LEMMA SeenStays ==
  ASSUME SearchInv, req' = req, visited' = visited, Success => Success',
         ASSUME NEW x, Seen(x) PROVE Seen(x)'
  PROVE  ClosedInv'
<1>1. \A d : Valids(d)' = Valids(d)
  BY DEF Valids
<1> QED
  BY <1>1 DEF SearchInv, ClosedInv

\* The loop takes its next valid move, which goes from those left to the call.
LEMMA DescendKeepsSearchInv ==
  ASSUME PlanInv, SearchInv, Descend
  PROVE  SearchInv'
<1> DEFINE l == Len(stack)
<1>1. /\ phase = "loop" /\ phase' = "call" /\ Top.left # <<>> /\ stack # <<>>
      /\ doc' = ApplyMove(Head(Top.left), Top.doc)
      /\ UNCHANGED <<req, visited, mem, queue, result>>
  BY DEF PlanInv, PhaseInv, Descend
<1>2. l \in Nat \ {0} /\ CallOK(req, Top) /\ DOMAIN stack = 1 .. l
  BY <1>1, TopFacts, SeqFacts DEF PlanInv, CallsInv
<1>3. /\ IsSeq(Top.left) /\ Len(Top.left) \in Nat \ {0} /\ Head(Top.left) = Top.left[1]
      /\ Len(Tail(Top.left)) = Len(Top.left) - 1
      /\ \A i \in 1 .. Len(Top.left) - 1 : Tail(Top.left)[i] = Top.left[i + 1]
  BY <1>1, <1>2, TailFacts, SeqFacts DEF CallOK
<1>4. Top.doc = stack[l].doc /\ Top.left = stack[l].left /\ Top = stack[l]
  BY DEF Top
<1>5. stack' = [stack EXCEPT ![l] = [Top EXCEPT !.via = Head(Top.left), !.left = Tail(Top.left)]]
  BY <1>2 DEF Descend, Top
<1>6. [Top EXCEPT !.via = Head(Top.left), !.left = Tail(Top.left)] =
        [doc |-> Top.doc, left |-> Tail(Top.left), via |-> Head(Top.left), best |-> Top.best]
  BY <1>2, CallUpdates DEF CallOK
<1>7. Len(stack') = l
  <2>1. PICK S : stack \in Seq(S)
    BY DEF PlanInv, CallsInv, IsSeq
  <2> QED BY <1>2, <1>5, <2>1
<1>8. /\ stack'[l].doc = Top.doc /\ stack'[l].left = Tail(Top.left) /\ stack'[l].best = Top.best
      /\ \A n \in 1 .. l : n # l => stack'[n] = stack[n]
  <2> HIDE DEF l
  <2> QED BY <1>2, <1>5, <1>6
<1> HIDE DEF l
<1>9. \A n \in 1 .. l : stack'[n].doc = stack[n].doc /\ stack'[n].best = stack[n].best
  BY <1>4, <1>8
<1>10. Len(stack') = Len(stack) /\ l = Len(stack)
  BY <1>7 DEF l
<1>11. Success => Success'
  BY <1>1, <1>9, <1>10 DEF Success
<1>12. ASSUME NEW x, Seen(x) PROVE Seen(x)'
  <2>1. CASE x \in visited \/ \E i \in 1 .. Len(queue) : x = queue[i].doc
    BY <1>1, <2>1 DEF Seen, IsPending
  <2>2. CASE \E n \in 1 .. l : \E i \in 1 .. Len(stack[n].left) : x = ApplyMove(stack[n].left[i], stack[n].doc)
    <3>1. PICK n \in 1 .. l : \E i \in 1 .. Len(stack[n].left) : x = ApplyMove(stack[n].left[i], stack[n].doc)
      BY <2>2
    <3>2. PICK i \in 1 .. Len(stack[n].left) : x = ApplyMove(stack[n].left[i], stack[n].doc)
      BY <3>1
    <3>3. CASE n # l
      BY <1>8, <1>10, <3>2, <3>3 DEF Seen, IsPending
    <3>4. CASE n = l /\ i = 1
      BY <1>1, <1>3, <1>4, <3>2, <3>4 DEF Seen, IsPending
    <3>5. CASE n = l /\ i # 1
      <4>1. i - 1 \in 1 .. Len(Tail(Top.left)) /\ Tail(Top.left)[i - 1] = Top.left[i]
        BY <1>3, <1>4, <3>2, <3>5
      <4>2. x = ApplyMove(stack'[l].left[i - 1], stack'[l].doc) /\ i - 1 \in 1 .. Len(stack'[l].left)
        BY <1>4, <1>8, <3>2, <3>5, <4>1
      <4> QED BY <1>2, <1>10, <4>2 DEF Seen, IsPending
    <3> QED BY <3>3, <3>4, <3>5
  <2> QED BY <1>1, <1>10, <1>12, <2>1, <2>2 DEF Seen, IsPending
<1>13. ClosedInv'
  BY <1>1, <1>11, <1>12, SeenStays
<1>14. StartInv'
  BY <1>1, <1>11 DEF SearchInv, StartInv
<1>15. CallsSeenInv'
  BY <1>1, <1>9, <1>10 DEF SearchInv, CallsSeenInv
<1> QED
  BY <1>1, <1>13, <1>14, <1>15 DEF SearchInv, TargetInv, MemSeenInv, UnvisitedInv

\* A call whose moves are all tried goes, with the plan it found, if any.
LEMMA PopKeepsSearchInv ==
  ASSUME PlanInv, SearchInv, Exhaust \/ PassOn, ~IsSeq(None)
  PROVE  SearchInv'
<1> DEFINE l == Len(stack)
<1>1. /\ phase \in {"loop", "return"} /\ phase' = "return" /\ stack # <<>> /\ stack' = Front(stack)
      /\ UNCHANGED <<req, doc, visited, queue>>
  BY DEF PlanInv, PhaseInv, Exhaust, PassOn, Return
<1>2. l \in Nat \ {0} /\ CallOK(req, Top)
  BY <1>1, TopFacts DEF PlanInv
<1>3. Len(stack') = l - 1 /\ \A n \in 1 .. l - 1 : stack'[n] = stack[n]
  <2>1. IsSeq(stack)
    BY DEF PlanInv, CallsInv
  <2> QED BY <1>1, <2>1, FrontFacts
<1>4. \A n \in 1 .. l : n = l \/ n \in 1 .. l - 1
  BY <1>2
<1>5. \A n \in 1 .. Len(stack') : n \in 1 .. l /\ stack'[n] = stack[n]
  BY <1>2, <1>3
<1>6. Top.doc \in visited
  <2>1. l \in 1 .. l
    BY <1>2
  <2> QED BY <2>1 DEF SearchInv, CallsSeenInv, Top
<1>7. MemSeenInv'
  BY <1>1, <1>6 DEF SearchInv, MemSeenInv, Exhaust, PassOn
<1>8. Success => Success'
  <2>1. CASE Exhaust
    <3>1. CASE Top.best # None
      <4>1. result' = Top.best
        BY <1>2, <2>1, <3>1 DEF CallOK, Exhaust, Return
      <4> QED BY <1>1, <3>1, <4>1 DEF Success
    <3>2. CASE Top.best = None
      <4>1. phase = "loop"
        BY <2>1 DEF Exhaust
      <4>2. ASSUME NEW n \in 1 .. l, stack[n].best # None PROVE n \in 1 .. Len(stack')
        BY <1>3, <1>4, <3>2, <4>2 DEF Top
      <4> QED BY <1>1, <1>5, <4>1, <4>2 DEF Success
    <3> QED BY <3>1, <3>2
  <2>2. CASE PassOn
    <3>1. IsSeq(result)
      BY <2>2 DEF PlanInv, PhaseInv, LeadsOrNone, Leads, PassOn
    <3>2. IsSeq(result') /\ phase' = "return"
      BY <1>1, <2>2, <3>1, ConsFacts DEF PassOn, Found
    <3> QED BY <3>2 DEF Success
  <2> QED BY <2>1, <2>2
<1>9. PassOn => Success'
  <2> SUFFICES ASSUME PassOn PROVE Success'
    OBVIOUS
  <2>1. Success
    BY DEF PassOn, Success
  <2> QED BY <1>8, <2>1
<1>10. ClosedInv'
  <2>1. CASE PassOn
    BY <1>9, <2>1 DEF ClosedInv
  <2>2. CASE Exhaust
    <3>1. phase = "loop" /\ Top.left = <<>> /\ Len(stack[l].left) = 0
      BY <2>2 DEF Exhaust, Top
    <3>2. ASSUME NEW x, Seen(x) PROVE Seen(x)'
      <4>1. ASSUME NEW n \in 1 .. l, NEW i \in 1 .. Len(stack[n].left)
            PROVE  n \in 1 .. Len(stack') /\ stack'[n] = stack[n]
        BY <1>3, <1>4, <3>1
      <4> QED BY <1>1, <3>1, <3>2, <4>1 DEF Seen, IsPending
    <3> QED BY <1>1, <1>8, <3>2, SeenStays
  <2> QED BY <2>1, <2>2
<1>11. StartInv'
  BY <1>1, <1>8 DEF SearchInv, StartInv
<1>12. CallsSeenInv'
  BY <1>1, <1>5 DEF SearchInv, CallsSeenInv
<1> QED
  BY <1>1, <1>7, <1>10, <1>11, <1>12 DEF SearchInv, TargetInv, UnvisitedInv

\* The call at the top keeps the plan that came back.
LEMMA ImproveKeepsSearchInv ==
  ASSUME PlanInv, SearchInv, Improve, ~IsSeq(None)
  PROVE  SearchInv'
<1> DEFINE l == Len(stack)
           plan == <<Top.via>> \o result
<1>1. /\ phase = "return" /\ phase' = "loop" /\ stack # <<>> /\ result # None
      /\ UNCHANGED <<req, doc, visited, mem, queue, result>>
  BY DEF Improve
<1>2. l \in Nat \ {0} /\ CallOK(req, Top) /\ DOMAIN stack = 1 .. l
  BY <1>1, TopFacts, SeqFacts DEF PlanInv, CallsInv
<1>3. plan # None
  <2>1. IsSeq(result)
    BY <1>1 DEF PlanInv, PhaseInv, LeadsOrNone, Leads
  <2>2. IsSeq(plan)
    BY <2>1, ConsFacts
  <2> QED BY <2>2
<1>4. stack' = [stack EXCEPT ![l] = [Top EXCEPT !.best = plan]]
  BY <1>2 DEF Improve, Found, Top
<1>5. [Top EXCEPT !.best = plan] =
        [doc |-> Top.doc, left |-> Top.left, via |-> Top.via, best |-> plan]
  BY <1>2, CallUpdates DEF CallOK
<1> HIDE DEF plan
<1>6. Len(stack') = l
  <2>1. PICK S : stack \in Seq(S)
    BY DEF PlanInv, CallsInv, IsSeq
  <2> QED BY <1>2, <1>4, <2>1
<1>7. /\ stack'[l].doc = Top.doc /\ stack'[l].left = Top.left /\ stack'[l].best = plan
      /\ \A n \in 1 .. l : n # l => stack'[n] = stack[n]
  <2> HIDE DEF l
  <2> QED BY <1>2, <1>4, <1>5
<1>8. Success'
  <2>1. l \in 1 .. Len(stack') /\ stack'[l].best # None
    <3> HIDE DEF l
    <3> QED BY <1>2, <1>3, <1>6, <1>7
  <2> QED BY <2>1 DEF Success
<1>9. \A n \in 1 .. l : stack'[n].doc = stack[n].doc
  BY <1>7 DEF Top
<1>10. CallsSeenInv'
  BY <1>1, <1>6, <1>9 DEF SearchInv, CallsSeenInv
<1> QED
  BY <1>1, <1>8, <1>10
     DEF SearchInv, ClosedInv, StartInv, TargetInv, MemSeenInv, UnvisitedInv

\* The loop goes on without the plan, or the answer is given.
LEMMA GoOnKeepsSearchInv ==
  ASSUME PlanInv, SearchInv, Ignore \/ Answer
  PROVE  SearchInv'
<1>1. /\ phase = "return" /\ UNCHANGED <<req, doc, stack, visited, mem, queue, result>>
      /\ phase' \notin {"asked", "refused", "call", "queue"}
  BY DEF Ignore, Answer
<1>2. Success => Success'
  <2>1. CASE Ignore /\ result # None
    <3>1. Top.best # None /\ stack # <<>>
      BY <2>1 DEF Ignore, Shorter
    <3>2. Len(stack) \in 1 .. Len(stack)
      BY <3>1, TopFacts DEF PlanInv
    <3> QED BY <1>1, <3>1, <3>2 DEF Success, Top
  <2>2. CASE Answer /\ result # None
    BY <1>1, <2>2 DEF Answer, Success
  <2>3. CASE result = None
    BY <1>1, <2>3 DEF Success
  <2> QED BY <2>1, <2>2, <2>3
<1>3. ASSUME NEW x, Seen(x) PROVE Seen(x)'
  BY <1>1, <1>3 DEF Seen, IsPending
<1>4. ClosedInv'
  BY <1>1, <1>2, <1>3, SeenStays
<1> QED
  BY <1>1, <1>2, <1>4
     DEF SearchInv, StartInv, TargetInv, MemSeenInv, CallsSeenInv, UnvisitedInv

\* BfsSorter skips what it has seen, or finds the target, or is at its end.
LEMMA DequeueKeepsSearchInv ==
  ASSUME PlanInv, SearchInv, Skip \/ Finish \/ Drained
  PROVE  SearchInv'
<1>1. CASE Finish
  BY <1>1 DEF Finish, SearchInv, ClosedInv, Success, TargetInv, StartInv, MemSeenInv, CallsSeenInv,
              UnvisitedInv
<1>2. CASE Skip
  <2>1. /\ phase = "queue" /\ Entry.doc \in visited
        /\ UNCHANGED <<req, phase, doc, stack, visited, mem, result>>
    BY <1>2 DEF Skip
  <2>2. /\ Len(queue) \in Nat \ {0} /\ Len(queue') = Len(queue) - 1
        /\ \A i \in 1 .. Len(queue) - 1 : queue'[i] = queue[i + 1]
    BY <1>2, TailFacts, SeqFacts DEF Skip, PlanInv, QueueInv
  <2>3. ASSUME NEW i \in 1 .. Len(queue), queue[i].doc \notin visited
        PROVE  i - 1 \in 1 .. Len(queue') /\ queue'[i - 1] = queue[i]
    <3>1. i # 1
      BY <2>1, <2>3 DEF Entry
    <3> QED BY <2>2, <3>1
  <2>4. ASSUME NEW x, Seen(x) PROVE Seen(x)'
    BY <2>1, <2>3, <2>4 DEF Seen, IsPending
  <2>5. Success => Success'
    BY <2>1 DEF Success
  <2>6. ClosedInv'
    BY <2>1, <2>4, <2>5, SeenStays
  <2>7. StartInv'
    BY <2>1, <2>3, <2>5 DEF SearchInv, StartInv
  <2> QED BY <2>1, <2>6, <2>7 DEF SearchInv, TargetInv, MemSeenInv, CallsSeenInv, UnvisitedInv
<1>3. CASE Drained
  <2>1. /\ phase = "queue" /\ phase' = "impossible" /\ queue = <<>>
        /\ UNCHANGED <<req, doc, stack, visited, mem, queue, result>>
    BY <1>3 DEF Drained
  <2>2. Len(queue) = 0
    BY <2>1
  <2>3. ASSUME NEW x, Seen(x) PROVE Seen(x)'
    BY <2>1, <2>3 DEF Seen, IsPending
  <2>4. Success => Success'
    BY <2>1 DEF Success
  <2>5. ClosedInv'
    BY <2>1, <2>3, <2>4, SeenStays
  <2>6. StartInv'
    BY <2>1, <2>2, <2>4 DEF SearchInv, StartInv
  <2> QED BY <2>1, <2>5, <2>6 DEF SearchInv, TargetInv, MemSeenInv, CallsSeenInv, UnvisitedInv
<1> QED BY <1>1, <1>2, <1>3

\* BfsSorter queues what its valid moves lead to.
LEMMA ExpandKeepsSearchInv ==
  ASSUME PlanInv, SearchInv, Expand, \A d, t, o : IsSeq(Generate(d, t, o))
  PROVE  SearchInv'
<1> DEFINE valid == Valids(Entry.doc)
           e == Entry.doc
           l == Len(queue) - 1
<1>1. /\ phase = "queue" /\ e # Target(req) /\ visited' = visited \cup {e}
      /\ UNCHANGED <<req, phase, doc, stack, mem, result>>
  BY DEF Expand
<1>2. /\ Len(queue) \in Nat \ {0} /\ Len(valid) \in Nat /\ Len(queue') = l + Len(valid)
      /\ \A i \in 1 .. l : queue'[i] = queue[i + 1]
      /\ \A i \in 1 .. Len(valid) :
           queue'[l + i] = [doc  |-> ApplyMove(valid[i], Entry.doc), plan |-> Append(Entry.plan, valid[i])]
  BY ExpandedQueue DEF PlanInv
<1>3. \A d : Valids(d)' = Valids(d)
  BY <1>1 DEF Valids
<1>4. ASSUME NEW i \in 1 .. Len(queue) PROVE queue[i].doc = e \/ (i - 1 \in 1 .. Len(queue') /\ queue'[i - 1] = queue[i])
  <2>1. CASE i = 1
    BY <2>1 DEF Entry
  <2>2. CASE i # 1
    BY <1>2, <2>2
  <2> QED BY <2>1, <2>2
<1>5. ASSUME NEW x, Seen(x) PROVE Seen(x)'
  BY <1>1, <1>4, <1>5 DEF Seen, IsPending
<1>6. ASSUME NEW i \in 1 .. Len(valid), NEW x, x = ApplyMove(valid[i], e) PROVE Seen(x)'
  <2>1. l + i \in 1 .. Len(queue')
    BY <1>2
  <2>2. queue'[l + i] = [doc |-> x, plan |-> Append(Entry.plan, valid[i])]
    <3> HIDE DEF valid, l
    <3> QED BY <1>2, <1>6
  <2>3. queue'[l + i].doc = x
    BY <2>2
  <2> QED BY <2>1, <2>3 DEF Seen, IsPending
<1>7. Success => Success'
  BY <1>1 DEF Success
<1>8. ClosedInv'
  <2>1. CASE Success
    BY <1>7, <2>1 DEF ClosedInv
  <2>2. CASE ~Success
    <3>1. ASSUME NEW d \in visited', NEW i \in 1 .. Len(Valids(d)), NEW x, x = ApplyMove(Valids(d)[i], d)
          PROVE  Seen(x)'
      <4>1. CASE d = e
        BY <1>6, <3>1, <4>1
      <4>2. CASE d # e
        <5>1. d \in visited /\ Seen(x)
          BY <1>1, <2>2, <3>1, <4>2 DEF SearchInv, ClosedInv
        <5> QED BY <1>5, <5>1
      <4> QED BY <4>1, <4>2
    <3> QED BY <1>3, <3>1 DEF ClosedInv
  <2> QED BY <2>1, <2>2
<1>9. StartInv'
  BY <1>1, <1>4, <1>7 DEF SearchInv, StartInv
<1> QED
  BY <1>1, <1>8, <1>9 DEF SearchInv, TargetInv, MemSeenInv, CallsSeenInv, UnvisitedInv

\* What a visited configuration leads to is visited, or pending, or no matter.
THEOREM SearchIsClosed ==
  ASSUME \A d, t, o : IsSeq(Generate(d, t, o)), ~IsSeq(None)
  PROVE  Spec => []SearchInv
<1>1. Init => SearchInv
  <2> SUFFICES ASSUME Init PROVE SearchInv
    OBVIOUS
  <2>1. stack = <<>> /\ Len(stack) = 0
    BY DEF Init
  <2> QED BY <2>1 DEF Init, SearchInv, ClosedInv, TargetInv, StartInv, MemSeenInv, CallsSeenInv, UnvisitedInv
<1>2. PlanInv /\ SearchInv /\ [Next]_vars => SearchInv'
  <2> SUFFICES ASSUME PlanInv, SearchInv, [Next]_vars PROVE SearchInv'
    OBVIOUS
  <2>1. CASE Refuse \/ Begin
    BY <2>1, StartKeepsSearchInv
  <2>2. CASE Arrive \/ Recall \/ TurnBack
    BY <2>2, ReturnKeepsSearchInv
  <2>3. CASE Visit
    BY <2>3, VisitKeepsSearchInv
  <2>4. CASE Descend
    BY <2>4, DescendKeepsSearchInv
  <2>5. CASE Exhaust \/ PassOn
    BY <2>5, PopKeepsSearchInv
  <2>6. CASE Improve
    BY <2>6, ImproveKeepsSearchInv
  <2>7. CASE Ignore \/ Answer
    BY <2>7, GoOnKeepsSearchInv
  <2>8. CASE Skip \/ Finish \/ Drained
    BY <2>8, DequeueKeepsSearchInv
  <2>9. CASE Expand
    BY <2>9, ExpandKeepsSearchInv
  <2>10. CASE UNCHANGED vars
    <3>1. ASSUME NEW x, Seen(x) PROVE Seen(x)'
      BY <2>10, <3>1 DEF Seen, IsPending, vars
    <3>2. Success => Success'
      BY <2>10 DEF Success, vars
    <3>3. ClosedInv'
      BY <2>10, <3>1, <3>2, SeenStays DEF vars
    <3> QED BY <2>10, <3>2, <3>3
            DEF SearchInv, StartInv, TargetInv, MemSeenInv, CallsSeenInv, UnvisitedInv, vars
  <2> QED
    BY <2>1, <2>2, <2>3, <2>4, <2>5, <2>6, <2>7, <2>8, <2>9, <2>10 DEF Next
<1> QED
  BY <1>1, <1>2, PlansLead, PTL DEF Spec

\* "There is no possible sorting" is the truth about the moves that are tried.
THEOREM ImpossibleIsTrue ==
  ASSUME \A d, t, o : IsSeq(Generate(d, t, o)), ~IsSeq(None)
  PROVE  Spec => []ImpossibleIsUnreachable
<1>1. PlanInv /\ SearchInv => ImpossibleIsUnreachable
  <2> SUFFICES ASSUME PlanInv, SearchInv, phase = "impossible"
               PROVE  /\ Start(req) \in visited /\ Target(req) \notin visited
                      /\ \A d \in visited : \A m \in ToSet(Valids(d)) : ApplyMove(m, d) \in visited
    BY DEF ImpossibleIsUnreachable
  <2>1. Len(stack) = 0 /\ Len(queue) = 0
    BY SeqFacts DEF PlanInv, CallsInv, QueueInv, PhaseInv
  <2>2. ~Success
    BY <2>1 DEF Success
  <2>3. Start(req) \in visited /\ Target(req) \notin visited
    BY <2>2 DEF SearchInv, StartInv, TargetInv
  <2>4. \A x : ~IsPending(x)
    BY <2>1 DEF IsPending
  <2>5. ASSUME NEW d \in visited, NEW m \in ToSet(Valids(d)) PROVE ApplyMove(m, d) \in visited
    <3>1. PICK i \in 1 .. Len(Valids(d)) : m = Valids(d)[i]
      BY ValidsFacts, SeqFacts DEF ToSet
    <3> QED BY <2>2, <2>4, <3>1 DEF SearchInv, ClosedInv, Seen
  <2> QED BY <2>3, <2>5
<1> QED
  BY <1>1, PlansLead, SearchIsClosed, PTL

----------------------------------------------------------------------------
(* Breadth first: how far the queue has come.                              *)

Successors(d) == {ApplyMove(m, d) : m \in ToSet(Valids(d))}

\* f[n] is what at most n valid moves lead to.
Layers(f, k) ==
    f = [n \in 0 .. k |-> IF n = 0 THEN {Start(req)} ELSE f[n - 1] \cup UNION {Successors(d) : d \in f[n - 1]}]

Moves(i) == Len(queue[i].plan)
Early(n) == \E i \in 1 .. Len(queue) : Moves(i) <= n
Queued(x, n) == \E i \in 1 .. Len(queue) : queue[i].doc = x /\ Moves(i) <= n

\* Plans in the queue grow, by one move at most.
QueueOrdered ==
    \A i, j \in 1 .. Len(queue) : i <= j => Moves(i) <= Moves(j) /\ Moves(j) <= Moves(1) + 1

\* What a visited configuration leads to in one move is visited, or in the queue with a plan that
\* is one move longer than the shortest way to the configuration.
Layered ==
    \A k \in Nat : \A f : Layers(f, k) =>
        \A n \in 0 .. k : \A x \in f[n] \cap visited : \A y \in Successors(x) : y \in visited \/ Queued(y, n + 1)

ShortInv ==
    /\ phase = "queue" => QueueOrdered /\ Layered /\ (Start(req) \in visited \/ Queued(Start(req), 0))
    /\ phase \in {"call", "loop", "return"} => req.algorithm # "BFS"
    /\ phase = "sorted" /\ req.algorithm = "BFS" =>
          \A f : Layers(f, Len(result)) => \A n \in 0 .. Len(result) - 1 : Target(req) \notin f[n]

\* The recursive function in Near is defined.
LEMMA NearFacts == ASSUME NEW k \in Nat PROVE Layers(Near(k), k)
<1> DEFINE Grow(s) == s \cup UNION {Successors(d) : d \in s}
           Fits(f, n) == f = [i \in 0 .. n |-> IF i = 0 THEN {Start(req)} ELSE Grow(f[i - 1])]
           S == {n \in Nat : \E f : Fits(f, n)}
<1>1. 0 \in S
  <2> DEFINE f == [i \in 0 .. 0 |-> {Start(req)}]
  <2>1. Fits(f, 0)
    OBVIOUS
  <2> QED BY <2>1
<1>2. ASSUME NEW n \in Nat, n \in S PROVE n + 1 \in S
  <2>1. PICK f : Fits(f, n)
    BY <1>2
  <2> DEFINE g == [i \in 0 .. n + 1 |-> IF i = n + 1 THEN Grow(f[n]) ELSE f[i]]
  <2> HIDE DEF Grow
  <2>2. \A i \in 0 .. n + 1 : g[i] = IF i = 0 THEN {Start(req)} ELSE Grow(g[i - 1])
    <3> SUFFICES ASSUME NEW i \in 0 .. n + 1
                 PROVE  g[i] = IF i = 0 THEN {Start(req)} ELSE Grow(g[i - 1])
      OBVIOUS
    <3>1. CASE i = n + 1
      BY <3>1
    <3>2. CASE i # n + 1
      <4>1. i \in 0 .. n /\ g[i] = f[i]
        BY <3>2
      <4>2. i # 0 => i - 1 \in 0 .. n + 1 /\ i - 1 # n + 1 /\ g[i - 1] = f[i - 1]
        BY <4>1
      <4>3. f[i] = IF i = 0 THEN {Start(req)} ELSE Grow(f[i - 1])
        BY <2>1, <4>1
      <4> QED BY <4>1, <4>2, <4>3
    <3> QED BY <3>1, <3>2
  <2>3. \E h : Fits(h, n + 1)
    BY <2>2
  <2> QED BY <2>3
<1>3. k \in S
  <2> HIDE DEF S
  <2> QED BY <1>1, <1>2, SetInduction
<1>4. \E f : Fits(f, k)
  BY <1>3
<1> QED
  BY <1>4 DEF Near, Layers, Successors

\* As long as the queue holds only plans of more than n moves, all that n moves lead to is visited.
LEMMA LayerIsVisited ==
  ASSUME QueueInv, Layered, Start(req) \in visited \/ Queued(Start(req), 0),
         NEW k \in Nat, NEW f, Layers(f, k), NEW n \in 0 .. k, ~Early(n)
  PROVE  f[n] \subseteq visited
<1> DEFINE S == {m \in Nat : m <= n => f[m] \subseteq visited}
<1>0. \A i \in 1 .. Len(queue) : Moves(i) \in Nat
  BY SeqFacts DEF QueueInv, Reaches, Moves
<1>1. \A m \in 0 .. n : ~Early(m)
  BY <1>0 DEF Early
<1>2. 0 \in S
  <2>1. f[0] = {Start(req)} /\ ~Queued(Start(req), 0)
    BY <1>1 DEF Layers, Early, Queued
  <2> QED BY <2>1
<1>3. ASSUME NEW m \in Nat, m \in S PROVE m + 1 \in S
  <2> SUFFICES ASSUME m + 1 <= n, NEW y \in f[m + 1] PROVE y \in visited
    OBVIOUS
  <2>1. m \in 0 .. k /\ m + 1 \in 0 .. k /\ m + 1 \in 0 .. n /\ f[m] \subseteq visited
    BY <1>3
  <2>2. f[m + 1] = f[m] \cup UNION {Successors(d) : d \in f[m]}
    BY <2>1 DEF Layers
  <2>3. CASE y \in f[m]
    BY <2>1, <2>3
  <2>4. CASE y \notin f[m]
    <3>1. PICK x \in f[m] : y \in Successors(x)
      BY <2>2, <2>4
    <3>2. y \in visited \/ Queued(y, m + 1)
      BY <2>1, <3>1 DEF Layered
    <3>3. ~Queued(y, m + 1)
      BY <1>1, <2>1 DEF Early, Queued
    <3> QED BY <3>2, <3>3
  <2> QED BY <2>3, <2>4
<1>4. n \in S
  <2> HIDE DEF S
  <2> QED BY <1>2, <1>3, SetInduction
<1> QED BY <1>4

\* The head of the queue goes, and what it leads to comes with one move more: plans still grow.
LEMMA DequeueKeepsOrder ==
  ASSUME QueueInv, QueueOrdered, queue # <<>>, Len(queue') \in Nat, Len(queue') >= Len(queue) - 1,
         \A i \in 1 .. Len(queue) - 1 : queue'[i] = queue[i + 1],
         \A i \in Len(queue) .. Len(queue') : Len(queue'[i].plan) = Moves(1) + 1
  PROVE  QueueOrdered'
<1> DEFINE moves(i) == Len(queue'[i].plan)
<1>1. Len(queue) \in Nat \ {0} /\ \A i \in 1 .. Len(queue) : Moves(i) \in Nat
  BY SeqFacts DEF QueueInv, Reaches, Moves
<1>2. 1 \in 1 .. Len(queue) /\ Moves(1) \in Nat
  BY <1>1
<1>3. ASSUME NEW i \in 1 .. Len(queue'), i < Len(queue)
      PROVE  i + 1 \in 1 .. Len(queue) /\ moves(i) = Moves(i + 1)
  BY <1>1, <1>3 DEF Moves
<1>4. ASSUME NEW i \in 1 .. Len(queue')
      PROVE  moves(i) \in Nat /\ Moves(1) <= moves(i) /\ moves(i) <= Moves(1) + 1
  <2>1. CASE i < Len(queue)
    <3>1. i + 1 \in 1 .. Len(queue) /\ moves(i) = Moves(i + 1) /\ 1 <= i + 1
      BY <1>3, <2>1
    <3> HIDE DEF moves
    <3> QED BY <1>1, <1>2, <3>1 DEF QueueOrdered
  <2>2. CASE ~(i < Len(queue))
    <3>1. moves(i) = Moves(1) + 1
      BY <1>1, <2>2
    <3> HIDE DEF moves
    <3> QED BY <1>2, <3>1
  <2> QED BY <2>1, <2>2
<1>5. ASSUME NEW i \in 1 .. Len(queue'), NEW j \in 1 .. Len(queue'), i <= j
      PROVE  moves(i) <= moves(j) /\ moves(j) <= moves(1) + 1
  <2>1. 1 \in 1 .. Len(queue')
    BY <1>5
  <2>2. CASE j < Len(queue)
    <3>1. /\ i + 1 \in 1 .. Len(queue) /\ moves(i) = Moves(i + 1)
          /\ j + 1 \in 1 .. Len(queue) /\ moves(j) = Moves(j + 1) /\ i + 1 <= j + 1
      BY <1>1, <1>3, <1>5, <2>2
    <3>2. moves(i) <= moves(j)
      <4> HIDE DEF moves
      <4> QED BY <3>1 DEF QueueOrdered
    <3> HIDE DEF moves
    <3> QED BY <1>2, <1>4, <2>1, <3>2
  <2>3. CASE ~(j < Len(queue))
    <3>1. moves(j) = Moves(1) + 1
      BY <1>1, <2>3
    <3> HIDE DEF moves
    <3> QED BY <1>2, <1>4, <2>1, <3>1
  <2> QED BY <2>2, <2>3
<1> QED
  BY <1>5 DEF QueueOrdered, Moves

\* The head of the queue goes: what it leads to was known, or is queued now, in time.
LEMMA DequeueKeepsLayers ==
  ASSUME QueueInv, QueueOrdered, Layered, Start(req) \in visited \/ Queued(Start(req), 0),
         queue # <<>>, req' = req, visited' = visited \cup {Entry.doc},
         \A i \in 1 .. Len(queue) - 1 : i \in 1 .. Len(queue') /\ queue'[i] = queue[i + 1],
         Entry.doc \notin visited =>
             \A y \in Successors(Entry.doc) : \E j \in 1 .. Len(queue') :
                 queue'[j].doc = y /\ Len(queue'[j].plan) = Moves(1) + 1
  PROVE  Layered' /\ (Start(req) \in visited \/ Queued(Start(req), 0))'
<1> DEFINE InTime(y, n) == \E j \in 1 .. Len(queue') : queue'[j].doc = y /\ Len(queue'[j].plan) <= n
<1>1. Len(queue) \in Nat \ {0} /\ \A i \in 1 .. Len(queue) : Moves(i) \in Nat
  BY SeqFacts DEF QueueInv, Reaches, Moves
<1>2. \A d : Successors(d)' = Successors(d)
  BY DEF Successors, Valids
<1>3. \A f, k : Layers(f, k)' <=> Layers(f, k)
  BY <1>2 DEF Layers
<1>4. ASSUME NEW y, NEW n, y \in visited \/ Queued(y, n)
      PROVE  y \in visited' \/ InTime(y, n)
  <2>1. CASE y \in visited
    BY <2>1
  <2>2. CASE Queued(y, n)
    <3>1. PICK i \in 1 .. Len(queue) : queue[i].doc = y /\ Moves(i) <= n
      BY <2>2 DEF Queued
    <3>2. CASE i = 1
      BY <3>1, <3>2 DEF Entry
    <3>3. CASE i # 1
      <4>1. i - 1 \in 1 .. Len(queue) - 1 /\ (i - 1) + 1 = i
        BY <1>1, <3>3
      <4>2. i - 1 \in 1 .. Len(queue') /\ queue'[i - 1] = queue[i]
        BY <4>1
      <4> QED BY <3>1, <4>2 DEF Moves
    <3> QED BY <3>2, <3>3
  <2> QED BY <1>4, <2>1, <2>2
<1>5. ASSUME NEW k \in Nat, NEW f, Layers(f, k), NEW n \in 0 .. k, NEW x \in f[n] \cap visited',
             NEW y \in Successors(x)
      PROVE  y \in visited' \/ InTime(y, n + 1)
  <2>1. CASE x \in visited
    <3>1. y \in visited \/ Queued(y, n + 1)
      BY <1>5, <2>1 DEF Layered
    <3> QED BY <1>4, <3>1
  <2>2. CASE x \notin visited
    <3>1. x = Entry.doc
      BY <2>2
    <3>2. Early(n)
      BY <1>5, <2>2, LayerIsVisited
    <3>3. Moves(1) <= n
      <4>1. PICK i \in 1 .. Len(queue) : Moves(i) <= n
        BY <3>2 DEF Early
      <4>2. 1 \in 1 .. Len(queue) /\ 1 <= i
        BY <1>1
      <4>3. Moves(1) <= Moves(i)
        BY <4>2 DEF QueueOrdered
      <4> QED BY <1>1, <4>1, <4>2, <4>3
    <3>4. PICK j \in 1 .. Len(queue') : queue'[j].doc = y /\ Len(queue'[j].plan) = Moves(1) + 1
      BY <2>2, <3>1
    <3>5. Moves(1) \in Nat
      BY <1>1
    <3> QED BY <3>3, <3>4, <3>5
  <2> QED BY <2>1, <2>2
<1>6. Layered'
  BY <1>2, <1>3, <1>5 DEF Layered, Queued, Moves
<1>7. Start(req) \in visited' \/ InTime(Start(req), 0)
  BY <1>4
<1> QED
  BY <1>6, <1>7 DEF Queued, Moves

\* A search starts, or does not.
LEMMA StartKeepsShortInv ==
  ASSUME PlanInv, SearchInv, Refuse \/ Begin
  PROVE  ShortInv'
<1>1. phase = "asked" /\ visited = {} /\ visited' = {} /\ req' = req
  BY DEF SearchInv, UnvisitedInv, Refuse, Begin
<1>2. CASE Refuse \/ req.algorithm # "BFS"
  BY <1>1, <1>2 DEF ShortInv, Refuse, Begin
<1>3. CASE Begin /\ req.algorithm = "BFS"
  <2> DEFINE e == [doc |-> Start(req), plan |-> <<>>]
  <2>1. queue' = <<e>> /\ phase' = "queue"
    BY <1>3 DEF Begin
  <2>2. e.doc = Start(req) /\ Len(e.plan) = 0
    OBVIOUS
  <2> HIDE DEF e
  <2>3. Len(queue') = 1 /\ queue'[1] = e
    BY <2>1
  <2>4. QueueOrdered'
    <3>1. \A i \in 1 .. Len(queue') : Len(queue'[i].plan) = 0
      BY <2>2, <2>3
    <3>2. 1 \in 1 .. Len(queue')
      BY <2>3
    <3> QED BY <3>1, <3>2 DEF QueueOrdered, Moves
  <2>5. Layered'
    BY <1>1 DEF Layered
  <2>6. Queued(Start(req), 0)'
    <3>1. 1 \in 1 .. Len(queue') /\ queue'[1].doc = Start(req)' /\ Len(queue'[1].plan) <= 0
      BY <1>1, <2>2, <2>3
    <3> QED BY <3>1 DEF Queued, Moves
  <2> QED BY <2>1, <2>4, <2>5, <2>6 DEF ShortInv
<1> QED BY <1>2, <1>3

\* BfsSorter skips what it has seen.
LEMMA SkipKeepsShortInv ==
  ASSUME PlanInv, ShortInv, Skip
  PROVE  ShortInv'
<1>1. /\ phase = "queue" /\ phase' = "queue" /\ queue # <<>> /\ req' = req
      /\ Entry.doc \in visited /\ visited' = visited
  BY DEF Skip
<1>2. /\ QueueInv /\ Len(queue) \in Nat \ {0} /\ Len(queue') = Len(queue) - 1
      /\ \A i \in 1 .. Len(queue) - 1 : queue'[i] = queue[i + 1]
  BY TailFacts, SeqFacts DEF Skip, PlanInv, QueueInv
<1>3. QueueOrdered'
  <2>1. \A i \in Len(queue) .. Len(queue') : Len(queue'[i].plan) = Moves(1) + 1
    BY <1>2
  <2>2. Len(queue') \in Nat /\ Len(queue') >= Len(queue) - 1
    BY <1>2
  <2> QED BY <1>1, <1>2, <2>1, <2>2, DequeueKeepsOrder DEF ShortInv
<1>4. Layered' /\ (Start(req) \in visited \/ Queued(Start(req), 0))'
  <2>1. \A i \in 1 .. Len(queue) - 1 : i \in 1 .. Len(queue') /\ queue'[i] = queue[i + 1]
    BY <1>2
  <2>2. visited' = visited \cup {Entry.doc}
    BY <1>1
  <2> QED BY <1>1, <1>2, <2>1, <2>2, DequeueKeepsLayers DEF ShortInv
<1> QED BY <1>1, <1>3, <1>4 DEF ShortInv

\* BfsSorter queues what its valid moves lead to.
LEMMA ExpandKeepsShortInv ==
  ASSUME PlanInv, ShortInv, Expand, \A d, t, o : IsSeq(Generate(d, t, o))
  PROVE  ShortInv'
<1> DEFINE valid == Valids(Entry.doc)
           l == Len(queue) - 1
<1>1. /\ phase = "queue" /\ phase' = "queue" /\ queue # <<>> /\ req' = req
      /\ visited' = visited \cup {Entry.doc}
  BY DEF Expand
<1>2. /\ QueueInv /\ IsSeq(valid) /\ Len(queue) \in Nat \ {0} /\ Len(valid) \in Nat
      /\ Len(queue') = l + Len(valid)
      /\ \A i \in 1 .. l : queue'[i] = queue[i + 1]
      /\ \A i \in 1 .. Len(valid) :
           queue'[l + i] = [doc  |-> ApplyMove(valid[i], Entry.doc), plan |-> Append(Entry.plan, valid[i])]
  BY ExpandedQueue DEF PlanInv
<1>3. IsSeq(Entry.plan) /\ Len(Entry.plan) = Moves(1)
  BY <1>2 DEF QueueInv, Reaches, Entry, Moves
<1>4. ASSUME NEW i \in 1 .. Len(valid)
      PROVE  /\ l + i \in 1 .. Len(queue')
             /\ queue'[l + i].doc = ApplyMove(valid[i], Entry.doc)
             /\ Len(queue'[l + i].plan) = Moves(1) + 1
  <2>1. l + i \in 1 .. Len(queue')
    BY <1>2
  <2>2. Len(Append(Entry.plan, valid[i])) = Moves(1) + 1
    BY <1>3, AppendFacts
  <2> HIDE DEF valid, l
  <2>3. queue'[l + i] = [doc |-> ApplyMove(valid[i], Entry.doc), plan |-> Append(Entry.plan, valid[i])]
    BY <1>2
  <2> QED BY <2>1, <2>2, <2>3
<1> HIDE DEF valid
<1>5. QueueOrdered'
  <2>1. ASSUME NEW i \in Len(queue) .. Len(queue') PROVE Len(queue'[i].plan) = Moves(1) + 1
    <3>1. i - l \in 1 .. Len(valid) /\ l + (i - l) = i
      BY <1>2
    <3> QED BY <1>4, <3>1
  <2>2. Len(queue') \in Nat /\ Len(queue') >= Len(queue) - 1
    BY <1>2
  <2> QED BY <1>1, <1>2, <2>1, <2>2, DequeueKeepsOrder DEF ShortInv
<1>6. Layered' /\ (Start(req) \in visited \/ Queued(Start(req), 0))'
  <2>1. \A i \in 1 .. Len(queue) - 1 : i \in 1 .. Len(queue') /\ queue'[i] = queue[i + 1]
    BY <1>2
  <2>2. ASSUME NEW y \in Successors(Entry.doc)
        PROVE  \E j \in 1 .. Len(queue') : queue'[j].doc = y /\ Len(queue'[j].plan) = Moves(1) + 1
    <3>1. PICK i \in 1 .. Len(valid) : y = ApplyMove(valid[i], Entry.doc)
      BY <1>2, SeqFacts DEF Successors, ToSet, valid
    <3> QED BY <1>4, <3>1
  <2> QED BY <1>1, <1>2, <2>1, <2>2, DequeueKeepsLayers DEF ShortInv
<1> QED BY <1>1, <1>5, <1>6 DEF ShortInv

\* BfsSorter finds the target: fewer moves lead to what is visited, and the target was not.
LEMMA FinishKeepsShortInv ==
  ASSUME PlanInv, ShortInv, Finish
  PROVE  ShortInv'
<1>1. /\ phase = "queue" /\ phase' = "sorted" /\ queue # <<>> /\ req' = req
      /\ Entry.doc \notin visited /\ Entry.doc = Target(req) /\ result' = Entry.plan
  BY DEF Finish
<1>2. /\ QueueInv /\ Len(queue) \in Nat \ {0} /\ \A i \in 1 .. Len(queue) : Moves(i) \in Nat
  BY <1>1, SeqFacts DEF PlanInv, QueueInv, Reaches, Moves
<1>3. 1 \in 1 .. Len(queue) /\ Moves(1) \in Nat /\ Len(result') = Moves(1)
  BY <1>1, <1>2 DEF Entry, Moves
<1>4. \A d : Successors(d)' = Successors(d)
  BY <1>1 DEF Successors, Valids
<1>5. \A f, k : Layers(f, k)' <=> Layers(f, k)
  BY <1>1, <1>4 DEF Layers
<1>6. ASSUME NEW f, Layers(f, Moves(1)), NEW n \in 0 .. Moves(1) - 1 PROVE Target(req) \notin f[n]
  <2>1. ~Early(n)
    <3> SUFFICES ASSUME NEW i \in 1 .. Len(queue), Moves(i) <= n PROVE FALSE
      BY DEF Early
    <3>1. 1 <= i
      OBVIOUS
    <3>2. Moves(1) <= Moves(i)
      BY <1>1, <1>3, <3>1 DEF ShortInv, QueueOrdered
    <3> QED BY <1>2, <1>3, <3>2
  <2>2. n \in 0 .. Moves(1)
    BY <1>3
  <2>3. f[n] \subseteq visited
    BY <1>1, <1>2, <1>3, <1>6, <2>1, <2>2, LayerIsVisited DEF ShortInv
  <2> QED BY <1>1, <2>3
<1>7. \A f : Layers(f, Len(result))' => \A n \in 0 .. Len(result') - 1 : Target(req) \notin f[n]
  <2>1. \A f : Layers(f, Len(result))' <=> Layers(f, Moves(1))
    BY <1>1, <1>3, <1>4 DEF Layers
  <2> QED BY <1>3, <1>6, <2>1
<1> QED BY <1>1, <1>7 DEF ShortInv

\* The steps of the other sorters, and the end of a search.
LEMMA OthersKeepShortInv ==
  ASSUME ShortInv, \/ Arrive \/ Recall \/ TurnBack \/ Visit \/ Descend \/ Exhaust
                   \/ PassOn \/ Improve \/ Ignore \/ Answer \/ Drained
  PROVE  ShortInv'
<1>1. req' = req /\ phase \in {"call", "loop", "return", "queue"}
  BY DEF Arrive, Recall, TurnBack, Visit, Descend, Exhaust, PassOn, Improve, Ignore, Answer, Drained, Return
<1>2. CASE Drained
  BY <1>2 DEF ShortInv, Drained
<1>3. CASE ~Drained
  <2>1. phase \in {"call", "loop", "return"} /\ phase' \in {"call", "loop", "return", "sorted", "impossible"}
    BY <1>3 DEF Arrive, Recall, TurnBack, Visit, Descend, Exhaust, PassOn, Improve, Ignore, Answer, Return
  <2> QED BY <1>1, <2>1 DEF ShortInv
<1> QED BY <1>2, <1>3

\* No plan of fewer valid moves leads to the target than the one BfsSorter returns.
THEOREM BfsPlansAreShortest ==
  ASSUME \A d, t, o : IsSeq(Generate(d, t, o)), ~IsSeq(None)
  PROVE  Spec => []BfsIsShortest
<1>1. Init => ShortInv
  BY DEF Init, ShortInv
<1>2. PlanInv /\ SearchInv /\ ShortInv /\ [Next]_vars => ShortInv'
  <2> SUFFICES ASSUME PlanInv, SearchInv, ShortInv, [Next]_vars PROVE ShortInv'
    OBVIOUS
  <2>1. CASE Refuse \/ Begin
    BY <2>1, StartKeepsShortInv
  <2>2. CASE \/ Arrive \/ Recall \/ TurnBack \/ Visit \/ Descend \/ Exhaust
             \/ PassOn \/ Improve \/ Ignore \/ Answer \/ Drained
    BY <2>2, OthersKeepShortInv
  <2>3. CASE Skip
    BY <2>3, SkipKeepsShortInv
  <2>4. CASE Finish
    BY <2>4, FinishKeepsShortInv
  <2>5. CASE Expand
    BY <2>5, ExpandKeepsShortInv
  <2>6. CASE UNCHANGED vars
    <3>1. \A d : Successors(d)' = Successors(d)
      BY <2>6 DEF Successors, Valids, vars
    <3>2. \A f, k : Layers(f, k)' <=> Layers(f, k)
      BY <2>6, <3>1 DEF Layers, vars
    <3>3. (QueueOrdered <=> QueueOrdered') /\ (Queued(Start(req), 0) <=> Queued(Start(req), 0)')
      BY <2>6 DEF QueueOrdered, Queued, Moves, vars
    <3>4. \A y, n : Queued(y, n)' <=> Queued(y, n)
      BY <2>6 DEF Queued, Moves, vars
    <3>5. Layered => Layered'
      BY <2>6, <3>1, <3>2, <3>4 DEF Layered, vars
    <3>6. \A f : Layers(f, Len(result))' <=> Layers(f, Len(result))
      BY <2>6, <3>1 DEF Layers, vars
    <3> QED BY <2>6, <3>3, <3>5, <3>6 DEF ShortInv, vars
  <2> QED
    BY <2>1, <2>2, <2>3, <2>4, <2>5, <2>6 DEF Next
<1>3. PlanInv /\ ShortInv => BfsIsShortest
  <2> SUFFICES ASSUME PlanInv, ShortInv, Sorted, req.algorithm = "BFS", NEW n \in 0 .. Len(result) - 1
               PROVE  Target(req) \notin Near(Len(result))[n]
    BY DEF BfsIsShortest
  <2>1. Len(result) \in Nat
    BY SeqFacts DEF PlanInv, PhaseInv, Sorted, Leads
  <2>2. Layers(Near(Len(result)), Len(result))
    BY <2>1, NearFacts
  <2> QED BY <2>2 DEF ShortInv, Sorted
<1> QED
  BY <1>1, <1>2, <1>3, PlansLead, SearchIsClosed, PTL DEF Spec
-----------------------------------------------------------------------------
(***************************************************************************)
(* What the move validators keep, on every document and for every move: no  *)
(* row comes or goes in one change with something that refers to it, and a  *)
(* port-critical row changes only while its port is down.                   *)
(*                                                                         *)
(* The validators say nothing of a change on its own: that they are enough  *)
(* takes that documents stay well formed and valid from change to change,   *)
(* which is the invariant of a plan below.                                 *)
(***************************************************************************)
----------------------------------------------------------------------------
(* Paths.                                                                  *)

\* A path is a sequence of at most four names.
LEMMA PathFacts ==
  ASSUME NEW p, IsPath(p)
  PROVE  IsSeq(p) /\ Len(p) \in 0 .. 4 /\ DOMAIN p = 1 .. Len(p) /\ (p = <<>> <=> Len(p) = 0)
<1>1. PICK n \in 0 .. 4 : p = [i \in 1 .. n |-> p[i]]
  BY DEF IsPath
<1> DEFINE S == {p[i] : i \in 1 .. n}
<1>2. [i \in 1 .. n |-> p[i]] \in Seq(S)
  OBVIOUS
<1>3. p \in Seq(S)
  BY <1>1, <1>2
<1>4. IsSeq(p)
  BY <1>3 DEF IsSeq
<1>5. DOMAIN p = 1 .. n
  BY <1>1
<1>6. Len(p) = n
  BY <1>3, <1>5
<1> QED
  BY <1>4, <1>6, SeqFacts

\* One path is under another when it begins with it.
LEMMA UnderFacts ==
  ASSUME NEW p, NEW q, IsPath(p), IsPath(q)
  PROVE  Under(p, q) <=> Len(p) <= Len(q) /\ \A i \in 1 .. Len(p) : p[i] = q[i]
<1>1. IsSeq(p) /\ IsSeq(q) /\ Len(p) \in Nat /\ Len(q) \in Nat
  BY PathFacts
<1>2. PICK S : p \in Seq(S)
  BY <1>1 DEF IsSeq
<1>3. PICK T : q \in Seq(T)
  BY <1>1 DEF IsSeq
<1>4. SubSeq(p, 1, Len(p)) = [i \in 1 .. Len(p) |-> p[i]]
  BY <1>1, <1>2, SubSeqProperties
<1>5. CASE Len(p) <= Len(q)
  <2>1. SubSeq(q, 1, Len(p)) = [i \in 1 .. Len(p) |-> q[i]]
    BY <1>1, <1>3, <1>5, SubSeqProperties
  <2> QED
    BY <1>4, <1>5, <2>1 DEF Under, IsPrefix
<1>6. CASE ~(Len(p) <= Len(q))
  BY <1>6 DEF Under, IsPrefix
<1> QED
  BY <1>5, <1>6

\* Paths with the same names are the same.
LEMMA SamePath ==
  ASSUME NEW p, NEW q, IsPath(p), IsPath(q), Len(p) = Len(q), \A i \in 1 .. Len(p) : p[i] = q[i]
  PROVE  p = q
<1>1. p = [i \in 1 .. Len(p) |-> p[i]] /\ q = [i \in 1 .. Len(q) |-> q[i]]
  <2>1. PICK n \in 0 .. 4 : p = [i \in 1 .. n |-> p[i]]
    BY DEF IsPath
  <2>2. PICK k \in 0 .. 4 : q = [i \in 1 .. k |-> q[i]]
    BY DEF IsPath
  <2>3. n = Len(p) /\ k = Len(q)
    BY <2>1, <2>2, PathFacts
  <2> QED BY <2>1, <2>2, <2>3
<1> QED
  BY <1>1

\* What is above a path.
LEMMA FrontIsPath ==
  ASSUME NEW p, IsPath(p), p # <<>>
  PROVE  /\ IsPath(Front(p)) /\ Len(Front(p)) = Len(p) - 1 /\ Len(p) \in 1 .. 4
         /\ \A i \in 1 .. Len(p) - 1 : Front(p)[i] = p[i]
         /\ Under(Front(p), p)
<1>1. IsSeq(p) /\ Len(p) \in 1 .. 4
  BY PathFacts
<1>2. IsSeq(Front(p)) /\ Len(Front(p)) = Len(p) - 1 /\ \A i \in 1 .. Len(p) - 1 : Front(p)[i] = p[i]
  BY <1>1, FrontFacts
<1>3. PICK S : Front(p) \in Seq(S)
  BY <1>2 DEF IsSeq
<1>4. Front(p) = [i \in 1 .. Len(p) - 1 |-> Front(p)[i]] /\ Len(p) - 1 \in 0 .. 4
  BY <1>1, <1>2, <1>3
<1>5. IsPath(Front(p))
  BY <1>4 DEF IsPath
<1> QED
  BY <1>1, <1>2, <1>5, UnderFacts

\* What is above a path is shorter than the longest ones.
LEMMA ShorterFront == ASSUME NEW p, IsPath(p), p # <<>> PROVE Len(Front(p)) < 4
<1> DEFINE n == Len(p)
           k == Len(Front(p))
<1>1. k = n - 1 /\ n \in 1 .. 4
  BY FrontIsPath
<1> HIDE DEF n, k
<1>2. k < 4
  BY <1>1
<1> QED
  BY <1>2 DEF k

\* Under is an order, and what is above one path is a chain.
LEMMA UnderOrder ==
  ASSUME NEW p, NEW q, IsPath(p), IsPath(q), Under(p, q)
  PROVE  /\ Len(p) <= Len(q)
         /\ Len(p) = Len(q) => p = q
         /\ Len(p) < Len(q) => Under(p, Front(q))
         /\ \A r : IsPath(r) /\ Under(q, r) => Under(p, r)
         /\ \A r : IsPath(r) /\ Under(r, q) /\ Len(p) <= Len(r) => Under(p, r)
<1>1. Len(p) \in 0 .. 4 /\ Len(q) \in 0 .. 4 /\ Len(p) <= Len(q) /\ \A i \in 1 .. Len(p) : p[i] = q[i]
  BY PathFacts, UnderFacts
<1>2. Len(p) = Len(q) => p = q
  BY <1>1, SamePath
<1>3. ASSUME Len(p) < Len(q) PROVE Under(p, Front(q))
  <2>1. q # <<>>
    BY <1>1, <1>3, PathFacts
  <2>2. IsPath(Front(q)) /\ Len(Front(q)) = Len(q) - 1 /\ \A i \in 1 .. Len(q) - 1 : Front(q)[i] = q[i]
    BY <2>1, FrontIsPath
  <2> QED BY <1>1, <1>3, <2>2, UnderFacts
<1>4. ASSUME NEW r, IsPath(r), Under(q, r) PROVE Under(p, r)
  <2>1. Len(q) <= Len(r) /\ Len(r) \in 0 .. 4 /\ \A i \in 1 .. Len(q) : q[i] = r[i]
    BY <1>4, PathFacts, UnderFacts
  <2> QED BY <1>1, <1>4, <2>1, UnderFacts
<1>5. ASSUME NEW r, IsPath(r), Under(r, q), Len(p) <= Len(r) PROVE Under(p, r)
  <2>1. Len(r) \in 0 .. 4 /\ \A i \in 1 .. Len(r) : r[i] = q[i]
    BY <1>5, PathFacts, UnderFacts
  <2> QED BY <1>1, <1>5, <2>1, UnderFacts
<1> QED
  BY <1>1, <1>2, <1>3, <1>4, <1>5

\* A value below a field.
LEMMA ValuePath ==
  ASSUME NEW f, NEW v, IsPath(f)
  PROVE  Len(f) = 3 => /\ IsPath(Append(f, v)) /\ Len(Append(f, v)) = 4
                       /\ Front(Append(f, v)) = f /\ Append(f, v)[4] = v
<1> DEFINE q == Append(f, v)
<1>1. IsSeq(f)
  BY PathFacts
<1>2. IsSeq(q) /\ Len(q) = Len(f) + 1 /\ q[Len(f) + 1] = v /\ \A i \in 1 .. Len(f) : q[i] = f[i]
  BY <1>1, AppendFacts
<1> HIDE DEF q
<1> SUFFICES ASSUME Len(f) = 3
             PROVE  IsPath(q) /\ Len(q) = 4 /\ Front(q) = f /\ q[4] = v
  BY DEF q
<1>3. PICK S : q \in Seq(S)
  BY <1>2 DEF IsSeq
<1>4. q = [i \in 1 .. 4 |-> q[i]]
  BY <1>2, <1>3
<1>5. IsPath(q)
  BY <1>4 DEF IsPath
<1>6. q # <<>>
  BY <1>2, <1>5, PathFacts
<1>7. IsPath(Front(q)) /\ Len(Front(q)) = 3 /\ \A i \in 1 .. 3 : Front(q)[i] = f[i]
  BY <1>2, <1>5, <1>6, FrontIsPath
<1>8. Front(q) = f
  BY <1>7, SamePath
<1> QED
  BY <1>2, <1>5, <1>8

\* A field of a row.
LEMMA FieldPath ==
  ASSUME NEW f, NEW v, IsPath(f)
  PROVE  Len(f) = 2 => /\ IsPath(Append(f, v)) /\ Len(Append(f, v)) = 3
                       /\ Front(Append(f, v)) = f /\ Append(f, v)[3] = v
<1> DEFINE q == Append(f, v)
<1>1. IsSeq(f)
  BY PathFacts
<1>2. IsSeq(q) /\ Len(q) = Len(f) + 1 /\ q[Len(f) + 1] = v /\ \A i \in 1 .. Len(f) : q[i] = f[i]
  BY <1>1, AppendFacts
<1> HIDE DEF q
<1> SUFFICES ASSUME Len(f) = 2
             PROVE  IsPath(q) /\ Len(q) = 3 /\ Front(q) = f /\ q[3] = v
  BY DEF q
<1>3. PICK S : q \in Seq(S)
  BY <1>2 DEF IsSeq
<1>4. q = [i \in 1 .. 3 |-> q[i]]
  BY <1>2, <1>3
<1>5. IsPath(q)
  BY <1>4 DEF IsPath
<1>6. q # <<>>
  <2>1. q = <<>> <=> Len(q) = 0
    BY <1>5, PathFacts
  <2> QED BY <1>2, <2>1
<1>7. IsPath(Front(q)) /\ Len(Front(q)) = 2 /\ \A i \in 1 .. 2 : Front(q)[i] = f[i]
  <2>1. /\ IsPath(Front(q)) /\ Len(Front(q)) = Len(q) - 1
        /\ \A i \in 1 .. Len(q) - 1 : Front(q)[i] = q[i]
    BY <1>5, <1>6, FrontIsPath
  <2>2. Len(q) - 1 = 2
    BY <1>2
  <2> QED BY <1>2, <2>1, <2>2
<1>8. Front(q) = f
  BY <1>7, SamePath
<1> QED
  BY <1>2, <1>5, <1>8

----------------------------------------------------------------------------
(* Documents.                                                              *)

\* What is above a node of a document is in the document.
LEMMA AboveIsIn ==
  ASSUME NEW d, WellFormed(d), NEW q \in d, NEW p, IsPath(p), p # <<>>, Under(p, q)
  PROVE  p \in d
<1>1. Len(p) \in 1 .. 4
  BY PathFacts
<1>2. ASSUME NEW x \in d, Under(p, x), p # x
      PROVE  Front(x) \in d /\ Under(p, Front(x)) /\ Len(Front(x)) = Len(x) - 1
             /\ Len(p) < Len(x) /\ Len(x) \in 1 .. 4
  <2>1. IsPath(x) /\ x # <<>> /\ (Len(x) > 1 => Front(x) \in d)
    BY DEF WellFormed
  <2>2. Len(p) < Len(x) /\ Under(p, Front(x))
    BY <1>1, <1>2, <2>1, UnderOrder, PathFacts
  <2> QED BY <1>1, <2>1, <2>2, FrontIsPath
<1>3. SUFFICES ASSUME p \notin d PROVE FALSE
  OBVIOUS
<1>4. p # q /\ Front(q) \in d /\ Under(p, Front(q)) /\ Len(Front(q)) = Len(q) - 1 /\ Len(q) \in 1 .. 4
  BY <1>2, <1>3
<1> DEFINE a == Front(q)
<1>5. p # a /\ Front(a) \in d /\ Under(p, Front(a)) /\ Len(Front(a)) = Len(a) - 1 /\ Len(a) \in 1 .. 4
  BY <1>2, <1>3, <1>4
<1> DEFINE b == Front(a)
<1>6. p # b /\ Front(b) \in d /\ Under(p, Front(b)) /\ Len(Front(b)) = Len(b) - 1 /\ Len(b) \in 1 .. 4
  BY <1>2, <1>3, <1>5
<1> DEFINE c == Front(b)
<1>7. p # c /\ Len(p) < Len(c)
  BY <1>2, <1>3, <1>6
<1> HIDE DEF a, b, c
<1>8. Len(a) = Len(q) - 1 /\ Len(b) = Len(a) - 1 /\ Len(c) = Len(b) - 1
  BY <1>4, <1>5, <1>6 DEF a, b, c
<1>9. Len(a) \in 0 .. 3
  BY <1>4, <1>8
<1>10. Len(b) \in 0 .. 2
  BY <1>8, <1>9
<1>11. Len(c) \in 0 .. 1
  BY <1>8, <1>10
<1> QED
  BY <1>1, <1>7, <1>11

\* The value of a field.
LEMMA ValueFacts ==
  ASSUME NEW d, WellFormed(d), NEW f, f \in FieldsIn(d)
  PROVE  /\ IsPath(f) /\ Len(f) = 3 /\ Append(f, ValueOf(d, f)) \in d
         /\ \A q \in d : Len(q) = 4 /\ Front(q) = f => q[4] = ValueOf(d, f) /\ q = Append(f, q[4])
<1>1. IsPath(f) /\ Len(f) = 3 /\ f \in d
  BY DEF FieldsIn, WellFormed
<1>2. ASSUME NEW q \in d, Len(q) = 4
      PROVE  IsPath(q) /\ q # <<>> /\ (Under(f, q) <=> Front(q) = f)
  <2>1. IsPath(q) /\ q # <<>>
    BY DEF WellFormed
  <2>2. Under(Front(q), q) /\ Len(Front(q)) = Len(q) - 1 /\ IsPath(Front(q))
    BY <2>1, FrontIsPath
  <2>3. ASSUME Under(f, q) PROVE Front(q) = f
    <3>1. Len(f) < Len(q)
      BY <1>1, <1>2
    <3>2. Under(f, Front(q))
      BY <1>1, <2>1, <2>3, <3>1, UnderOrder
    <3>3. Len(f) = Len(Front(q))
      BY <1>1, <1>2, <2>2
    <3> QED BY <1>1, <2>2, <3>2, <3>3, UnderOrder
  <2> QED BY <2>1, <2>2, <2>3
<1>3. PICK v \in d : Len(v) = 4 /\ Front(v) = f
  BY DEF WellFormed, HasValues
<1> DEFINE x == CHOOSE q \in d : Len(q) = 4 /\ Under(f, q)
<1>4. x \in d /\ Len(x) = 4 /\ Under(f, x)
  BY <1>2, <1>3
<1> HIDE DEF x
<1>5. Front(x) = f /\ IsPath(x)
  BY <1>2, <1>4
<1>6. ASSUME NEW q \in d, Len(q) = 4, Front(q) = f PROVE q = x /\ q = Append(f, q[4])
  <2>1. q = x
    BY <1>4, <1>5, <1>6 DEF WellFormed, HasValues
  <2>2. IsPath(Append(f, q[4])) /\ Len(Append(f, q[4])) = 4 /\ Append(f, q[4])[4] = q[4]
        /\ Front(Append(f, q[4])) = f
    BY <1>1, ValuePath
  <2>3. Append(f, q[4]) # <<>> /\ IsPath(q) /\ q # <<>>
    BY <1>2, <1>6, <2>2, PathFacts
  <2> DEFINE y == Append(f, q[4])
  <2>4. \A i \in 1 .. 3 : f[i] = q[i] /\ f[i] = y[i]
    <3>1. \A i \in 1 .. Len(q) - 1 : Front(q)[i] = q[i]
      BY <2>3, FrontIsPath
    <3>2. \A i \in 1 .. Len(y) - 1 : Front(y)[i] = y[i]
      BY <2>2, <2>3, FrontIsPath
    <3> HIDE DEF y
    <3>3. Len(y) = 4 /\ Front(y) = f
      BY <2>2 DEF y
    <3> QED BY <1>6, <3>1, <3>2, <3>3
  <2> HIDE DEF y
  <2>5. IsPath(y) /\ Len(y) = 4 /\ y[4] = q[4]
    BY <2>2 DEF y
  <2>6. \A i \in 1 .. 4 : q[i] = y[i]
    BY <2>4, <2>5
  <2>7. q = y
    BY <1>6, <2>3, <2>5, <2>6, SamePath
  <2> QED BY <2>1, <2>7 DEF y
<1>7. ValueOf(d, f) = x[4]
  BY DEF ValueOf, x
<1> QED
  BY <1>1, <1>3, <1>6, <1>7

\* A field with the same value nodes has the same value.
LEMMA SameValue ==
  ASSUME NEW a, NEW b, WellFormed(a), WellFormed(b), NEW f, f \in FieldsIn(a), f \in FieldsIn(b),
         Append(f, ValueOf(a, f)) \in b
  PROVE  ValueOf(b, f) = ValueOf(a, f)
<1>1. IsPath(f) /\ Len(f) = 3
  BY ValueFacts
<1> DEFINE q == Append(f, ValueOf(a, f))
<1>2. Len(q) = 4 /\ Front(q) = f /\ q[4] = ValueOf(a, f)
  BY <1>1, ValuePath
<1> HIDE DEF q
<1>3. q[4] = ValueOf(b, f)
  BY <1>2, ValueFacts DEF q
<1> QED
  BY <1>2, <1>3

\* The first index of an item.
LEMMA FirstIndexFacts ==
  ASSUME NEW l, NEW S, l \in Seq(S), NEW v \in ToSet(l)
  PROVE  FirstIndex(l, v) \in DOMAIN l /\ l[FirstIndex(l, v)] = v
<1> DEFINE T == {i \in DOMAIN l : l[i] = v}
           R == {ss \in Nat \X Nat : ss[1] < ss[2]}
<1>1. T \subseteq Nat /\ T # {}
  BY DEF ToSet
<1>2. PICK i \in T : \A j \in T : ~(<<j, i>> \in R)
  <2> HIDE DEF R, T
  <2> QED BY <1>1, LessIsWellFounded, WFMin, Zenon DEF R
<1>3. i \in DOMAIN l /\ l[i] = v /\ DOMAIN l = 1 .. Len(l) /\ Len(l) \in Nat
  BY <1>2
<1>4. \A j \in 1 .. i - 1 : l[j] # v
  <2> SUFFICES ASSUME NEW j \in 1 .. i - 1, l[j] = v PROVE FALSE
    OBVIOUS
  <2>1. j \in T /\ j \in Nat /\ i \in Nat /\ j < i
    BY <1>3
  <2> QED
    BY <1>2, <2>1
<1> QED
  BY <1>3, <1>4, Zenon DEF FirstIndex

\* The list of a field, and its items' paths.
LEMMA ListFacts ==
  ASSUME NEW d, WellFormed(d), NEW f, f \in FieldsIn(d), IsList(f)
  PROVE  ValueOf(d, f) \in Seq(ToSet(ValueOf(d, f)))
<1>1. IsPath(f) /\ Len(f) = 3 /\ Append(f, ValueOf(d, f)) \in d
  BY ValueFacts
<1>2. Len(Append(f, ValueOf(d, f))) = 4 /\ Front(Append(f, ValueOf(d, f))) = f
      /\ Append(f, ValueOf(d, f))[4] = ValueOf(d, f)
  BY <1>1, ValuePath
<1> DEFINE q == Append(f, ValueOf(d, f))
<1> HIDE DEF q
<1>3. q \in d /\ Len(q) = 4 /\ Front(q) = f /\ q[4] = ValueOf(d, f)
  BY <1>1, <1>2 DEF q
<1>4. q[4] \in Seq(ToSet(q[4]))
  BY <1>3 DEF WellFormed, HasValues
<1> QED
  BY <1>3, <1>4

----------------------------------------------------------------------------
(* References.                                                             *)

KeyRef(r, d) == r \in KeyRefs /\ r[1] \in d
ValueRef(r, d, f) ==
    /\ f \in FieldsIn(d) \cap DOMAIN FieldRefs /\ ~IsList(f)
    /\ r = <<f, <<FieldRefs[f], ValueOf(d, f)>>>>
ItemRef(r, d, f, v) ==
    /\ f \in FieldsIn(d) \cap DOMAIN FieldRefs /\ IsList(f) /\ v \in ToSet(ValueOf(d, f))
    /\ r = <<Append(f, FirstIndex(ValueOf(d, f), v)), <<FieldRefs[f], v>>>>

\* The kinds of references.
LEMMA ReferrerKinds ==
  ASSUME NEW d, NEW r
  PROVE  r \in Referrers(d) <=> \/ KeyRef(r, d)
                                \/ \E f : ValueRef(r, d, f)
                                \/ \E f, v : ItemRef(r, d, f, v)
<1> DEFINE K == {x \in KeyRefs : x[1] \in d}
           V == {<<f, <<FieldRefs[f], ValueOf(d, f)>>>> :
                   f \in {g \in FieldsIn(d) : g \in DOMAIN FieldRefs /\ ~IsList(g)}}
           Items(f) == {<<Append(f, FirstIndex(ValueOf(d, f), v)), <<FieldRefs[f], v>>>> :
                          v \in ToSet(ValueOf(d, f))}
           I == UNION {Items(f) : f \in {g \in FieldsIn(d) : g \in DOMAIN FieldRefs /\ IsList(g)}}
<1>1. Referrers(d) = K \cup V \cup I
  BY DEF Referrers
<1>2. r \in K <=> KeyRef(r, d)
  BY DEF KeyRef
<1>3. r \in V <=> \E f : ValueRef(r, d, f)
  BY DEF ValueRef
<1>4. ASSUME NEW f PROVE r \in Items(f) <=> \E v \in ToSet(ValueOf(d, f)) :
                     r = <<Append(f, FirstIndex(ValueOf(d, f), v)), <<FieldRefs[f], v>>>>
  OBVIOUS
<1>5. r \in I <=> \E f \in FieldsIn(d) : f \in DOMAIN FieldRefs /\ IsList(f) /\ r \in Items(f)
  <2> HIDE DEF Items
  <2> QED BY Zenon DEF I
<1> HIDE DEF Items
<1>6. r \in I <=> \E f, v : ItemRef(r, d, f, v)
  BY <1>4, <1>5 DEF ItemRef
<1> QED
  BY <1>1, <1>2, <1>3, <1>6

\* A table and a key make the path of a row.
LEMMA RowPath == ASSUME NEW t, NEW k PROVE IsPath(<<t, k>>) /\ Len(<<t, k>>) = 2
<1>1. <<t, k>> = [i \in 1 .. 2 |-> <<t, k>>[i]]
  OBVIOUS
<1> QED
  BY <1>1 DEF IsPath

\* What is referred to is a row.
LEMMA ReferredIsRow ==
  ASSUME NEW d, NEW r \in Referrers(d)
  PROVE  IsPath(r[2]) /\ Len(r[2]) = 2
<1>1. CASE KeyRef(r, d)
  BY <1>1, RefsAssumption DEF KeyRef
<1>2. CASE \E f : ValueRef(r, d, f)
  <2>1. PICK f : ValueRef(r, d, f)
    BY <1>2
  <2> QED BY <2>1, RowPath DEF ValueRef
<1>3. CASE \E f, v : ItemRef(r, d, f, v)
  <2>1. PICK f, v : ItemRef(r, d, f, v)
    BY <1>3
  <2> QED BY <2>1, RowPath DEF ItemRef
<1> QED
  BY <1>1, <1>2, <1>3, ReferrerKinds

\* With no references within some paths, what refers below one of them is below
\* none of them.
LEMMA NoRefsFacts ==
  ASSUME NEW d, NEW paths, NoRefsWithin(paths, d), NEW r \in Referrers(d),
         NEW p \in paths, Under(p, r[2]), NEW x \in paths
  PROVE  ~Under(x, r[1])
<1>1. r[1] \in RefPaths(p, d)
  BY DEF RefPaths
<1>2. ~StartsWith(r[1], x)
  BY <1>1 DEF NoRefsWithin
<1> QED
  BY <1>2 DEF StartsWith

\* What is gone has a topmost path that is gone.
LEMMA MissingAbove ==
  ASSUME NEW a, NEW b, WellFormed(a), NEW q \in a, q \notin b, Len(q) < 4
  PROVE  \E x \in Missing(a, b) : x \in a /\ Len(x) < 4 /\ Under(x, q)
<1>1. \A x \in a : IsPath(x) /\ x # <<>> /\ Len(x) \in 1 .. 4 /\ (Len(x) > 1 => Front(x) \in a)
  BY PathFacts DEF WellFormed
<1>2. \A x \in a : Under(x, x) /\ Under(Front(x), x) /\ Len(Front(x)) = Len(x) - 1
  BY <1>1, UnderFacts, FrontIsPath
<1>3. \A x \in a : x \notin b /\ Len(x) < 4 /\ (Len(x) = 1 \/ Front(x) \in b) => x \in Missing(a, b)
  BY DEF Missing
<1>4. CASE Len(q) = 1 \/ Front(q) \in b
  BY <1>2, <1>3, <1>4
<1>5. CASE Len(q) # 1 /\ Front(q) \notin b
  <2> DEFINE u == Front(q)
  <2>1. u \in a /\ u \notin b /\ Len(u) = Len(q) - 1 /\ Len(u) < 4 /\ Len(q) \in 2 .. 3 /\ Under(u, q)
    <3>1. Len(q) \in 1 .. 4 /\ Len(q) # 1 /\ Len(q) < 4
      BY <1>1, <1>5
    <3>2. Len(q) > 1
      BY <3>1
    <3>3. Len(u) = Len(q) - 1 /\ Under(u, q)
      BY <1>2
    <3>4. u \in a /\ u \notin b
      BY <1>1, <1>5, <3>2
    <3> HIDE DEF u
    <3> QED BY <3>1, <3>3, <3>4
  <2> HIDE DEF u
  <2>2. CASE Len(u) = 1 \/ Front(u) \in b
    BY <1>3, <2>1, <2>2
  <2>3. CASE Len(u) # 1 /\ Front(u) \notin b
    <3> DEFINE w == Front(u)
    <3>1. w \in a /\ w \notin b /\ Len(w) = Len(u) - 1 /\ Under(w, u)
      BY <1>1, <1>2, <2>1, <2>3
    <3> HIDE DEF w
    <3>2. Len(w) = 1
      BY <1>1, <2>1, <3>1
    <3>3. w \in Missing(a, b)
      <4>1. Len(w) < 4
        BY <3>2
      <4> QED BY <1>3, <3>1, <3>2, <4>1
    <3>4. Under(w, q)
      BY <1>1, <2>1, <3>1, UnderOrder
    <3>5. Len(w) < 4
      BY <3>2
    <3> QED BY <3>1, <3>3, <3>4, <3>5
  <2> QED BY <2>2, <2>3
<1> QED
  BY <1>4, <1>5

\* A reference whose path stays where it is, with its value, stays a reference.
LEMMA ReferenceStays ==
  ASSUME NEW a, NEW b, WellFormed(a), WellFormed(b), NEW r \in Referrers(a),
         r[1] \in a => r[1] \in b,
         \A f \in FieldsIn(a) : r[1] = f \/ (\E v : r[1] = Append(f, v))
            => f \in b /\ Append(f, ValueOf(a, f)) \in b
  PROVE  r \in Referrers(b)
<1>1. CASE KeyRef(r, a)
  <2>1. KeyRef(r, b)
    BY <1>1 DEF KeyRef
  <2> QED BY <2>1, ReferrerKinds
<1>2. CASE \E f : ValueRef(r, a, f)
  <2>1. PICK f : ValueRef(r, a, f)
    BY <1>2
  <2>2. f \in FieldsIn(a) /\ r[1] = f
    BY <2>1 DEF ValueRef
  <2>3. f \in FieldsIn(b) /\ Append(f, ValueOf(a, f)) \in b
    BY <2>2 DEF FieldsIn
  <2>4. ValueOf(b, f) = ValueOf(a, f)
    BY <2>2, <2>3, SameValue
  <2>5. ValueRef(r, b, f)
    BY <2>1, <2>3, <2>4 DEF ValueRef
  <2> QED BY <2>5, ReferrerKinds
<1>3. CASE \E f, v : ItemRef(r, a, f, v)
  <2>1. PICK f, v : ItemRef(r, a, f, v)
    BY <1>3
  <2>2. f \in FieldsIn(a) /\ \E i : r[1] = Append(f, i)
    BY <2>1 DEF ItemRef
  <2>3. f \in FieldsIn(b) /\ Append(f, ValueOf(a, f)) \in b
    BY <2>2 DEF FieldsIn
  <2>4. ValueOf(b, f) = ValueOf(a, f)
    BY <2>2, <2>3, SameValue
  <2>5. ItemRef(r, b, f, v)
    BY <2>1, <2>3, <2>4 DEF ItemRef
  <2> QED BY <2>5, ReferrerKinds
<1> QED
  BY <1>1, <1>2, <1>3, ReferrerKinds

\* A path below which nothing refers is not above the path of a reference, nor
\* above the value that refers.
LEMMA NotAboveValue ==
  ASSUME NEW p, IsPath(p), Len(p) < 4, NEW f, IsPath(f), Len(f) = 3, NEW v
  PROVE  Under(p, Append(f, v)) <=> Under(p, f)
<1>1. /\ IsPath(Append(f, v)) /\ Len(Append(f, v)) = 4 /\ Front(Append(f, v)) = f
  BY ValuePath
<1> DEFINE q == Append(f, v)
<1> HIDE DEF q
<1>2. IsPath(q) /\ Len(q) = 4 /\ Front(q) = f
  BY <1>1 DEF q
<1>3. Len(p) < Len(q) /\ q # <<>>
  <2>1. q = <<>> <=> Len(q) = 0
    BY <1>2, PathFacts
  <2> QED BY <1>2, <2>1
<1>4. Under(p, q) => Under(p, Front(q))
  BY <1>2, <1>3, UnderOrder
<1>5. Under(Front(q), q)
  BY <1>2, <1>3, FrontIsPath
<1>6. Under(p, f) => Under(p, q)
  BY <1>2, <1>5, UnderOrder
<1> QED
  BY <1>2, <1>4, <1>6 DEF q

\* A removal: what it removes nothing that stays refers to, and, read backwards,
\* an addition: what it adds nothing that was there refers to.
LEMMA RemovedApart ==
  ASSUME NEW a, NEW b, WellFormed(a), WellFormed(b), Valid(a), Valid(b),
         NEW p, IsPath(p), Len(p) < 4, b = a \ Cut(a, p), NoRefsWithin({p}, a)
  PROVE  \A r \in Referrers(a) : r[2] \in b
<1> SUFFICES ASSUME NEW r \in Referrers(a), r[2] \notin b PROVE FALSE
  OBVIOUS
<1>1. r[2] \in a
  BY DEF Valid
<1>2. Under(p, r[2])
  BY <1>1 DEF Cut
<1>3. ~Under(p, r[1])
  BY <1>2, NoRefsFacts
<1>4. r[1] \in a => r[1] \in b
  BY <1>3 DEF Cut
<1>5. ASSUME NEW f \in FieldsIn(a), r[1] = f \/ (\E v : r[1] = Append(f, v))
      PROVE  f \in b /\ Append(f, ValueOf(a, f)) \in b
  <2>1. IsPath(f) /\ Len(f) = 3 /\ f \in a /\ Append(f, ValueOf(a, f)) \in a
    BY ValueFacts DEF FieldsIn
  <2>2. ~Under(p, f)
    BY <1>3, <1>5, <2>1, NotAboveValue
  <2>3. ~Under(p, Append(f, ValueOf(a, f)))
    BY <2>1, <2>2, NotAboveValue
  <2> QED BY <2>1, <2>2, <2>3 DEF Cut
<1>6. r \in Referrers(b)
  BY <1>4, <1>5, ReferenceStays
<1> QED
  BY <1>6 DEF Valid

\* A value that changes.
LEMMA MissingValue ==
  ASSUME NEW a, NEW b, WellFormed(a), NEW f \in FieldsIn(a), f \in b, ~IsList(f),
         Append(f, ValueOf(a, f)) \notin b
  PROVE  f \in Missing(a, b)
<1> DEFINE x == Append(f, ValueOf(a, f))
<1>1. x \in a /\ Len(x) = 4 /\ Front(x) = f
  BY ValueFacts, ValuePath
<1> HIDE DEF x
<1>2. f \in {Front(q) : q \in {y \in a \ b : Len(y) = 4 /\ Front(y) \in b /\ ~IsList(Front(y))}}
  BY <1>1 DEF x
<1> QED
  BY <1>2 DEF Missing

\* An item that a list no longer has.
LEMMA MissingItem ==
  ASSUME NEW a, NEW b, WellFormed(a), WellFormed(b), NEW f \in FieldsIn(a), f \in b, IsList(f),
         NEW j \in DOMAIN ValueOf(a, f), ValueOf(a, f)[j] \notin ToSet(ValueOf(b, f))
  PROVE  Append(f, j) \in Missing(a, b)
<1> DEFINE x == Append(f, ValueOf(a, f))
           Items(q) == {Append(Front(q), i) : i \in {k \in DOMAIN q[4] :
                            q[4][k] \notin ToSet(ValueOf(b, Front(q)))}}
<1>1. x \in a /\ Len(x) = 4 /\ Front(x) = f /\ x[4] = ValueOf(a, f)
  BY ValueFacts, ValuePath
<1>2. x \notin b
  <2> SUFFICES ASSUME x \in b PROVE FALSE
    OBVIOUS
  <2>1. f \in FieldsIn(b)
    BY ValueFacts DEF FieldsIn
  <2>2. ValueOf(b, f) = ValueOf(a, f)
    BY <2>1, SameValue
  <2> QED BY <2>2 DEF ToSet
<1> HIDE DEF x
<1>3. Append(f, j) \in Items(x)
  BY <1>1
<1>4. x \in {y \in a \ b : Len(y) = 4 /\ Front(y) \in b /\ IsList(Front(y))}
  BY <1>1, <1>2
<1> QED
  BY <1>3, <1>4 DEF Missing

\* A replacement: of the paths that go, none is referred to from one that stays.
LEMMA ReplacedApart ==
  ASSUME NEW a, NEW b, WellFormed(a), WellFormed(b), Valid(a), Valid(b),
         NoRefsWithin(Missing(a, b), a)
  PROVE  \A r \in Referrers(a) : r[2] \in b
<1> SUFFICES ASSUME NEW r \in Referrers(a), r[2] \notin b PROVE FALSE
  OBVIOUS
<1>1. r[2] \in a /\ Len(r[2]) = 2
  BY ReferredIsRow DEF Valid
<1>2. PICK p \in Missing(a, b) : Under(p, r[2])
  <2>1. Len(r[2]) < 4
    BY <1>1
  <2> QED BY <1>1, <2>1, MissingAbove
<1>3. \A x \in Missing(a, b) : ~Under(x, r[1])
  BY <1>2, NoRefsFacts
<1>4. ASSUME NEW f \in FieldsIn(a), r[1] = f \/ (\E v : r[1] = Append(f, v))
      PROVE  f \in b
  <2>1. IsPath(f) /\ Len(f) = 3 /\ f \in a
    BY ValueFacts DEF FieldsIn
  <2> SUFFICES ASSUME f \notin b PROVE FALSE
    OBVIOUS
  <2>2. Len(f) < 4
    BY <2>1
  <2>3. PICK x \in Missing(a, b) : x \in a /\ Len(x) < 4 /\ Under(x, f)
    BY <2>1, <2>2, MissingAbove
  <2>4. IsPath(x)
    BY <2>3 DEF WellFormed
  <2>5. ASSUME NEW v, r[1] = Append(f, v) PROVE Under(x, r[1])
    BY <2>1, <2>3, <2>4, <2>5, NotAboveValue
  <2> QED BY <1>3, <1>4, <2>3, <2>5
<1>5. CASE KeyRef(r, a)
  <2>1. r[1] \in a /\ IsPath(r[1]) /\ Len(r[1]) = 2 /\ r \in KeyRefs
    BY <1>5, RefsAssumption DEF KeyRef
  <2>2. Len(r[1]) < 4
    BY <2>1
  <2>3. r[1] \in b
    BY <1>3, <2>1, <2>2, MissingAbove
  <2>4. KeyRef(r, b)
    BY <2>1, <2>3 DEF KeyRef
  <2> QED BY <2>4, ReferrerKinds DEF Valid
<1>6. CASE \E f : ValueRef(r, a, f)
  <2>1. PICK f : ValueRef(r, a, f)
    BY <1>6
  <2>2. f \in FieldsIn(a) /\ r[1] = f /\ ~IsList(f)
    BY <2>1 DEF ValueRef
  <2>3. f \in b /\ f \in FieldsIn(b)
    BY <1>4, <2>2 DEF FieldsIn
  <2>4. Append(f, ValueOf(a, f)) \in b
    <3>1. f \notin Missing(a, b)
      BY <1>3, <2>2, ValueFacts, UnderFacts
    <3> QED BY <2>2, <2>3, <3>1, MissingValue
  <2>5. ValueOf(b, f) = ValueOf(a, f)
    BY <2>2, <2>3, <2>4, SameValue
  <2>6. ValueRef(r, b, f)
    BY <2>1, <2>3, <2>5 DEF ValueRef
  <2> QED BY <2>6, ReferrerKinds DEF Valid
<1>7. CASE \E f, v : ItemRef(r, a, f, v)
  <2>1. PICK f, v : ItemRef(r, a, f, v)
    BY <1>7
  <2> DEFINE l == ValueOf(a, f)
             j == FirstIndex(l, v)
  <2>2. /\ f \in FieldsIn(a) /\ f \in DOMAIN FieldRefs /\ IsList(f) /\ v \in ToSet(l)
        /\ r = <<Append(f, j), <<FieldRefs[f], v>>>>
    BY <2>1 DEF ItemRef
  <2>3. f \in b /\ f \in FieldsIn(b)
    BY <1>4, <2>2 DEF FieldsIn
  <2>4. j \in DOMAIN l /\ l[j] = v
    BY <2>2, ListFacts, FirstIndexFacts
  <2>5. v \in ToSet(ValueOf(b, f))
    <3> SUFFICES ASSUME v \notin ToSet(ValueOf(b, f)) PROVE FALSE
      OBVIOUS
    <3>1. Append(f, j) \in Missing(a, b)
      BY <2>2, <2>3, <2>4, MissingItem
    <3>2. IsPath(Append(f, j))
      BY <2>2, ValuePath, ValueFacts
    <3>3. Under(Append(f, j), Append(f, j))
      <4> HIDE DEF j
      <4> QED BY <3>2, UnderFacts, PathFacts
    <3> QED BY <1>3, <2>2, <3>1, <3>3
  <2> DEFINE x == <<Append(f, FirstIndex(ValueOf(b, f), v)), <<FieldRefs[f], v>>>>
  <2>6. ItemRef(x, b, f, v)
    BY <2>2, <2>3, <2>5 DEF ItemRef
  <2>7. x \in Referrers(b) /\ x[2] = r[2]
    BY <2>2, <2>6, ReferrerKinds
  <2> QED BY <2>7 DEF Valid
<1> QED
  BY <1>5, <1>6, <1>7, ReferrerKinds

----------------------------------------------------------------------------
(* Moves.                                                                  *)

\* A move of an item is about a field.
LEMMA ItemOfField ==
  ASSUME NEW m, NEW d, IsItem(m.path), OfAnItem(m, d)
  PROVE  Front(m.path) \in FieldsIn(d) /\ IsList(Front(m.path))
<1>1. IsPath(m.path) /\ Len(m.path) = 4 /\ Front(m.path) \in d /\ IsList(Front(m.path))
  BY DEF IsItem, OfAnItem
<1>2. m.path # <<>>
  <2>1. m.path = <<>> <=> Len(m.path) = 0
    BY <1>1, PathFacts
  <2> QED BY <1>1, <2>1
<1>3. Len(Front(m.path)) = Len(m.path) - 1
  BY <1>1, <1>2, FrontIsPath
<1> QED
  BY <1>1, <1>3 DEF FieldsIn

\* The sequence a list field gets from a move of one item.
LEMMA ItemMoved ==
  ASSUME NEW m, NEW d, WellFormed(d), IsItem(m.path), OfAnItem(m, d),
         m.op \in {"add", "remove", "replace"}
  PROVE  LET f == Front(m.path)
         IN  \E new : /\ new \in Seq(ToSet(new))
                      /\ ApplyMove(m, d) = (d \ {Append(f, ValueOf(d, f))}) \cup {Append(f, new)}
<1> DEFINE f == Front(m.path)
           l == ValueOf(d, f)
           i == m.path[4]
           new == CASE m.op = "remove"  -> RemoveAt(l, i)
                    [] m.op = "add"     -> InsertAt(l, i, ItemOf(m))
                    [] m.op = "replace" -> ReplaceAt(l, i, ItemOf(m))
<1>1. IsPath(m.path) /\ Len(m.path) = 4 /\ m.path # <<>> /\ f \in d /\ IsList(f)
  BY PathFacts DEF IsItem, OfAnItem
<1>2. Len(f) = 3
  <2>1. Len(f) = Len(m.path) - 1
    BY <1>1, FrontIsPath
  <2> QED BY <1>1, <2>1
<1>3. l \in Seq(ToSet(l))
  BY <1>1, <1>2, ListFacts DEF FieldsIn
<1> DEFINE S == ToSet(l) \cup {ItemOf(m)}
<1>4. l \in Seq(S) /\ Len(l) \in Nat
  BY <1>3
<1>5. i \in 1 .. Len(l) + (IF m.op = "add" THEN 1 ELSE 0)
  BY DEF OfAnItem
<1> HIDE DEF l, i, S
<1>6. ItemOf(m) \in S
  BY DEF S
<1>7. \E T : new \in Seq(T)
  <2>1. CASE m.op = "remove"
    <3>1. SubSeq(l, 1, i - 1) \in Seq(S) /\ SubSeq(l, i + 1, Len(l)) \in Seq(S)
      BY <1>4, <1>5, <2>1
    <3>2. RemoveAt(l, i) \in Seq(S)
      BY <3>1 DEF RemoveAt
    <3> QED BY <2>1, <3>2
  <2>2. CASE m.op = "add"
    <3>1. SubSeq(l, 1, i - 1) \in Seq(S) /\ SubSeq(l, i, Len(l)) \in Seq(S) /\ <<ItemOf(m)>> \in Seq(S)
      BY <1>4, <1>5, <1>6, <2>2
    <3>2. InsertAt(l, i, ItemOf(m)) \in Seq(S)
      BY <3>1 DEF InsertAt
    <3> QED BY <2>2, <3>2
  <2>3. CASE m.op = "replace"
    <3>1. [l EXCEPT ![i] = ItemOf(m)] \in Seq(S)
      BY <1>4, <1>5, <1>6, <2>3
    <3>2. ReplaceAt(l, i, ItemOf(m)) \in Seq(S)
      BY <3>1 DEF ReplaceAt
    <3> QED BY <2>3, <3>2
  <2> QED BY <2>1, <2>2, <2>3
<1>8. ApplyMove(m, d) = (d \ {Append(f, l)}) \cup {Append(f, new)}
  BY DEF ApplyMove, l, i
<1> HIDE DEF new
<1>9. new \in Seq(ToSet(new))
  <2>1. PICK T : new \in Seq(T)
    BY <1>7
  <2> QED BY <2>1 DEF ToSet
<1> QED
  BY <1>8, <1>9 DEF l

\* The same tables, rows and fields.
SameAbove(a, b) == \A q : Len(q) < 4 => (q \in a <=> q \in b)

\* The same value of every field but one.
SameBut(a, b, f) == \A g \in FieldsIn(a) : g # f => ValueOf(b, g) = ValueOf(a, g)

\* A list that changes leaves a document a document, with the same tables, rows,
\* fields and values of other fields.
LEMMA ItemKeepsForm ==
  ASSUME NEW d, WellFormed(d), NEW f \in FieldsIn(d), NEW new, new \in Seq(ToSet(new)), NEW e,
         e = (d \ {Append(f, ValueOf(d, f))}) \cup {Append(f, new)}
  PROVE  /\ WellFormed(e)
         /\ SameAbove(d, e)
         /\ SameBut(d, e, f)
<1> DEFINE old == Append(f, ValueOf(d, f))
           now == Append(f, new)
<1>1. IsPath(f) /\ Len(f) = 3 /\ f \in d /\ old \in d
  BY ValueFacts DEF FieldsIn
<1>2. /\ IsPath(old) /\ Len(old) = 4 /\ Front(old) = f
      /\ IsPath(now) /\ Len(now) = 4 /\ Front(now) = f /\ now[4] = new
  BY <1>1, ValuePath
<1>3. \A q \in d : Len(q) = 4 /\ Front(q) = f => q = old
  BY ValueFacts
<1> HIDE DEF old, now
<1>4. e = (d \ {old}) \cup {now}
  BY DEF old, now
<1>5. \A q : Len(q) < 4 => (q \in d <=> q \in e)
  <2>1. ~(Len(old) < 4) /\ ~(Len(now) < 4)
    BY <1>2
  <2> QED BY <1>4, <2>1, Zenon
<1>6. now # <<>> /\ (Len(now) > 1 => Front(now) \in e)
  <2>1. now # <<>>
    BY <1>2, PathFacts
  <2>2. f \in e
    <3>1. Len(f) < 4
      BY <1>1
    <3> QED BY <1>1, <1>5, <3>1
  <2> QED BY <1>2, <2>1, <2>2
<1>7. ASSUME NEW q \in e PROVE IsPath(q) /\ q # <<>> /\ (Len(q) > 1 => Front(q) \in e)
  <2>1. CASE q = now
    BY <1>2, <1>6, <2>1
  <2>2. CASE q # now
    <3>1. q \in d /\ IsPath(q) /\ q # <<>> /\ (Len(q) > 1 => Front(q) \in d)
      BY <1>4, <2>2 DEF WellFormed
    <3>2. Len(Front(q)) < 4
      BY <3>1, ShorterFront
    <3> QED BY <1>5, <3>1, <3>2
  <2> QED BY <2>1, <2>2
<1>8. ASSUME NEW g \in FieldsIn(e) PROVE \E q \in e : Len(q) = 4 /\ Front(q) = g
  <2>1. CASE g = f
    BY <1>2, <1>4, <2>1
  <2>2. CASE g # f
    <3>1. g \in FieldsIn(d)
      <4>1. Len(g) = 3 /\ g \in e
        BY DEF FieldsIn
      <4>2. Len(g) < 4
        BY <4>1
      <4> QED BY <1>5, <4>1, <4>2 DEF FieldsIn
    <3>2. PICK q \in d : Len(q) = 4 /\ Front(q) = g
      BY <3>1 DEF WellFormed, HasValues
    <3> QED BY <1>2, <1>4, <2>2, <3>2
  <2> QED BY <2>1, <2>2
<1>9. ASSUME NEW q \in e, NEW r \in e, Len(q) = 4, Len(r) = 4, Front(q) = Front(r) PROVE q = r
  BY <1>2, <1>3, <1>4, <1>9 DEF WellFormed, HasValues
<1>10. ASSUME NEW q \in e, Len(q) = 4, IsList(Front(q)) PROVE q[4] \in Seq(ToSet(q[4]))
  BY <1>2, <1>4, <1>10 DEF WellFormed, HasValues
<1>11. WellFormed(e)
  BY <1>7, <1>8, <1>9, <1>10 DEF WellFormed, HasValues
<1>12. ASSUME NEW g \in FieldsIn(d), g # f PROVE ValueOf(e, g) = ValueOf(d, g)
  <2>1. IsPath(g) /\ Len(g) = 3 /\ g \in d /\ Append(g, ValueOf(d, g)) \in d
    BY ValueFacts DEF FieldsIn
  <2>2. Front(Append(g, ValueOf(d, g))) = g
    BY <2>1, ValuePath
  <2>3. Append(g, ValueOf(d, g)) \in e
    BY <1>2, <1>4, <1>12, <2>1, <2>2
  <2>4. g \in FieldsIn(e)
    <3>1. Len(g) < 4
      BY <2>1
    <3> QED BY <1>5, <2>1, <3>1 DEF FieldsIn
  <2> QED BY <1>11, <2>3, <2>4, SameValue
<1> QED
  BY <1>5, <1>11, <1>12 DEF SameAbove, SameBut

\* What a move of a subtree leaves and brings.
LEMMA SubtreeMoved ==
  ASSUME NEW m, NEW d, NEW t, ~IsItem(m.path), OfASubtree(m, d, t)
  PROVE  /\ IsPath(m.path) /\ Len(m.path) < 4
         /\ ApplyMove(m, d) = (d \ Cut(d, m.path)) \cup m.nodes
         /\ \A q \in m.nodes : IsPath(q) /\ q # <<>> /\ Under(m.path, q)
<1>1. IsPath(m.path) /\ Len(m.path) \in 0 .. 4 /\ Len(m.path) # 4
  BY PathFacts DEF OfASubtree, IsItem
<1>2. Len(m.path) < 4
  <2> DEFINE n == Len(m.path)
  <2>1. n \in 0 .. 4 /\ n # 4
    BY <1>1
  <2> HIDE DEF n
  <2>2. n < 4
    BY <2>1
  <2> QED BY <2>2 DEF n
<1>3. ApplyMove(m, d) = (d \ Cut(d, m.path)) \cup m.nodes
  BY Zenon DEF ApplyMove
<1> QED
  BY <1>1, <1>2, <1>3 DEF OfASubtree, Subtree

\* A change of a subtree leaves a document a document.
LEMMA SubtreeKeepsForm ==
  ASSUME NEW m, NEW d, NEW t, WellFormed(d), ~IsItem(m.path), OfASubtree(m, d, t),
         m.op \in {"add", "remove", "replace"}
  PROVE  WellFormed(ApplyMove(m, d))
<1> DEFINE p == m.path
           nodes == m.nodes
           e == ApplyMove(m, d)
<1>1. /\ IsPath(p) /\ Len(p) < 4
      /\ e = (d \ Cut(d, p)) \cup nodes
      /\ \A q \in nodes : IsPath(q) /\ q # <<>> /\ Under(p, q)
  BY SubtreeMoved
<1>2. /\ \A q \in nodes : Len(q) > 1 /\ q # p => Front(q) \in nodes
      /\ HasValues(nodes)
  BY DEF OfASubtree, Subtree
<1>3. nodes # {} /\ p # <<>> /\ Len(p) > 1 => Front(p) \in d
  <2>1. CASE m.op = "add"
    BY <2>1 DEF OfASubtree
  <2>2. CASE m.op = "replace"
    BY <2>2 DEF OfASubtree, WellFormed
  <2>3. CASE m.op = "remove"
    BY <2>3 DEF OfASubtree
  <2> QED BY <2>1, <2>2, <2>3
<1> HIDE DEF p, nodes, e
<1>4. \A q : q \in e <=> (q \in d /\ ~Under(p, q)) \/ q \in nodes
  BY <1>1 DEF Cut
<1>5. \A q \in d : IsPath(q) /\ q # <<>> /\ (Len(q) > 1 => Front(q) \in d)
  BY DEF WellFormed
<1>6. ASSUME NEW q \in e PROVE IsPath(q) /\ q # <<>>
  BY <1>1, <1>4, <1>5
<1>7. ASSUME NEW q \in e, Len(q) > 1 PROVE Front(q) \in e
  <2>1. IsPath(Front(q)) /\ Under(Front(q), q) /\ Len(Front(q)) = Len(q) - 1
    BY <1>6, FrontIsPath
  <2>2. CASE q \in nodes /\ q # p
    BY <1>2, <1>4, <1>7, <2>2
  <2>3. CASE q \in nodes /\ q = p
    <3>1. Front(p) \in d
      BY <1>3, <1>6, <1>7, <2>3
    <3>2. ~Under(p, Front(p))
      <4>1. Len(p) \in 1 .. 4
        BY <1>1, <1>6, <2>3, FrontIsPath
      <4>2. ~(Len(p) <= Len(Front(p)))
        BY <2>1, <2>3, <4>1
      <4> QED BY <1>1, <2>1, <2>3, <4>2, UnderOrder
    <3> QED BY <1>4, <2>3, <3>1, <3>2
  <2>4. CASE q \in d /\ ~Under(p, q)
    <3>1. Front(q) \in d
      BY <1>5, <1>7, <2>4
    <3>2. ~Under(p, Front(q))
      BY <1>1, <1>6, <2>1, <2>4, UnderOrder
    <3> QED BY <1>4, <3>1, <3>2
  <2> QED BY <1>4, <2>2, <2>3, <2>4
<1>8. ASSUME NEW q, IsPath(q), Len(q) = 4
      PROVE  /\ IsPath(Front(q)) /\ Len(Front(q)) = 3
             /\ Under(p, q) <=> Under(p, Front(q))
  <2>1. q # <<>> /\ Len(p) < Len(q)
    <3>1. q = <<>> <=> Len(q) = 0
      BY <1>8, PathFacts
    <3> QED BY <1>1, <1>8, <3>1
  <2>2. IsPath(Front(q)) /\ Under(Front(q), q) /\ Len(Front(q)) = Len(q) - 1
    BY <1>8, <2>1, FrontIsPath
  <2>3. Len(Front(q)) = 3
    BY <1>8, <2>2
  <2>4. Under(p, q) => Under(p, Front(q))
    BY <1>1, <1>8, <2>1, UnderOrder
  <2>5. Under(p, Front(q)) => Under(p, q)
    BY <1>1, <1>8, <2>2, UnderOrder
  <2> QED BY <2>2, <2>3, <2>4, <2>5
<1>9. ASSUME NEW f \in FieldsIn(e) PROVE \E q \in e : Len(q) = 4 /\ Front(q) = f
  <2>1. Len(f) = 3 /\ f \in e
    BY DEF FieldsIn
  <2>2. CASE f \in nodes
    <3>1. PICK q \in nodes : Len(q) = 4 /\ Front(q) = f
      BY <1>2, <2>1, <2>2 DEF HasValues, FieldsIn
    <3> QED BY <1>4, <3>1
  <2>3. CASE f \in d /\ ~Under(p, f)
    <3>1. PICK q \in d : Len(q) = 4 /\ Front(q) = f
      BY <2>1, <2>3 DEF WellFormed, HasValues, FieldsIn
    <3>2. ~Under(p, q)
      BY <1>5, <1>8, <2>3, <3>1
    <3> QED BY <1>4, <3>1, <3>2
  <2> QED BY <1>4, <2>1, <2>2, <2>3
<1>10. ASSUME NEW q \in e, NEW r \in e, Len(q) = 4, Len(r) = 4, Front(q) = Front(r) PROVE q = r
  <2>1. Under(p, q) <=> Under(p, r)
    BY <1>6, <1>8, <1>10
  <2>2. q \in nodes <=> Under(p, q)
    BY <1>1, <1>4
  <2>3. r \in nodes <=> Under(p, r)
    BY <1>1, <1>4
  <2>4. CASE q \in nodes /\ r \in nodes
    BY <1>2, <1>10, <2>4 DEF HasValues
  <2>5. CASE q \in d /\ r \in d
    BY <1>10, <2>5 DEF WellFormed, HasValues
  <2> QED BY <1>4, <2>1, <2>2, <2>3, <2>4, <2>5
<1>11. ASSUME NEW q \in e, Len(q) = 4, IsList(Front(q)) PROVE q[4] \in Seq(ToSet(q[4]))
  BY <1>2, <1>4, <1>11 DEF WellFormed, HasValues
<1>12. WellFormed(e)
  BY <1>6, <1>7, <1>9, <1>10, <1>11 DEF WellFormed, HasValues
<1> QED
  BY <1>12 DEF e

\* Every move a generator may make leaves a document a document.
LEMMA MovesKeepForm ==
  ASSUME NEW m, NEW d, NEW t, WellFormed(d), Sensible(m, d, t)
  PROVE  WellFormed(ApplyMove(m, d))
<1>1. CASE IsItem(m.path)
  <2> DEFINE f == Front(m.path)
  <2>1. OfAnItem(m, d) /\ m.op \in {"add", "remove", "replace"}
    BY <1>1 DEF Sensible
  <2>2. f \in FieldsIn(d)
    BY <1>1, <2>1, ItemOfField
  <2>3. PICK new : new \in Seq(ToSet(new))
                   /\ ApplyMove(m, d) = (d \ {Append(f, ValueOf(d, f))}) \cup {Append(f, new)}
    BY <1>1, <2>1, ItemMoved
  <2> HIDE DEF f
  <2> QED BY <2>2, <2>3, ItemKeepsForm
<1>2. CASE ~IsItem(m.path)
  BY <1>2, SubtreeKeepsForm DEF Sensible
<1> QED
  BY <1>1, <1>2

\* A valid move takes nothing away from what stays and refers to it, and brings
\* nothing along with what refers to it.
LEMMA MoveKeepsApart ==
  ASSUME NEW m, NEW d, NEW t, NEW o, WellFormed(d), Valid(d), Sensible(m, d, t), ValidMove(m, d, t, o)
  PROVE  LET e == ApplyMove(m, d)
         IN  /\ \A r \in Referrers(d) : r[2] \in e
             /\ \A r \in Referrers(e) : r[2] \in d
<1> DEFINE e == ApplyMove(m, d)
<1>1. WellFormed(e)
  BY MovesKeepForm
<1>2. Valid(e) /\ NoDependency(m, d, e)
  BY DEF ValidMove, FullConfig
<1>3. (\A r \in Referrers(d) : r[2] \in d) /\ (\A r \in Referrers(e) : r[2] \in e)
  BY <1>2 DEF Valid
<1>4. CASE IsItem(m.path)
  <2> DEFINE f == Front(m.path)
  <2>1. OfAnItem(m, d) /\ m.op \in {"add", "remove", "replace"} /\ f \in FieldsIn(d)
    BY <1>4, ItemOfField DEF Sensible
  <2>2. PICK new : new \in Seq(ToSet(new))
                   /\ e = (d \ {Append(f, ValueOf(d, f))}) \cup {Append(f, new)}
    BY <1>4, <2>1, ItemMoved
  <2> HIDE DEF e, f
  <2>3. SameAbove(d, e)
    BY <2>1, <2>2, ItemKeepsForm
  <2>4. \A x : \A r \in Referrers(x) : Len(r[2]) < 4
    <3> SUFFICES ASSUME NEW x, NEW r \in Referrers(x) PROVE Len(r[2]) < 4
      OBVIOUS
    <3>1. Len(r[2]) = 2
      BY ReferredIsRow
    <3> QED BY <3>1
  <2> QED BY <1>3, <2>3, <2>4 DEF e, SameAbove
<1>5. CASE ~IsItem(m.path)
  <2> DEFINE p == m.path
  <2>1. OfASubtree(m, d, t) /\ m.op \in {"add", "remove", "replace"}
    BY <1>5 DEF Sensible
  <2>2. /\ IsPath(p) /\ Len(p) < 4 /\ e = (d \ Cut(d, p)) \cup m.nodes
        /\ \A q \in m.nodes : Under(p, q)
    BY <1>5, <2>1, SubtreeMoved
  <2> HIDE DEF e
  <2>3. CASE m.op = "remove"
    <3>1. e = d \ Cut(d, p)
      BY <2>1, <2>2, <2>3 DEF OfASubtree
    <3>2. NoRefsWithin({p}, d)
      BY <1>2, <2>3 DEF NoDependency
    <3>3. \A r \in Referrers(d) : r[2] \in e
      BY <1>1, <1>2, <2>2, <3>1, <3>2, RemovedApart
    <3> QED BY <1>3, <3>1, <3>3 DEF e
  <2>4. CASE m.op = "add"
    <3>1. p # <<>> /\ p \notin d
      BY <2>1, <2>4 DEF OfASubtree
    <3>2. \A q \in d : ~Under(p, q)
      BY <2>2, <3>1, AboveIsIn
    <3>3. d = e \ Cut(e, p) /\ d \subseteq e
      BY <2>2, <3>2 DEF Cut
    <3>4. NoRefsWithin({p}, e)
      BY <1>2, <2>4 DEF NoDependency
    <3> HIDE DEF p
    <3>5. \A r \in Referrers(e) : r[2] \in d
      BY <1>1, <1>2, <2>2, <3>3, <3>4, RemovedApart
    <3> QED BY <1>3, <3>3, <3>5 DEF e
  <2>5. CASE m.op = "replace"
    <3>1. NoRefsWithin(Missing(d, e), d) /\ NoRefsWithin(Missing(e, d), e)
      BY <1>2, <2>5 DEF NoDependency
    <3>2. \A r \in Referrers(d) : r[2] \in e
      BY <1>1, <1>2, <3>1, ReplacedApart
    <3>3. \A r \in Referrers(e) : r[2] \in d
      BY <1>1, <1>2, <3>1, ReplacedApart
    <3> QED BY <3>2, <3>3 DEF e
  <2> QED BY <2>1, <2>3, <2>4, <2>5
<1> QED
  BY <1>4, <1>5

----------------------------------------------------------------------------
(* Ports.                                                                  *)

\* The admin status field of a port of a critical row.
LEMMA StatusField ==
  ASSUME NEW c \in Critical
  PROVE  /\ IsPath(c[1]) /\ Len(c[1]) = 2 /\ IsPath(c[2]) /\ Len(c[2]) = 2
         /\ IsPath(AdminField(c[2])) /\ Len(AdminField(c[2])) = 3
         /\ Front(AdminField(c[2])) = c[2] /\ ~IsList(AdminField(c[2]))
<1>1. IsPath(c[1]) /\ Len(c[1]) = 2 /\ IsPath(c[2]) /\ Len(c[2]) = 2 /\ ~IsList(AdminField(c[2]))
  BY RefsAssumption DEF IsList
<1>2. \A v, p : IsPath(p) /\ Len(p) = 2 => /\ IsPath(Append(p, v)) /\ Len(Append(p, v)) = 3
                                           /\ Front(Append(p, v)) = p
  BY FieldPath
<1> QED
  BY <1>1, <1>2 DEF AdminField

\* No part of a critical row is the admin status of a port.
LEMMA RowIsNotStatus ==
  ASSUME NEW c \in Critical, NEW q, IsPath(q), Under(c[1], q)
  PROVE  ~IsStatus(q)
<1> SUFFICES ASSUME NEW e \in Critical, Under(AdminField(e[2]), q) PROVE FALSE
  BY DEF IsStatus
<1> DEFINE f == AdminField(e[2])
<1>1. IsPath(f) /\ Len(f) = 3 /\ Front(f) = e[2] /\ IsPath(c[1]) /\ Len(c[1]) = 2 /\ IsPath(e[2]) /\ Len(e[2]) = 2
  BY StatusField
<1> HIDE DEF f
<1>2. Len(c[1]) <= Len(f) /\ Len(c[1]) < Len(f)
  BY <1>1
<1>3. Under(f, q)
  BY DEF f
<1>4. Under(c[1], f)
  BY <1>1, <1>2, <1>3, UnderOrder
<1>5. Under(c[1], e[2])
  BY <1>1, <1>2, <1>4, UnderOrder
<1>6. c[1] = e[2]
  BY <1>1, <1>5, UnderOrder
<1> QED
  BY <1>6, RefsAssumption

\* The admin status says the same where the port, the field and its value are.
LEMMA SameStatus ==
  ASSUME NEW a, NEW b, WellFormed(a), WellFormed(b), NEW c \in Critical,
         a \subseteq b, Wrong(c, a)
  PROVE  Wrong(c, b) /\ AdminStatus(a, c[2]) = AdminStatus(b, c[2])
<1> DEFINE f == AdminField(c[2])
<1>1. c[2] \in a /\ f \in a
  BY DEF Wrong, AdminStatus
<1>2. f \in FieldsIn(a) /\ f \in FieldsIn(b)
  BY <1>1, StatusField DEF FieldsIn
<1>3. Append(f, ValueOf(a, f)) \in b
  BY <1>2, ValueFacts
<1>4. ValueOf(a, f) = ValueOf(b, f)
  BY <1>2, <1>3, SameValue
<1>5. AdminStatus(a, c[2]) = ValueOf(a, f) /\ AdminStatus(b, c[2]) = ValueOf(b, f)
  BY <1>1 DEF AdminStatus
<1> QED
  BY <1>4, <1>5 DEF Wrong

\* A change of an item leaves the admin status of every port.
LEMMA ItemKeepsStatus ==
  ASSUME NEW m, NEW d, WellFormed(d), IsItem(m.path), OfAnItem(m, d),
         m.op \in {"add", "remove", "replace"}, NEW c \in Critical
  PROVE  AdminStatus(ApplyMove(m, d), c[2]) = AdminStatus(d, c[2])
<1> DEFINE e == ApplyMove(m, d)
           f == Front(m.path)
           a == AdminField(c[2])
           port == c[2]
<1>1. f \in FieldsIn(d) /\ IsList(f)
  BY ItemOfField
<1>2. PICK new : new \in Seq(ToSet(new))
                 /\ e = (d \ {Append(f, ValueOf(d, f))}) \cup {Append(f, new)}
  BY ItemMoved
<1> HIDE DEF e, f, a, port
<1>3. SameAbove(d, e) /\ SameBut(d, e, f)
  BY <1>1, <1>2, ItemKeepsForm
<1>4. Len(a) = 3 /\ ~IsList(a) /\ Len(port) = 2
  BY StatusField DEF a, port
<1>5. a # f
  BY <1>1, <1>4
<1>6. Len(a) < 4 /\ Len(port) < 4
  BY <1>4
<1>7. (a \in d <=> a \in e) /\ (port \in d <=> port \in e)
  BY <1>3, <1>6 DEF SameAbove
<1>8. a \in d => ValueOf(e, a) = ValueOf(d, a)
  BY <1>3, <1>4, <1>5 DEF FieldsIn, SameBut
<1>9. AdminStatus(e, port) = AdminStatus(d, port)
  BY <1>7, <1>8, Zenon DEF AdminStatus, a, port
<1> QED
  BY <1>9 DEF e, port

\* A subtree brings what the target has, and so leaves a critical row that is as
\* in the target.
LEMMA FinishedRowStays ==
  ASSUME NEW m, NEW d, NEW t, WellFormed(d), WellFormed(t), ~IsItem(m.path), OfASubtree(m, d, t),
         m.op \in {"add", "replace"}, NEW c \in Critical, Cut(d, c[1]) = Cut(t, c[1])
  PROVE  Cut(ApplyMove(m, d), c[1]) = Cut(d, c[1])
<1> DEFINE e == ApplyMove(m, d)
           p == m.path
           row == c[1]
<1>1. /\ IsPath(p) /\ Len(p) < 4 /\ e = (d \ Cut(d, p)) \cup m.nodes
      /\ \A q \in m.nodes : IsPath(q) /\ q # <<>> /\ Under(p, q)
  BY SubtreeMoved
<1>2. IsPath(row) /\ Len(row) = 2
  BY StatusField
<1>3. \A q : q \in d /\ Under(row, q) <=> q \in t /\ Under(row, q)
  BY DEF Cut
<1> HIDE DEF e, row
<1>4. ASSUME NEW q, IsPath(q), Under(row, q) PROVE ~IsStatus(q)
  BY <1>4, RowIsNotStatus DEF row
<1>5. ASSUME NEW q \in m.nodes, Under(row, q) PROVE q \in d
  <2>1. IsPath(q) /\ q # <<>> /\ Under(p, q)
    BY <1>1
  <2>2. CASE q \in t
    BY <1>3, <1>5, <2>2
  <2>3. CASE m.op = "add" /\ Len(q) = 4 /\ Front(q) \in t
    <3>1. Len(row) < Len(q) /\ Len(p) < Len(q)
      BY <1>1, <1>2, <2>3
    <3>2. Under(row, Front(q)) /\ Under(p, Front(q))
      BY <1>1, <1>2, <1>5, <2>1, <3>1, UnderOrder
    <3>3. Front(q) \in d
      BY <1>3, <2>3, <3>2
    <3>4. p # <<>> /\ p \notin d
      BY <2>3 DEF OfASubtree
    <3>5. p \in d
      BY <1>1, <3>2, <3>3, <3>4, AboveIsIn
    <3> QED BY <3>4, <3>5
  <2> QED BY <1>4, <1>5, <2>1, <2>2, <2>3 DEF OfASubtree
<1>6. ASSUME NEW q \in d, Under(row, q), Under(p, q) PROVE q \in m.nodes
  <2>1. CASE m.op = "add"
    <3>1. p # <<>> /\ p \notin d
      BY <2>1 DEF OfASubtree
    <3>2. p \in d
      BY <1>1, <1>6, <3>1, AboveIsIn
    <3> QED BY <3>1, <3>2
  <2>2. CASE m.op = "replace"
    <3>1. q \in t
      BY <1>3, <1>6
    <3>2. ~IsStatus(q)
      BY <1>4, <1>6 DEF WellFormed
    <3> QED BY <1>6, <2>2, <3>1, <3>2 DEF OfASubtree
  <2> QED BY <2>1, <2>2
<1>7. Cut(e, row) = Cut(d, row)
  BY <1>1, <1>5, <1>6 DEF Cut
<1> QED
  BY <1>7 DEF e, row

\* A port-critical row changes only while its port is down, before and after.
LEMMA MoveKeepsPortsDown ==
  ASSUME NEW m, NEW d, NEW t, NEW o, WellFormed(d), WellFormed(t), Valid(d), Sensible(m, d, t),
         ValidMove(m, d, t, o), NEW c \in Critical, Cut(d, c[1]) # Cut(ApplyMove(m, d), c[1])
  PROVE  ~Wrong(c, d) /\ ~Wrong(c, ApplyMove(m, d))
<1> DEFINE e == ApplyMove(m, d)
<1>1. WellFormed(e)
  BY MovesKeepForm
<1>2. Valid(e) /\ RequiredValue(d, e, t)
  BY DEF ValidMove, FullConfig
<1>3. IsPath(c[1]) /\ c[1] # <<>>
  <2>1. IsPath(c[1]) /\ Len(c[1]) = 2
    BY StatusField
  <2>2. c[1] = <<>> <=> Len(c[1]) = 0
    BY <2>1, PathFacts
  <2> QED BY <2>1, <2>2
<1> HIDE DEF e
<1>4. \A x : WellFormed(x) /\ Cut(x, c[1]) # {} => c[1] \in x
  BY <1>3, AboveIsIn DEF Cut
<1>5. c[1] \in d \/ c[1] \in e
  <2>1. Cut(d, c[1]) # {} \/ Cut(e, c[1]) # {}
    BY DEF e
  <2> QED BY <1>1, <1>4, <2>1
<1>6. \A x : Valid(x) /\ c[1] \in x => c[2] \in x
  <2> SUFFICES ASSUME NEW x, Valid(x), c[1] \in x PROVE c[2] \in x
    OBVIOUS
  <2>1. KeyRef(c, x)
    BY RefsAssumption DEF KeyRef
  <2>2. c \in Referrers(x)
    BY <2>1, ReferrerKinds
  <2> QED BY <2>2 DEF Valid
<1>7. c \in Required({d, e, t})
  BY <1>2, <1>5, <1>6 DEF Required
<1>8. ~Wrong(c, d)
  BY <1>2, <1>7 DEF RequiredValue, Premature, e
<1>9. ASSUME Wrong(c, e) PROVE FALSE
  <2>1. AdminStatus(d, c[2]) # AdminStatus(e, c[2])
    BY <1>8, <1>9 DEF Wrong
  <2>2. Cut(d, c[1]) = Cut(t, c[1])
    BY <1>2, <1>7, <1>9, <2>1 DEF RequiredValue, Unfinished
  <2>3. CASE IsItem(m.path)
    BY <2>1, <2>3, ItemKeepsStatus DEF Sensible, e
  <2>4. CASE ~IsItem(m.path) /\ m.op = "remove"
    <3>1. OfASubtree(m, d, t)
      BY <2>4 DEF Sensible
    <3>2. e = (d \ Cut(d, m.path)) \cup m.nodes /\ m.nodes = {}
      BY <2>4, <3>1, SubtreeMoved DEF OfASubtree, e
    <3>3. e \subseteq d
      BY <3>2
    <3> QED BY <1>1, <1>8, <1>9, <3>3, SameStatus
  <2>5. CASE ~IsItem(m.path) /\ m.op \in {"add", "replace"}
    BY <2>2, <2>5, FinishedRowStays DEF Sensible
  <2> QED BY <2>3, <2>4, <2>5 DEF Sensible
<1> QED
  BY <1>8, <1>9 DEF e

----------------------------------------------------------------------------
(* Plans.                                                                  *)

\* A search is about a request that was accepted.
AcceptedInv == req \in Requests /\ (phase \notin {"asked", "refused"} => Accepted(req))

\* Nothing but Begin starts a search.
LEMMA OnlyAcceptedAreSearched == Spec => []AcceptedInv
<1>1. Init => AcceptedInv
  BY DEF Init, AcceptedInv
<1>2. AcceptedInv /\ [Next]_vars => AcceptedInv'
  <2> SUFFICES ASSUME AcceptedInv, [Next]_vars PROVE AcceptedInv'
    OBVIOUS
  <2>1. req' = req
    BY DEF Next, vars, Refuse, Begin, Arrive, Recall, TurnBack, Visit, Descend, Exhaust, PassOn,
           Improve, Ignore, Answer, Skip, Finish, Expand, Drained
  <2>2. CASE Refuse \/ Begin
    <3>1. phase' = "refused" \/ Accepted(req)
      BY <2>2 DEF Refuse, Begin
    <3> QED BY <2>1, <3>1 DEF AcceptedInv, Accepted
  <2>3. CASE ~(Refuse \/ Begin)
    <3>1. phase' = phase \/ phase \notin {"asked", "refused"}
      BY <2>3 DEF Next, vars, Arrive, Recall, TurnBack, Visit, Descend, Exhaust, PassOn,
             Improve, Ignore, Answer, Skip, Finish, Expand, Drained
    <3> QED BY <2>1, <3>1 DEF AcceptedInv, Accepted
  <2> QED BY <2>2, <2>3
<1> QED
  BY <1>1, <1>2, PTL DEF Spec

\* Along a plan that leads to the target of an accepted request, every
\* configuration is a document whose references hold, and every move sensible.
LEMMA PlansStayWellFormed ==
  ASSUME \A d : GeneratesSensibly(d), NEW r \in Requests, Accepted(r), NEW plan,
         Leads(r, Start(r), plan)
  PROVE  \A i \in 1 .. Len(plan) :
            LET d == Along(Start(r), plan)[i - 1]
            IN  /\ WellFormed(d) /\ Valid(d) /\ Sensible(plan[i], d, Target(r))
                /\ ValidMove(plan[i], d, Target(r), r.order)
                /\ Along(Start(r), plan)[i] = ApplyMove(plan[i], d)
<1> DEFINE docs == Along(Start(r), plan)
           Sound(d) == WellFormed(d) /\ Valid(d)
           S == {n \in Nat : n <= Len(plan) => Sound(docs[n])}
<1>1. Len(plan) \in Nat
  BY SeqFacts DEF Leads
<1>2. docs = [i \in 0 .. Len(plan) |-> IF i = 0 THEN Start(r) ELSE ApplyMove(plan[i], docs[i - 1])]
  BY <1>1, AlongFacts
<1>3. \A i \in 1 .. Len(plan) : OK(r, plan[i], docs[i - 1])
  BY DEF Leads
<1> HIDE DEF docs
<1>4. docs[0] = Start(r) /\ \A i \in 1 .. Len(plan) : docs[i] = ApplyMove(plan[i], docs[i - 1])
  BY <1>1, <1>2
<1>5. ASSUME NEW i \in 1 .. Len(plan), Sound(docs[i - 1])
      PROVE  /\ Sensible(plan[i], docs[i - 1], Target(r)) /\ Sound(docs[i])
             /\ ValidMove(plan[i], docs[i - 1], Target(r), r.order)
  <2> DEFINE d == docs[i - 1]
  <2>1. ValidMove(plan[i], d, Target(r), r.order) /\ Tried(r, plan[i], d)
    BY <1>3 DEF OK
  <2>2. Sound(d) /\ docs[i] = ApplyMove(plan[i], d)
    BY <1>4, <1>5
  <2> HIDE DEF d
  <2>3. Sensible(plan[i], d, Target(r))
    BY <2>1, <2>2 DEF GeneratesSensibly, Tried
  <2>4. WellFormed(docs[i])
    BY <2>2, <2>3, MovesKeepForm
  <2>5. Valid(docs[i])
    BY <2>1, <2>2 DEF ValidMove, FullConfig
  <2> QED BY <2>1, <2>3, <2>4, <2>5 DEF d
<1>6. 0 \in S
  BY <1>1, <1>4, RequestsAssumption
<1>7. ASSUME NEW n \in Nat, n \in S PROVE n + 1 \in S
  <2> SUFFICES ASSUME n + 1 <= Len(plan) PROVE Sound(docs[n + 1])
    OBVIOUS
  <2>1. n + 1 \in 1 .. Len(plan) /\ (n + 1) - 1 = n /\ n <= Len(plan)
    BY <1>1
  <2>2. Sound(docs[(n + 1) - 1])
    BY <1>7, <2>1
  <2> HIDE DEF Sound
  <2> QED BY <1>5, <2>1, <2>2
<1>8. Nat \subseteq S
  <2> HIDE DEF S
  <2> QED BY <1>6, <1>7, SetInduction
<1>9. ASSUME NEW i \in 1 .. Len(plan) PROVE Sound(docs[i - 1])
  <2>1. i - 1 \in Nat /\ i - 1 <= Len(plan)
    BY <1>1
  <2> QED BY <1>8, <2>1
<1> QED
  BY <1>4, <1>5, <1>9 DEF docs

\* With sensible generators, no plan that is answered changes a port-critical
\* row while its port is up, nor a row together with what refers to it.
THEOREM AnswersMoveSafely ==
  ASSUME \A d, t, o : IsSeq(Generate(d, t, o)), \A d : GeneratesSensibly(d)
  PROVE  Spec => []MovesAreSafe
<1>1. PlanInv /\ AcceptedInv => MovesAreSafe
  <2> SUFFICES ASSUME PlanInv, AcceptedInv, Sorted, NEW s \in Steps
               PROVE  /\ \A c \in Critical : Cut(s[1], c[1]) # Cut(s[2], c[1])
                            => ~Wrong(c, s[1]) /\ ~Wrong(c, s[2])
                      /\ \A r \in Referrers(s[1]) : r[2] \in s[2]
                      /\ \A r \in Referrers(s[2]) : r[2] \in s[1]
    BY DEF MovesAreSafe, PortsAreDown, DependentsApart
  <2>1. Leads(req, Start(req), result)
    BY DEF PlanInv, PhaseInv, Sorted
  <2>2. req \in Requests /\ Accepted(req)
    BY DEF AcceptedInv, Sorted
  <2>3. PICK i \in 1 .. Len(result) :
               s = <<Along(Start(req), result)[i - 1], Along(Start(req), result)[i]>>
    BY DEF Steps
  <2> DEFINE m == result[i]
             d == Along(Start(req), result)[i - 1]
  <2>4. /\ WellFormed(d) /\ Valid(d) /\ Sensible(m, d, Target(req))
        /\ ValidMove(m, d, Target(req), req.order)
        /\ Along(Start(req), result)[i] = ApplyMove(m, d)
    BY <2>1, <2>2, PlansStayWellFormed
  <2>5. WellFormed(Target(req))
    BY <2>2, RequestsAssumption
  <2>6. s[1] = d /\ s[2] = ApplyMove(m, d)
    BY <2>3, <2>4
  <2> HIDE DEF m, d
  <2>7. /\ \A r \in Referrers(d) : r[2] \in ApplyMove(m, d)
        /\ \A r \in Referrers(ApplyMove(m, d)) : r[2] \in d
    BY <2>4, MoveKeepsApart
  <2>8. \A c \in Critical : Cut(d, c[1]) # Cut(ApplyMove(m, d), c[1])
          => ~Wrong(c, d) /\ ~Wrong(c, ApplyMove(m, d))
    BY <2>4, <2>5, MoveKeepsPortsDown
  <2> QED BY <2>6, <2>7, <2>8
<1> QED
  BY <1>1, PlansLead, OnlyAcceptedAreSearched, PTL
=============================================================================
