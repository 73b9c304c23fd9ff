---------------------- MODULE ShaderTranslation_proofs ----------------------
(***************************************************************************)
(* Proofs about the translation of shaders: what holds for every set of    *)
(* shaders, made of any dwords and cut off anywhere, for tables and a      *)
(* buffer of any size.                                                     *)
(*                                                                         *)
(* Operands are read wherever the parser thinks they are, so a dword of    *)
(* any kind is given a type as an opcode and as a register.  The buffer is *)
(* put together by FlattenSeq, a recursive function; what it is of a       *)
(* longer sequence is shown by an induction over numbers, SetInduction,    *)
(* that needs a set and no operator.                                       *)
(*                                                                         *)
(* The inductive invariant, TInv, says of the parser that its program has  *)
(* its type, and of the buffer that everything so far is in it unless the  *)
(* error is set.                                                           *)
(*                                                                         *)
(* Faithful is proved of shaders of which the units are as the parser      *)
(* takes them: before each dword it reads it has taken whole units, and    *)
(* its program is what is written in those.                                *)
(*                                                                         *)
(* UsedIsDeclared comes last.  What the parser counts covers the registers *)
(* of each instruction it keeps, AllCounted; the declarations have what is *)
(* counted and what the program declares, VsHave and PsHave; and a         *)
(* statement names registers of its instruction only, LinesNames.          *)
(***************************************************************************)
EXTENDS ShaderTranslation, SequenceTheorems, FiniteSetTheorems,
        WellFoundedInduction, TLAPS

-----------------------------------------------------------------------------
\* Induction, and sequences put together.

\* The order of the numbers, as a set of pairs.
Below == {p \in Nat \X Nat : p[1] < p[2]}

\* There is no infinite way down from a number.
LEMMA BelowWellFounded == IsWellFoundedOn(Below, Nat)
<1>1. OpToRel(<, Nat) = Below
  BY Zenon DEF OpToRel, Below
<1> QED BY <1>1, NatLessThanWellFounded, Zenon

\* Every set of numbers has a least one.
LEMMA NatLeast ==
    ASSUME NEW T \in SUBSET Nat, T # {}
    PROVE  \E n \in T : \A m \in T : n <= m
<1>1. \E n \in T : \A m \in T : ~(<<m, n>> \in Below)
  BY BelowWellFounded, WFMin
<1>2. \A m, n \in Nat : m < n => <<m, n>> \in Below
  BY DEF Below
<1>3. PICK n \in T : \A m \in T : ~(<<m, n>> \in Below)
  BY <1>1
<1>4. ASSUME NEW m \in T PROVE n <= m
  <2>1. m \in Nat /\ n \in Nat /\ ~(m < n)
    BY <1>2, <1>3
  <2> QED BY <2>1
<1> QED BY <1>3, <1>4

\* A set with 0 and with the successors of its numbers has all numbers.
LEMMA SetInduction ==
    ASSUME NEW S, 0 \in S, \A n \in Nat : n \in S => n + 1 \in S
    PROVE  Nat \subseteq S
<1> DEFINE T == Nat \ S
<1> SUFFICES ASSUME T # {} PROVE FALSE
  OBVIOUS
<1>1. PICK n \in T : \A m \in T : n <= m
  BY NatLeast
<1>2. n # 0 /\ n - 1 \in Nat
  BY <1>1
<1>3. n - 1 \in S
  BY <1>1, <1>2
<1> QED BY <1>1, <1>2, <1>3

-----------------------------------------------------------------------------
\* f collects the elements of ss one after the other.
Collects(f, ss) ==
  f = [i \in 1..Len(ss) |-> IF i = 1 THEN ss[i] ELSE f[i - 1] \o ss[i]]

\* There is only one way to do that.
LEMMA CollectsUnique ==
    ASSUME NEW ss, Len(ss) \in Nat, NEW f, Collects(f, ss), NEW g, Collects(g, ss)
    PROVE  \A i \in 1..Len(ss) : f[i] = g[i]
<1> DEFINE S == {n \in Nat : n \in 1..Len(ss) => f[n] = g[n]}
<1>1. 0 \in S
  OBVIOUS
<1>2. ASSUME NEW n \in Nat, n \in S PROVE n + 1 \in S
  <2> SUFFICES ASSUME n + 1 \in 1..Len(ss) PROVE f[n + 1] = g[n + 1]
    OBVIOUS
  <2>0. /\ f[n + 1] = IF n + 1 = 1 THEN ss[n + 1] ELSE f[(n + 1) - 1] \o ss[n + 1]
        /\ g[n + 1] = IF n + 1 = 1 THEN ss[n + 1] ELSE g[(n + 1) - 1] \o ss[n + 1]
    BY Zenon DEF Collects
  <2>1. CASE n = 0
    BY <2>0, <2>1
  <2>2. CASE n # 0
    <3>1. f[n] = g[n] /\ n + 1 # 1 /\ (n + 1) - 1 = n
      BY <1>2, <2>2
    <3> QED BY <2>0, <3>1, Zenon
  <2> QED BY <2>1, <2>2
<1>3. Nat \subseteq S
  <2> HIDE DEF S
  <2> QED BY <1>1, <1>2, SetInduction
<1> QED BY <1>3

\* What it comes to is the sequences put together.
LEMMA FlattenIs ==
    ASSUME NEW ss, Len(ss) \in Nat, Len(ss) # 0, NEW f, Collects(f, ss)
    PROVE  FlattenSeq(ss) = f[Len(ss)]
<1> DEFINE flatten == CHOOSE g : g = [i \in 1..Len(ss) |->
                        IF i = 1 THEN ss[i] ELSE g[i-1] \o ss[i]]
<1>1. FlattenSeq(ss) = flatten[Len(ss)]
  BY DEF FlattenSeq
<1>2. \E g : g = [i \in 1..Len(ss) |-> IF i = 1 THEN ss[i] ELSE g[i-1] \o ss[i]]
  BY Zenon DEF Collects
<1>3. flatten = [i \in 1..Len(ss) |->
                   IF i = 1 THEN ss[i] ELSE flatten[i-1] \o ss[i]]
  BY <1>2, Zenon
<1>4. Collects(flatten, ss)
  BY <1>3, Zenon DEF Collects
<1> QED
  <2> HIDE DEF flatten
  <2> QED BY <1>1, <1>4, CollectsUnique
\* A collection of one sequence more.
LEMMA CollectsOneMore ==
    ASSUME NEW L, NEW r \in Seq(Seq(L)), NEW f \in [1..Len(r) -> Seq(L)],
           Collects(f, r), NEW s \in Seq(L)
    PROVE  \E g \in [1..Len(Append(r, s)) -> Seq(L)] :
             /\ Collects(g, Append(r, s))
             /\ g[Len(r) + 1] = IF Len(r) = 0 THEN s ELSE f[Len(r)] \o s
<1> DEFINE n == Len(r)
           ss == Append(r, s)
<1>0. /\ n \in Nat /\ Len(ss) = n + 1 /\ ss[n + 1] = s /\ ss \in Seq(Seq(L))
      /\ \A i \in 1..n : ss[i] = r[i]
  OBVIOUS
<1>n. Len(r) = n /\ Append(r, s) = ss
  OBVIOUS
<1> HIDE DEF n, ss
<1> DEFINE last == IF n = 0 THEN ss[n + 1] ELSE f[n] \o ss[n + 1]
           g == [i \in 1..Len(ss) |-> IF i = n + 1 THEN last ELSE f[i]]
<1>1. last \in Seq(L)
  <2>1. ss[n + 1] \in Seq(L)
    BY <1>0
  <2>2. n # 0 => f[n] \in Seq(L)
    BY <1>0, <1>n
  <2> QED BY <2>1, <2>2
<1>2. g \in [1..Len(ss) -> Seq(L)]
  <2> HIDE DEF last
  <2> QED BY <1>0, <1>1, <1>n
<1>3. \A i \in 1..Len(ss) :
        g[i] = IF i = 1 THEN ss[i] ELSE g[i - 1] \o ss[i]
  <2> SUFFICES ASSUME NEW i \in 1..Len(ss)
               PROVE  g[i] = IF i = 1 THEN ss[i] ELSE g[i - 1] \o ss[i]
    OBVIOUS
  <2>0. i \in 1..(n + 1)
    BY <1>0
  <2>1. CASE i # n + 1
    <3>1. f[i] = IF i = 1 THEN r[i] ELSE f[i - 1] \o r[i]
      <4>1. i \in 1..Len(r)
        BY <1>0, <1>n, <2>0, <2>1
      <4> QED BY <4>1, Zenon DEF Collects
    <3>2. g[i] = f[i] /\ ss[i] = r[i]
      BY <1>0, <1>n, <2>0, <2>1
    <3>3. CASE i = 1
      BY <3>1, <3>2, <3>3
    <3>4. CASE i # 1
      <4>1. g[i - 1] = f[i - 1]
        BY <1>0, <2>0, <2>1, <3>4
      <4> HIDE DEF g, last
      <4> QED BY <3>1, <3>2, <3>4, <4>1, Zenon
    <3> QED BY <3>3, <3>4
  <2>2. CASE i = n + 1
    <3>1. g[i] = last
      BY <1>0, <1>n, <2>0, <2>2
    <3>2. CASE n = 0
      BY <1>0, <2>2, <3>1, <3>2
    <3>3. CASE n # 0
      <4>1. i - 1 = n /\ i # 1 /\ n \in 1..Len(ss) /\ n # n + 1
        BY <1>0, <2>0, <2>2, <3>3
      <4>2. g[n] = f[n]
        BY <4>1
      <4>3. last = f[n] \o ss[i]
        BY <1>n, <2>2, <3>3, Zenon
      <4> HIDE DEF g, last
      <4> QED BY <3>1, <4>1, <4>2, <4>3, Zenon
    <3> QED BY <3>2, <3>3
  <2> QED BY <2>1, <2>2
<1>4. Collects(g, ss)
  <2>1. g = [i \in 1..Len(ss) |-> g[i]]
    OBVIOUS
  <2> HIDE DEF g
  <2> QED BY <1>3, <2>1, Zenon DEF Collects
<1>5. g[n + 1] = last
  BY <1>0
<1> QED
  <2> HIDE DEF g
  <2> QED BY <1>0, <1>n, <1>2, <1>4, <1>5

\* A sequence that is not empty has a last element.
LEMMA FrontAndLast ==
    ASSUME NEW T, NEW s \in Seq(T), NEW n \in Nat, Len(s) = n + 1
    PROVE  /\ SubSeq(s, 1, n) \in Seq(T) /\ Len(SubSeq(s, 1, n)) = n
           /\ s[n + 1] \in T /\ s = Append(SubSeq(s, 1, n), s[n + 1])
OBVIOUS

\* All sequences of sequences can be collected.
LEMMA CollectsExists ==
    ASSUME NEW L, NEW ss \in Seq(Seq(L))
    PROVE  \E f \in [1..Len(ss) -> Seq(L)] : Collects(f, ss)
<1> DEFINE Can(r) == \E f \in [1..Len(r) -> Seq(L)] : Collects(f, r)
           S == {n \in Nat : \A r \in Seq(Seq(L)) : Len(r) = n => Can(r)}
<1>1. 0 \in S
  <2> SUFFICES ASSUME NEW r \in Seq(Seq(L)), Len(r) = 0
               PROVE  Can(r)
    OBVIOUS
  <2> DEFINE f == [i \in 1..Len(r) |-> IF i = 1 THEN r[i] ELSE r]
  <2>1. 1..Len(r) = {}
    OBVIOUS
  <2>2. f = [i \in 1..Len(r) |-> IF i = 1 THEN r[i] ELSE f[i - 1] \o r[i]]
    BY <2>1, Zenon
  <2>3. f \in [1..Len(r) -> Seq(L)]
    BY <2>1
  <2> HIDE DEF f
  <2> QED BY <2>2, <2>3, Zenon DEF Collects
<1>2. ASSUME NEW n \in Nat, n \in S PROVE n + 1 \in S
  <2> SUFFICES ASSUME NEW r \in Seq(Seq(L)), Len(r) = n + 1
               PROVE  Can(r)
    OBVIOUS
  <2> DEFINE q == SubSeq(r, 1, n)
             x == r[n + 1]
  <2>1. q \in Seq(Seq(L)) /\ Len(q) = n /\ x \in Seq(L) /\ r = Append(q, x)
    BY FrontAndLast
  <2> HIDE DEF q, x
  <2>2. PICK f \in [1..Len(q) -> Seq(L)] : Collects(f, q)
    BY <1>2, <2>1
  <2>3. \E g \in [1..Len(r) -> Seq(L)] : Collects(g, r)
    BY <2>1, <2>2, CollectsOneMore, Zenon
  <2> QED BY <2>3, Zenon
<1>3. Nat \subseteq S
  <2> HIDE DEF S
  <2> QED BY <1>1, <1>2, SetInduction
<1> QED
  <2>1. Len(ss) \in S
    BY <1>3
  <2> QED BY <2>1

LEMMA FlattenEmpty == FlattenSeq(<<>>) = <<>>
BY DEF FlattenSeq

\* Sequences put together are a sequence, and one more comes at the end.
LEMMA FlattenAppend ==
    ASSUME NEW L, NEW ss \in Seq(Seq(L)), NEW s \in Seq(L)
    PROVE  /\ FlattenSeq(ss) \in Seq(L)
           /\ FlattenSeq(Append(ss, s)) = FlattenSeq(ss) \o s
<1> DEFINE n == Len(ss)
           t == Append(ss, s)
<1>0. n \in Nat /\ Len(t) = n + 1 /\ t \in Seq(Seq(L)) /\ t[n + 1] = s
      /\ \A i \in 1..n : t[i] = ss[i]
  OBVIOUS
<1>n. n = Len(ss) /\ t = Append(ss, s)
  OBVIOUS
<1>1. PICK f \in [1..Len(ss) -> Seq(L)] : Collects(f, ss)
  BY CollectsExists
<1>2. PICK g \in [1..Len(t) -> Seq(L)] :
        /\ Collects(g, t)
        /\ g[n + 1] = IF n = 0 THEN s ELSE f[n] \o s
  BY <1>1, CollectsOneMore, ZenonT(60)
<1> HIDE DEF n, t
<1>3. FlattenSeq(t) = g[n + 1]
  <2>1. Len(t) \in Nat /\ Len(t) # 0
    BY <1>0
  <2> QED BY <1>0, <1>2, <2>1, FlattenIs
<1>4. CASE n = 0
  <2>1. /\ ss = <<>>
        /\ <<>> \o s = s
    <3>1. ss = <<>>
      <4>1. Len(ss) = 0
        BY <1>n, <1>4
      <4> QED BY <4>1
    <3>2. <<>> \o s = s
      OBVIOUS
    <3> QED BY <3>1, <3>2
  <2>2. FlattenSeq(ss) = <<>>
    BY <2>1, FlattenEmpty
  <2>3. FlattenSeq(t) = s
    BY <1>2, <1>3, <1>4, Zenon
  <2>e. <<>> \in Seq(L)
    BY EmptySeq, Zenon
  <2>4. FlattenSeq(ss) \in Seq(L)
    BY <2>1, <2>2, <2>e, Zenon
  <2> QED BY <1>n, <2>1, <2>2, <2>3, <2>4, Zenon
<1>5. CASE n # 0
  <2>1. FlattenSeq(ss) = f[n]
    BY <1>0, <1>n, <1>1, <1>5, FlattenIs
  <2>2. f[n] \in Seq(L)
    BY <1>0, <1>n, <1>1, <1>5
  <2>3. FlattenSeq(t) = f[n] \o s
    BY <1>2, <1>3, <1>5, Zenon
  <2> QED BY <1>n, <2>1, <2>2, <2>3, Zenon
<1> QED BY <1>4, <1>5

-----------------------------------------------------------------------------
\* A sequence, of whatever it is made of.
IsSeq(s) == s \in Seq(ToSet(s))

LEMMA IsSeqIf ==
    ASSUME NEW L, NEW s \in Seq(L)
    PROVE  IsSeq(s) /\ ToSet(s) \subseteq L
BY DEF IsSeq, ToSet

LEMMA EmptyIsSeq == IsSeq(<<>>) /\ ToSet(<<>>) = {}
BY DEF IsSeq, ToSet

LEMMA SingleIsSeq ==
    ASSUME NEW x
    PROVE  IsSeq(<<x>>) /\ ToSet(<<x>>) = {x}
BY DEF IsSeq, ToSet

LEMMA WhenIsSeq ==
    ASSUME NEW c \in BOOLEAN, NEW x
    PROVE  IsSeq(When(c, x)) /\ ToSet(When(c, x)) = IF c THEN {x} ELSE {}
BY EmptyIsSeq, SingleIsSeq DEF When

LEMMA ConcatIsSeq ==
    ASSUME NEW s, NEW t, IsSeq(s), IsSeq(t)
    PROVE  IsSeq(s \o t) /\ ToSet(s \o t) = ToSet(s) \cup ToSet(t)
<1> DEFINE L == ToSet(s) \cup ToSet(t)
<1>1. s \in Seq(L) /\ t \in Seq(L)
  <2>1. s \in Seq(L)
    BY SeqMonotonic DEF IsSeq
  <2>2. t \in Seq(L)
    BY SeqMonotonic DEF IsSeq
  <2> QED BY <2>1, <2>2
<1>2. /\ s \o t \in Seq(L)
      /\ Len(s \o t) = Len(s) + Len(t)
      /\ \A i \in 1..Len(s) + Len(t) :
           (s \o t)[i] = IF i <= Len(s) THEN s[i] ELSE t[i - Len(s)]
  <2> HIDE DEF L
  <2> QED BY <1>1, ConcatProperties
<1>3. IsSeq(s \o t) /\ ToSet(s \o t) \subseteq L
  <2> HIDE DEF L
  <2> QED BY <1>2, IsSeqIf
<1>4. DOMAIN (s \o t) = 1..(Len(s) + Len(t)) /\ Len(s) \in Nat /\ Len(t) \in Nat
      /\ DOMAIN s = 1..Len(s) /\ DOMAIN t = 1..Len(t)
  <2> HIDE DEF L
  <2> QED BY <1>1, <1>2, LenProperties
<1>5. ASSUME NEW x \in ToSet(s) PROVE x \in ToSet(s \o t)
  <2>1. PICK i \in 1..Len(s) : x = s[i]
    BY <1>4, <1>5 DEF ToSet
  <2>2. i \in 1..Len(s) + Len(t) /\ i <= Len(s)
    BY <1>4
  <2>3. (s \o t)[i] = x
    BY <1>2, <2>1, <2>2
  <2> QED BY <1>4, <2>2, <2>3, Zenon DEF ToSet
<1>6. ASSUME NEW x \in ToSet(t) PROVE x \in ToSet(s \o t)
  <2>1. PICK i \in 1..Len(t) : x = t[i]
    BY <1>4, <1>6 DEF ToSet
  <2>2. /\ i + Len(s) \in 1..Len(s) + Len(t) /\ ~(i + Len(s) <= Len(s))
        /\ (i + Len(s)) - Len(s) = i
    BY <1>4
  <2>3. (s \o t)[i + Len(s)] = x
    BY <1>2, <2>1, <2>2
  <2> QED BY <1>4, <2>2, <2>3, Zenon DEF ToSet
<1> QED BY <1>3, <1>5, <1>6

\* Everything in the parts is in the whole, and nothing else.
LEMMA FlattenRange ==
    ASSUME NEW L, NEW ss \in Seq(Seq(L))
    PROVE  /\ FlattenSeq(ss) \in Seq(L)
           /\ ToSet(FlattenSeq(ss)) = UNION {ToSet(ss[i]) : i \in 1..Len(ss)}
<1> DEFINE Is(r) == /\ FlattenSeq(r) \in Seq(L)
                    /\ ToSet(FlattenSeq(r)) = UNION {ToSet(r[i]) : i \in 1..Len(r)}
           S == {n \in Nat : \A r \in Seq(Seq(L)) : Len(r) = n => Is(r)}
<1>1. 0 \in S
  <2> SUFFICES ASSUME NEW r \in Seq(Seq(L)), Len(r) = 0
               PROVE  Is(r)
    OBVIOUS
  <2>1. FlattenSeq(r) = r /\ r = <<>>
    BY DEF FlattenSeq
  <2>2. ToSet(r) = {} /\ <<>> \in Seq(L)
    BY <2>1, EmptyIsSeq
  <2>3. 1..Len(r) = {}
    OBVIOUS
  <2> QED BY <2>1, <2>2, <2>3
<1>2. ASSUME NEW n \in Nat, n \in S PROVE n + 1 \in S
  <2> SUFFICES ASSUME NEW r \in Seq(Seq(L)), Len(r) = n + 1
               PROVE  Is(r)
    OBVIOUS
  <2> DEFINE q == SubSeq(r, 1, n)
             x == r[n + 1]
  <2>1. q \in Seq(Seq(L)) /\ Len(q) = n /\ x \in Seq(L) /\ r = Append(q, x)
        /\ \A i \in 1..n : q[i] = r[i]
    BY FrontAndLast
  <2> HIDE DEF q
  <2>2. FlattenSeq(r) = FlattenSeq(q) \o x /\ FlattenSeq(q) \in Seq(L)
    <3> HIDE DEF x
    <3> QED BY <2>1, FlattenAppend
  <2>3. Is(q)
    BY <1>2, <2>1
  <2>4. FlattenSeq(r) \in Seq(L)
    <3> HIDE DEF x
    <3> QED BY <2>1, <2>2
  <2>5. ToSet(FlattenSeq(r)) = ToSet(FlattenSeq(q)) \cup ToSet(x)
    <3> HIDE DEF x
    <3>1. IsSeq(x) /\ IsSeq(FlattenSeq(q))
      BY <2>1, <2>2, IsSeqIf
    <3> QED BY <2>2, <3>1, ConcatIsSeq
  <2>6. UNION {ToSet(r[i]) : i \in 1..Len(r)}
          = (UNION {ToSet(q[i]) : i \in 1..Len(q)}) \cup ToSet(x)
    <3>1. 1..Len(r) = 1..n \cup {n + 1} /\ 1..Len(q) = 1..n
      BY <2>1
    <3> QED BY <2>1, <3>1
  <2> QED BY <2>3, <2>4, <2>5, <2>6
<1>3. Nat \subseteq S
  <2> HIDE DEF S
  <2> QED BY <1>1, <1>2, SetInduction
<1> QED
  <2>1. Len(ss) \in S
    BY <1>3
  <2> QED BY <2>1

\* What a condition selects from n things.
Chosen(s, n, c, x) == s = FlattenSeq([i \in 1..n |-> When(c[i], x[i])])

LEMMA ChosenRange ==
    ASSUME NEW n \in Nat, NEW c \in [1..n -> BOOLEAN], NEW x, NEW s,
           Chosen(s, n, c, x)
    PROVE  IsSeq(s) /\ ToSet(s) = {x[i] : i \in {j \in 1..n : c[j]}}
<1> DEFINE L == {x[i] : i \in 1..n}
           ss == [i \in 1..n |-> When(c[i], x[i])]
<1>1. \A i \in 1..n : /\ When(c[i], x[i]) \in Seq(L)
                      /\ ToSet(ss[i]) = IF c[i] THEN {x[i]} ELSE {}
  <2> SUFFICES ASSUME NEW i \in 1..n
               PROVE  /\ When(c[i], x[i]) \in Seq(L)
                      /\ ToSet(ss[i]) = IF c[i] THEN {x[i]} ELSE {}
    OBVIOUS
  <2>1. x[i] \in L
    OBVIOUS
  <2>2. When(c[i], x[i]) \in Seq(L)
    <3> HIDE DEF L
    <3> QED BY <2>1 DEF When
  <2>3. c[i] \in BOOLEAN /\ ss[i] = When(c[i], x[i])
    OBVIOUS
  <2> QED BY <2>2, <2>3, WhenIsSeq
<1>2. ss \in Seq(Seq(L)) /\ Len(ss) = n
  <2> HIDE DEF L
  <2> DEFINE T == Seq(L)
  <2>1. \A i \in 1..n : When(c[i], x[i]) \in T
    BY <1>1
  <2> HIDE DEF T
  <2>2. ss \in Seq(T) /\ Len(ss) = n
    BY <2>1
  <2> QED BY <2>2 DEF T
<1> HIDE DEF ss, L
<1>3. FlattenSeq(ss) \in Seq(L)
      /\ ToSet(FlattenSeq(ss)) = UNION {ToSet(ss[i]) : i \in 1..n}
  BY <1>2, FlattenRange
<1>4. UNION {ToSet(ss[i]) : i \in 1..n} = {x[i] : i \in {j \in 1..n : c[j]}}
  BY <1>1
<1> QED BY <1>3, <1>4, IsSeqIf DEF ss, Chosen

-----------------------------------------------------------------------------
\* The parser reads dwords, wherever it is.

LEMMA ShadersTyped ==
    ASSUME NEW s \in Shaders
    PROVE  /\ s.type \in {"vs", "ps", "other"} /\ s.stage \in {"vs", "ps"} /\ s.major \in Nat
           /\ s.units \in Seq(Seq(Dwords)) /\ s.count \in Nat
           /\ FlattenSeq(s.units) \in Seq(Dwords)
           /\ s.count <= 1 + Len(FlattenSeq(s.units))
<1>1. s \in [type : {"vs", "ps", "other"}, stage : {"vs", "ps"}, major : Nat,
             units : Seq(Seq(Dwords)), count : Nat]
  BY ShadersAssumption
<1>2. s.units \in Seq(Seq(Dwords))
  BY <1>1
<1>3. FlattenSeq(s.units) \in Seq(Dwords)
  BY <1>2, FlattenRange
<1>4. s.count <= 1 + Len(FlattenSeq(s.units))
  BY ShadersAssumption
<1> QED BY <1>1, <1>3, <1>4

LEMMA CodeTyped ==
    ASSUME shader \in Shaders
    PROVE  /\ Len(Code) = 1 + Len(FlattenSeq(shader.units)) /\ Len(Code) \in Nat
           /\ shader.count \in Nat /\ shader.count <= Len(Code)
           /\ \A i \in Nat : i >= 2 /\ i <= Len(Code) => Code[i] \in Dwords
<1> DEFINE flat == FlattenSeq(shader.units)
           version == [is |-> "version"]
<1>1. flat \in Seq(Dwords) /\ shader.count \in Nat /\ shader.count <= 1 + Len(flat)
  BY ShadersTyped
<1> HIDE DEF flat, version
<1>2. Code = <<version>> \o flat
  BY DEF Code, flat, version
<1> HIDE DEF version
<1> DEFINE D == Dwords
<1>3. flat \in Seq(D)
  BY <1>1
<1> HIDE DEF D
<1>4. /\ Len(Code) = 1 + Len(flat) /\ Len(flat) \in Nat
      /\ \A i \in Nat : i >= 2 /\ i <= Len(Code) => Code[i] \in D
  BY <1>2, <1>3
<1> QED BY <1>1, <1>4 DEF D, flat

LEMMA ZeroTyped == Zero \in Dwords
BY DEF Zero, Dword, Dwords, Encoding

LEMMA OperandTyped ==
    ASSUME shader \in Shaders, pos \in Nat, pos >= 2, NEW n \in Nat
    PROVE  Operand(n) \in Dwords
BY CodeTyped, ZeroTyped DEF Operand

LEMMA CurrentTyped ==
    ASSUME shader \in Shaders, pos \in Nat, pos >= 2, pos <= shader.count
    PROVE  Current \in Dwords
BY CodeTyped DEF Current

LEMMA EncodingTyped == \A op \in DOMAIN Encoding : Encoding[op] \in Nat
BY DEF Encoding

LEMMA OpcodeTyped ==
    ASSUME NEW d \in Dwords
    PROVE  /\ Opcode(d) \in DOMAIN Encoding \cup {"comment", "unknown"}
           /\ Opcode(d) = "comment" => d.len \in Nat
<1> DEFINE D == DOMAIN Encoding
           ops == {op \in D : Encoding[op] = LowBits(d)}
<1>0. "comment" \notin D \cup {"unknown"}
  BY DEF Encoding
<1>1. CASE d.is = "op"
  <2>1. Opcode(d) = d.op
    BY <1>1 DEF Opcode
  <2>2. d.op \in D
    BY <1>1 DEF Dwords
  <2>3. Opcode(d) # "comment"
    <3> HIDE DEF D
    <3> QED BY <1>0, <2>1, <2>2
  <2> QED BY <2>1, <2>2, <2>3
<1>2. CASE d.is = "comment"
  <2>1. Opcode(d) = "comment"
    BY <1>2 DEF Opcode
  <2>2. d.len \in Nat
    BY <1>2 DEF Dwords
  <2> QED BY <2>1, <2>2
<1>3. CASE d.is \notin {"op", "comment"}
  <2>1. Opcode(d) = IF ops = {} THEN "unknown" ELSE CHOOSE op \in ops : TRUE
    BY <1>3 DEF Opcode
  <2>2. ops \subseteq D
    BY Zenon
  <2> HIDE DEF ops
  <2>3. Opcode(d) \in D \cup {"unknown"}
    <3> HIDE DEF D
    <3> QED BY <2>1, <2>2
  <2>4. Opcode(d) # "comment"
    <3> HIDE DEF D
    <3> QED BY <1>0, <2>3
  <2> QED BY <2>3, <2>4
<1> QED BY <1>1, <1>2, <1>3, Zenon

LEMMA RegisterFields ==
    ASSUME NEW r \in Registers
    PROVE  /\ r.type \in RegisterTypes /\ r.number \in Nat
           /\ r.mask \in SUBSET Components /\ r.relative \in BOOLEAN
<1>1. r.type \in RegisterTypes /\ r.mask \in SUBSET Components /\ r.relative \in BOOLEAN
  BY SMTT(60) DEF Registers
<1>2. r.number \in Nat
  BY SMTT(60) DEF Registers
<1> QED BY <1>1, <1>2

LEMMA RegisterIn == \A d : d.is = "reg" => Register(d) = d.reg
BY DEF Register

LEMMA LowBitsTyped ==
    ASSUME NEW d \in Dwords, d.is # "reg"
    PROVE  LowBits(d) \in Nat
<1>1. CASE d.is = "op"
  <2>1. d.op \in DOMAIN Encoding
    BY <1>1 DEF Dwords
  <2>2. Encoding[d.op] \in Nat
    BY <2>1, EncodingTyped, Zenon
  <2>3. LowBits(d) = Encoding[d.op]
    BY <1>1 DEF LowBits
  <2> QED BY <2>2, <2>3, Zenon
<1>2. CASE d.is = "sem"
  <2>1. \A usage \in DOMAIN UsageNumber : UsageNumber[usage] \in Nat
    BY DEF UsageNumber
  <2>2. LowBits(d) = IF d.usage \in DOMAIN UsageNumber THEN UsageNumber[d.usage] ELSE 0
    BY <1>2 DEF LowBits
  <2> QED BY <2>1, <2>2
<1>3. CASE d.is \in {"comment", "rel", "other"}
  BY <1>3 DEF LowBits, NoOpcode
<1>4. d.is \in {"op", "reg", "sem", "comment", "rel", "other"}
  BY DEF Dwords
<1> QED BY <1>1, <1>2, <1>3, <1>4

LEMMA RegisterTyped ==
    ASSUME NEW d \in Dwords
    PROVE  Register(d) \in Registers
<1>1. CASE d.is = "reg"
  BY <1>1, RegisterIn DEF Dwords
<1>2. CASE d.is # "reg"
  <2> DEFINE bits == LowBits(d)
             number == bits % 2048
             full == d.is = "comment" \/ d = Dword("end")
             type == CASE full -> "other"
                       [] d.is = "rel" -> "addr"
                       [] d.is = "sem" /\ d.usage \in {"2d", "cube"} -> "input"
                       [] d.is = "sem" /\ d.usage = "volume" -> "const"
                       [] OTHER -> "temp"
             swizzle == [c \in Components |-> 0]
  <2>1. number \in 0..2047
    <3>1. bits \in Nat
      BY <1>2, LowBitsTyped
    <3> HIDE DEF bits
    <3> QED BY <3>1
  <2>2. Register(d) = [type |-> type, number |-> number, mask |-> {},
                       swizzle |-> swizzle, relative |-> full, mod |-> "none"]
    BY <1>2 DEF Register
  <2>3. swizzle \in [Components -> Components]
    BY DEF Components
  <2>4. type \in RegisterTypes
    <3> HIDE DEF full
    <3>1. type \in {"other", "addr", "input", "const", "temp"}
      OBVIOUS
    <3> HIDE DEF type
    <3> QED BY <3>1 DEF RegisterTypes, LowTypes
  <2>5. "none" \in Modifiers /\ full \in BOOLEAN
    BY DEF Modifiers
  <2> HIDE DEF type, swizzle, number, full
  <2> QED BY <2>1, <2>2, <2>3, <2>4, <2>5 DEF Registers
<1> QED BY <1>1, <1>2

-----------------------------------------------------------------------------
\* Where the operands of an instruction are.

\* How far it is from an operand to the next.
Stride(x) == IF Register(Operand(x)).relative THEN 2 ELSE 1
Follows(f, n) ==
  f = [i \in 1..(n + 1) |-> IF i = 1 THEN 1 ELSE f[i - 1] + Stride(f[i - 1])]

LEMMA StrideTyped == \A x : Stride(x) \in {1, 2}
BY DEF Stride

\* Such places are numbers from 1 on.
LEMMA FollowsTyped ==
    ASSUME NEW n \in Nat, NEW f, Follows(f, n)
    PROVE  \A i \in 1..(n + 1) : f[i] \in Nat /\ f[i] >= i
<1> DEFINE S == {m \in Nat : m + 1 \in 1..(n + 1) => f[m + 1] \in Nat /\ f[m + 1] >= m + 1}
<1>0. \A i \in 1..(n + 1) : f[i] = IF i = 1 THEN 1 ELSE f[i - 1] + Stride(f[i - 1])
  BY Zenon DEF Follows
<1>1. 0 \in S
  BY <1>0
<1>2. ASSUME NEW m \in Nat, m \in S PROVE m + 1 \in S
  <2> SUFFICES ASSUME (m + 1) + 1 \in 1..(n + 1)
               PROVE  f[(m + 1) + 1] \in Nat /\ f[(m + 1) + 1] >= (m + 1) + 1
    OBVIOUS
  <2>1. m + 1 \in 1..(n + 1) /\ (m + 1) + 1 # 1 /\ ((m + 1) + 1) - 1 = m + 1
    OBVIOUS
  <2>2. f[m + 1] \in Nat /\ f[m + 1] >= m + 1
    BY <1>2, <2>1
  <2>3. f[(m + 1) + 1] = f[m + 1] + Stride(f[m + 1])
    BY <1>0, <2>1, Zenon
  <2>4. Stride(f[m + 1]) \in {1, 2}
    BY StrideTyped
  <2> QED BY <2>2, <2>3, <2>4
<1>3. Nat \subseteq S
  <2> HIDE DEF S
  <2> QED BY <1>1, <1>2, SetInduction
<1> QED
  <2> SUFFICES ASSUME NEW i \in 1..(n + 1) PROVE f[i] \in Nat /\ f[i] >= i
    OBVIOUS
  <2>1. i - 1 \in S /\ (i - 1) + 1 = i
    BY <1>3
  <2> QED BY <2>1

\* They exist for any number of operands.
LEMMA FollowsExists == \A n \in Nat : \E f : Follows(f, n)
<1> DEFINE S == {n \in Nat : \E f : Follows(f, n)}
<1>1. 0 \in S
  <2> DEFINE f == [i \in 1..(0 + 1) |-> 1]
  <2>1. f = [i \in 1..(0 + 1) |-> IF i = 1 THEN 1 ELSE f[i - 1] + Stride(f[i - 1])]
    BY StrideTyped
  <2> HIDE DEF f
  <2>2. Follows(f, 0)
    BY <2>1, Zenon DEF Follows
  <2> QED BY <2>2
<1>2. ASSUME NEW n \in Nat, n \in S PROVE n + 1 \in S
  <2>1. PICK f : Follows(f, n)
    BY <1>2
  <2> DEFINE g == [i \in 1..((n + 1) + 1) |->
                     IF i = (n + 1) + 1 THEN f[n + 1] + Stride(f[n + 1]) ELSE f[i]]
  <2>2. \A i \in 1..(n + 1) : f[i] = IF i = 1 THEN 1 ELSE f[i - 1] + Stride(f[i - 1])
    BY <2>1, Zenon DEF Follows
  <2>3. ASSUME NEW i \in 1..((n + 1) + 1)
        PROVE  g[i] = IF i = 1 THEN 1 ELSE g[i - 1] + Stride(g[i - 1])
    <3>1. CASE i = (n + 1) + 1
      <4>1. g[i] = f[n + 1] + Stride(f[n + 1])
        BY <3>1
      <4>2. i - 1 = n + 1 /\ n + 1 \in 1..((n + 1) + 1) /\ n + 1 # (n + 1) + 1 /\ i # 1
        BY <3>1
      <4>3. g[n + 1] = f[n + 1]
        BY <4>2
      <4> HIDE DEF g
      <4> QED BY <4>1, <4>2, <4>3, Zenon
    <3>2. CASE i # (n + 1) + 1
      <4>1. i \in 1..(n + 1)
        BY <3>2
      <4>2. g[i] = f[i]
        BY <3>2
      <4>3. i # 1 => g[i - 1] = f[i - 1]
        BY <4>1
      <4> HIDE DEF g
      <4>4. f[i] = IF i = 1 THEN 1 ELSE f[i - 1] + Stride(f[i - 1])
        BY <2>2, <4>1
      <4> QED BY <4>2, <4>3, <4>4, Zenon
    <3> QED BY <3>1, <3>2
  <2>4. g = [i \in 1..((n + 1) + 1) |-> g[i]]
    OBVIOUS
  <2> HIDE DEF g
  <2>5. Follows(g, n + 1)
    BY <2>3, <2>4, Zenon DEF Follows
  <2> QED BY <2>5
<1>3. Nat \subseteq S
  <2> HIDE DEF S
  <2> QED BY <1>1, <1>2, SetInduction
<1> QED BY <1>3

LEMMA PlacesFollow ==
    ASSUME NEW n \in Nat
    PROVE  Follows(Places(n), n)
<1>1. Places(n) = CHOOSE f : f = [i \in 1..(n + 1) |->
          IF i = 1 THEN 1
          ELSE f[i - 1] + (IF Register(Operand(f[i - 1])).relative THEN 2 ELSE 1)]
  BY Zenon DEF Places
<1>2. Places(n) = CHOOSE f : Follows(f, n)
  BY <1>1, Zenon DEF Follows, Stride
<1> QED BY <1>2, FollowsExists, Zenon

LEMMA PlacesTyped ==
    ASSUME NEW n \in Nat
    PROVE  \A i \in 1..(n + 1) : Places(n)[i] \in Nat /\ Places(n)[i] >= i
BY PlacesFollow, FollowsTyped

-----------------------------------------------------------------------------
\* Programs that the parser makes.

LEMMA MaxIn ==
    ASSUME NEW b \in Nat, NEW T \in SUBSET (0..b), T # {}
    PROVE  Max(T) \in T /\ \A y \in T : Max(T) >= y
<1> DEFINE D == {b - x : x \in T}
<1>1. D \in SUBSET Nat /\ D # {}
  <2>1. \A x \in T : b - x \in Nat
    OBVIOUS
  <2>2. D \in SUBSET Nat
    BY <2>1
  <2>3. PICK x \in T : TRUE
    OBVIOUS
  <2>4. b - x \in D
    BY <2>3
  <2> QED BY <2>2, <2>4
<1>2. PICK d \in D : \A m \in D : d <= m
  <2> HIDE DEF D
  <2> QED BY <1>1, NatLeast
<1>3. PICK x \in T : d = b - x
  BY <1>2
<1>4. ASSUME NEW y \in T PROVE x >= y
  <2>1. b - y \in D
    OBVIOUS
  <2>2. b - x <= b - y
    BY <1>2, <1>3, <2>1
  <2> QED BY <2>2
<1>5. \E z \in T : \A y \in T : z >= y
  BY <1>3, <1>4
<1> QED BY <1>5, Zenon DEF Max

Instructions ==
  {i \in [op : Arithmetic \cup Compares \cup Tests \cup Bare,
          dst : Registers, src : Seq(Registers)] :
     i.op \in Arithmetic => Len(i.src) = SrcCount(i.op)}
Dcls == [usage : DclUsages, index : 0..15, reg : Registers]
DefTypes == {"const", "constint", "constbool"}

InstSeqs == Seq(Instructions)
DclSeqs == Seq(Dcls)
DefSeqs == Seq(DefTypes \X Nat)
BitSets == SUBSET Register32

Programs ==
  [type : {"vs", "ps", "other"}, major : Nat, insts : InstSeqs,
   dcls : DclSeqs, defs : DefSeqs, maxTemp : 0..255,
   maxConst : 0..255, inputs : BitSets, outputs : BitSets, samplers : SUBSET Nat,
   attrouts : BitSets,
   position : BOOLEAN, fog : BOOLEAN, depth : BOOLEAN, colors : 0..32]

\* Samplers with numbers that have no bit are declared.
Known(samplers, dcls) ==
  \A n \in samplers \ Register32 :
    \E d \in ToSet(dcls) : d.reg.type = "sampler" /\ d.reg.number = n

\* The tables have room.
Fit(p) ==
  /\ Len(p.insts) <= MaxInstructions
  /\ Len(p.dcls) <= MaxDcl /\ Len(p.defs) <= MaxDef
  /\ Known(p.samplers, p.dcls)

ParseType ==
  /\ shader \in Shaders
  /\ pos \in Nat /\ (status = "parsing" => pos >= 2)
  /\ prog \in Programs /\ Fit(prog)
  /\ status \in Statuses

LEMMA EmptyTyped ==
    ASSUME NEW type \in {"vs", "ps", "other"}, NEW major \in Nat
    PROVE  EmptyProgram(type, major) \in Programs /\ Fit(EmptyProgram(type, major))
<1>1. EmptyProgram(type, major) \in Programs
  BY DEF EmptyProgram, Programs, InstSeqs, DclSeqs, DefSeqs, BitSets
<1>2. Fit(EmptyProgram(type, major))
  BY LimitsAssumption DEF EmptyProgram, Fit, Known
<1> QED BY <1>1, <1>2

LEMMA KnownMore ==
    ASSUME NEW samplers, NEW dcls, Known(samplers, dcls), NEW T \in BitSets
    PROVE  Known(samplers \cup T, dcls)
BY Zenon DEF Known, BitSets

LEMMA KnownDeclared ==
    ASSUME NEW dcls \in DclSeqs, NEW d \in Dcls, NEW samplers, Known(samplers, dcls)
    PROVE  Known(IF d.reg.type = "sampler" THEN samplers \cup {d.reg.number}
                 ELSE samplers, Append(dcls, d))
<1> DEFINE more == Append(dcls, d)
<1>1. ToSet(dcls) \subseteq ToSet(more) /\ d \in ToSet(more)
  <2>1. /\ Len(dcls) \in Nat /\ DOMAIN dcls = 1..Len(dcls)
        /\ DOMAIN more = 1..(Len(dcls) + 1)
        /\ \A i \in 1..Len(dcls) : more[i] = dcls[i]
        /\ more[Len(dcls) + 1] = d
    BY DEF DclSeqs
  <2> HIDE DEF more
  <2>2. Len(dcls) + 1 \in DOMAIN more /\ DOMAIN dcls \subseteq DOMAIN more
    BY <2>1
  <2> QED BY <2>1, <2>2, Zenon DEF ToSet
<1> HIDE DEF more
<1>2. Known(samplers, more)
  BY <1>1, Zenon DEF Known
<1>3. d.reg.type = "sampler" => Known(samplers \cup {d.reg.number}, more)
  BY <1>1, <1>2, Zenon DEF Known
<1>4. CASE d.reg.type = "sampler"
  BY <1>3, <1>4, Zenon DEF more
<1>5. CASE d.reg.type # "sampler"
  BY <1>2, <1>5, Zenon DEF more
<1> QED BY <1>4, <1>5, Zenon

LEMMA InitType == ParseInit => ParseType
<1> SUFFICES ASSUME ParseInit PROVE ParseType
  OBVIOUS
<1>1. prog \in Programs /\ Fit(prog)
  BY EmptyTyped DEF ParseInit
<1> QED BY <1>1 DEF ParseInit, ParseType, Statuses

LEMMA FailType ==
    ASSUME ParseType, Fail
    PROVE  ParseType'
BY DEF ParseType, Fail, Fit, Known, Statuses

LEMMA ContinueType ==
    ASSUME ParseType, status = "parsing", NEW p \in Programs, Fit(p), NEW n \in Nat,
           Continue(p, n)
    PROVE  ParseType'
<1>1. prog' \in Programs /\ Fit(prog')
  BY DEF Continue, Fit, Known
<1>2. pos' \in Nat /\ pos' >= 2
  BY DEF Continue, ParseType
<1> QED BY <1>1, <1>2 DEF Continue, ParseType

\* What the loop is about to read.
LEMMA AtTyped ==
    ASSUME ParseType, NEW ops, At(ops)
    PROVE  /\ status = "parsing" /\ pos \in Nat /\ pos >= 2 /\ pos <= shader.count
           /\ Current \in Dwords /\ Opcode(Current) \in ops
           /\ \A n \in Nat : Operand(n) \in Dwords /\ Register(Operand(n)) \in Registers
<1>1. status = "parsing" /\ pos \in Nat /\ pos >= 2 /\ pos <= shader.count
      /\ Opcode(Current) \in ops /\ shader \in Shaders
  BY DEF ParseType, At
<1>2. \A n \in Nat : Operand(n) \in Dwords
  BY <1>1, OperandTyped
<1>3. \A n \in Nat : Register(Operand(n)) \in Registers
  BY <1>2, RegisterTyped
<1> QED BY <1>1, <1>2, <1>3, CurrentTyped

LEMMA CommentType ==
    ASSUME ParseType, Comment
    PROVE  ParseType'
<1>1. At({"comment"})
  BY DEF Comment
<1>2. Current.len \in Nat /\ status = "parsing"
  BY <1>1, AtTyped, OpcodeTyped
<1>3. Fail \/ Continue(prog, Current.len)
  BY DEF Comment
<1>4. prog \in Programs /\ Fit(prog)
  BY DEF ParseType
<1> QED BY <1>2, <1>3, <1>4, FailType, ContinueType

\* A program with other declarations, and what comes of them.
NumberSets == SUBSET Nat

Redeclared(q, dcls, samplers, inputs, outputs, position) ==
  [q EXCEPT !.dcls = dcls, !.samplers = samplers, !.inputs = inputs,
            !.outputs = outputs, !.position = position]

LEMMA RedeclaredTyped ==
    ASSUME NEW q \in Programs, NEW dcls \in DclSeqs, NEW samplers \in NumberSets,
           NEW inputs \in BitSets, NEW outputs \in BitSets, NEW position \in BOOLEAN
    PROVE  /\ Redeclared(q, dcls, samplers, inputs, outputs, position) \in Programs
           /\ Redeclared(q, dcls, samplers, inputs, outputs, position).insts = q.insts
           /\ Redeclared(q, dcls, samplers, inputs, outputs, position).defs = q.defs
           /\ Redeclared(q, dcls, samplers, inputs, outputs, position).dcls = dcls
           /\ Redeclared(q, dcls, samplers, inputs, outputs, position).samplers = samplers
<1> DEFINE p == [q EXCEPT !.dcls = dcls, !.samplers = samplers, !.inputs = inputs,
                          !.outputs = outputs, !.position = position]
<1>0. samplers \in SUBSET Nat
  BY DEF NumberSets
<1>1. p \in Programs
  BY <1>0, ZenonT(200) DEF Programs
<1>2. p.insts = q.insts /\ p.defs = q.defs /\ p.dcls = dcls /\ p.samplers = samplers
  BY SMTT(30) DEF Programs
<1>3. Redeclared(q, dcls, samplers, inputs, outputs, position) = p
  BY DEF Redeclared
<1> HIDE DEF p
<1> QED BY <1>1, <1>2, <1>3

LEMMA DclType ==
    ASSUME ParseType, Dcl
    PROVE  ParseType'
<1> DEFINE reg == Register(Operand(2))
           sem == Operand(1)
           dcl == [usage |-> IF sem.is = "sem" THEN sem.usage ELSE "position",
                   index |-> IF sem.is = "sem" THEN sem.index ELSE 0, reg |-> reg]
           p == [prog EXCEPT
                     !.dcls = Append(@, dcl),
                     !.samplers = IF reg.type = "sampler"
                                    THEN @ \cup {reg.number} ELSE @,
                     !.inputs = IF reg.type = "input"
                                  THEN @ \cup {reg.number} ELSE @,
                     !.outputs = IF reg.type = "output"
                                   THEN @ \cup {reg.number} ELSE @,
                     !.position = @ \/ /\ reg.type = "output"
                                       /\ dcl.usage = "position"
                                       /\ dcl.index = 0]
<1>1. At({"dcl"})
  BY DEF Dcl
<1>2. status = "parsing" /\ reg \in Registers /\ sem \in Dwords
  BY <1>1, AtTyped
<1>3. dcl \in Dcls
  <2>1. sem.is = "sem" => sem.usage \in DclUsages /\ sem.index \in 0..15
    BY <1>2 DEF Dwords
  <2>2. "position" \in DclUsages
    BY DEF DclUsages, UsageNumber
  <2> HIDE DEF reg, sem
  <2> QED BY <1>2, <2>1, <2>2 DEF Dcls
<1>4. \/ Fail
      \/ /\ ~(reg.type \in {"input", "output"} /\ reg.number >= 32)
         /\ Len(prog.dcls) < MaxDcl
         /\ Continue(p, 2)
  <2>1. prog.dcls \in Seq(Dcls)
    BY DEF ParseType, Programs, DclSeqs
  <2>2. Len(prog.dcls) \in Nat
    BY <2>1
  <2>3. \/ Fail
        \/ /\ ~(reg.type \in {"input", "output"} /\ reg.number >= 32)
           /\ ~(Len(prog.dcls) >= MaxDcl)
           /\ Continue(p, 2)
    BY Zenon DEF Dcl
  <2> HIDE DEF p, reg
  <2> QED BY <2>2, <2>3, LimitsAssumption
<1>5. CASE /\ ~(reg.type \in {"input", "output"} /\ reg.number >= 32)
           /\ Len(prog.dcls) < MaxDcl
           /\ Continue(p, 2)
  <2> DEFINE samplers == IF reg.type = "sampler"
                           THEN prog.samplers \cup {reg.number} ELSE prog.samplers
             inputs == IF reg.type = "input"
                         THEN prog.inputs \cup {reg.number} ELSE prog.inputs
             outputs == IF reg.type = "output"
                          THEN prog.outputs \cup {reg.number} ELSE prog.outputs
             position == prog.position \/ /\ reg.type = "output"
                                          /\ dcl.usage = "position"
                                          /\ dcl.index = 0
  <2>0. prog \in Programs /\ Fit(prog)
    BY DEF ParseType
  <2>1. reg.number \in Nat
    <3>1. reg \in Registers
      BY <1>2, Zenon
    <3> HIDE DEF reg
    <3> QED BY <3>1, RegisterFields
  <2>2. samplers \in SUBSET Nat /\ inputs \in BitSets
        /\ outputs \in BitSets /\ position \in BOOLEAN
    <3> DEFINE k == reg.number
    <3>0. k \in Nat
      BY <2>1
    <3>2. prog.samplers \in SUBSET Nat /\ prog.inputs \in BitSets
          /\ prog.outputs \in BitSets /\ prog.position \in BOOLEAN
      BY <2>0 DEF Programs
    <3> HIDE DEF reg, dcl
    <3>3. samplers \in SUBSET Nat
      BY <3>0, <3>2
    <3>a. reg.type \in {"input", "output"} => k \in Register32
      <4>1. ~(reg.type \in {"input", "output"} /\ k >= 32)
        <5> HIDE DEF p
        <5> QED BY <1>5, Zenon
      <4> HIDE DEF k
      <4> QED BY <3>0, <4>1 DEF Register32
    <3>4. inputs \in BitSets /\ outputs \in BitSets
      BY <3>a, <3>2 DEF BitSets
    <3> QED BY <3>2, <3>3, <3>4
  <2>3. p = [prog EXCEPT !.dcls = Append(@, dcl), !.samplers = samplers,
                         !.inputs = inputs, !.outputs = outputs, !.position = position]
    <3> HIDE DEF reg, dcl
    <3> QED BY Zenon
  <2>c. Known(samplers, Append(prog.dcls, dcl))
    <3>1. prog.dcls \in DclSeqs /\ Known(prog.samplers, prog.dcls)
      BY <2>0 DEF Programs, Fit
    <3>2. dcl.reg = reg
      BY Zenon
    <3> HIDE DEF reg, dcl
    <3>3. Known(IF dcl.reg.type = "sampler" THEN prog.samplers \cup {dcl.reg.number}
                ELSE prog.samplers, Append(prog.dcls, dcl))
      BY <1>3, <3>1, KnownDeclared
    <3> QED BY <3>2, <3>3, Zenon
  <2> HIDE DEF p, reg, dcl, samplers, inputs, outputs, position
  <2>d. Append(prog.dcls, dcl) \in DclSeqs
        /\ Len(Append(prog.dcls, dcl)) = Len(prog.dcls) + 1 /\ Len(prog.dcls) \in Nat
    BY <1>3, <2>0 DEF Programs, DclSeqs
  <2>e. p = Redeclared(prog, Append(prog.dcls, dcl), samplers, inputs, outputs, position)
    BY <2>3 DEF Redeclared
  <2>4. p \in Programs /\ p.insts = prog.insts /\ p.defs = prog.defs
        /\ p.dcls = Append(prog.dcls, dcl) /\ p.samplers = samplers
    <3> DEFINE dcls == Append(prog.dcls, dcl)
    <3>1. dcls \in DclSeqs
      BY <2>d
    <3> HIDE DEF dcls
    <3> DEFINE r == Redeclared(prog, dcls, samplers, inputs, outputs, position)
    <3>a. samplers \in NumberSets
      BY <2>2 DEF NumberSets
    <3>b. prog \in Programs /\ inputs \in BitSets /\ outputs \in BitSets
          /\ position \in BOOLEAN
      BY <2>0, <2>2
    <3>2. /\ r \in Programs
          /\ r.insts = prog.insts /\ r.defs = prog.defs /\ r.dcls = dcls
          /\ r.samplers = samplers
      BY <3>1, <3>a, <3>b, RedeclaredTyped
    <3> HIDE DEF r
    <3>3. p = r
      BY <2>e, Zenon DEF dcls, r
    <3> QED BY <3>2, <3>3 DEF dcls
  <2>5. Fit(p)
    BY <1>5, <2>0, <2>c, <2>d, <2>4, LimitsAssumption DEF Fit
  <2> QED BY <1>2, <1>5, <2>4, <2>5, ContinueType
<1> QED BY <1>4, <1>5, FailType

LEMMA DefinitionType ==
    ASSUME ParseType, Def
    PROVE  ParseType'
<1> DEFINE op == Opcode(Current)
           size == IF op = "defb" THEN 2 ELSE 5
           entry == <<DefType(op), Register(Operand(1)).number>>
           defs == WithDef(prog.defs, entry)
           p == [prog EXCEPT !.defs = defs]
<1>1. At(Defs)
  BY DEF Def
<1>2. status = "parsing" /\ Register(Operand(1)) \in Registers /\ op \in Defs
  BY <1>1, AtTyped
<1>3. entry \in DefTypes \X Nat
  <2>1. DefType(op) \in DefTypes
    BY <1>2 DEF DefType, DefTypes, Defs
  <2>2. Register(Operand(1)).number \in Nat
    <3> DEFINE k == Register(Operand(1)).number
    <3>1. k \in Nat
      BY <1>2, RegisterFields
    <3> HIDE DEF k
    <3>2. k \in Nat
      BY <3>1
    <3> QED BY <3>2 DEF k
  <2> QED BY <2>1, <2>2
<1>4. prog \in Programs /\ Fit(prog)
  BY DEF ParseType
<1>5. defs \in DefSeqs /\ Len(defs) \in Nat
  <2> HIDE DEF entry
  <2>1. prog.defs \in Seq(DefTypes \X Nat)
    BY <1>4 DEF Programs, DefSeqs
  <2> QED BY <1>3, <2>1 DEF WithDef, DefSeqs
<1>6. \/ Fail
      \/ ~(Len(defs) > MaxDef) /\ Continue(p, size)
  BY Zenon DEF Def
<1>7. CASE ~(Len(defs) > MaxDef) /\ Continue(p, size)
  <2>1. size \in Nat
    OBVIOUS
  <2>2. p \in Programs
    <3> HIDE DEF defs
    <3> QED BY ZenonT(200), <1>4, <1>5 DEF Programs
  <2>3. Fit(p)
    <3> HIDE DEF defs
    <3>1. p.insts = prog.insts /\ p.dcls = prog.dcls /\ p.defs = defs
          /\ p.samplers = prog.samplers
      BY SMTT(30), <1>4 DEF Programs
    <3>2. Len(defs) <= MaxDef
      BY <1>5, <1>7, LimitsAssumption
    <3> QED BY <1>4, <3>1, <3>2 DEF Fit
  <2> HIDE DEF p, size
  <2> QED BY <1>2, <1>7, <2>1, <2>2, <2>3, ContinueType
<1> QED BY <1>6, <1>7, FailType

LEMMA ControlType ==
    ASSUME ParseType, NEW ops \in SUBSET (Compares \cup Tests \cup Bare), NEW n \in Nat,
           Control(ops, n)
    PROVE  ParseType'
<1> DEFINE src == [i \in 1..n |-> Register(Operand(i))]
           inst == Instruction(Opcode(Current), NoRegister, src)
           p == [prog EXCEPT !.insts = Append(@, inst)]
<1>1. At(ops)
  BY DEF Control
<1>2. status = "parsing" /\ Opcode(Current) \in ops
      /\ \A i \in Nat : Register(Operand(i)) \in Registers
  BY <1>1, AtTyped
<1>3. inst \in Instructions
  <2>1. src \in Seq(Registers)
    <3> DEFINE R == Registers
    <3>1. \A i \in 1..n : Register(Operand(i)) \in R
      BY <1>2
    <3> HIDE DEF R
    <3>2. src \in Seq(R)
      BY <3>1
    <3> QED BY <3>2 DEF R
  <2>2. NoRegister \in Registers
    BY ZeroTyped, RegisterTyped DEF NoRegister
  <2>3. Opcode(Current) \in Compares \cup Tests \cup Bare
        /\ Opcode(Current) \notin Arithmetic
    <3> DEFINE code == Opcode(Current)
    <3>1. code \in Compares \cup Tests \cup Bare
      BY <1>2
    <3> HIDE DEF code
    <3>3. code \notin Arithmetic
      BY <3>1 DEF Compares, Tests, Bare, Arithmetic, NoSource, OneSource,
                  TwoSources, ThreeSources
    <3> QED BY <3>1, <3>3 DEF code
  <2> HIDE DEF src
  <2> QED BY <2>1, <2>2, <2>3 DEF Instruction, Instructions
<1>4. prog \in Programs /\ Fit(prog)
  BY DEF ParseType
<1>5. /\ Append(prog.insts, inst) \in InstSeqs /\ Len(prog.insts) \in Nat
      /\ Len(Append(prog.insts, inst)) = Len(prog.insts) + 1
  <2> HIDE DEF inst
  <2> QED BY <1>3, <1>4 DEF Programs, InstSeqs
<1>6. \/ Fail
      \/ ~(Len(prog.insts) >= MaxInstructions) /\ Continue(p, n)
  BY Zenon DEF Control
<1>7. CASE ~(Len(prog.insts) >= MaxInstructions) /\ Continue(p, n)
  <2> DEFINE insts == Append(prog.insts, inst)
  <2>1. p = [prog EXCEPT !.insts = insts]
    OBVIOUS
  <2> HIDE DEF p, insts
  <2>2. p \in Programs
    BY ZenonT(200), <1>4, <1>5, <2>1 DEF Programs, insts
  <2>3. p.insts = insts /\ p.dcls = prog.dcls /\ p.defs = prog.defs
        /\ p.samplers = prog.samplers
    BY SMTT(30), <1>4, <2>1 DEF Programs
  <2>4. Len(insts) <= MaxInstructions
    BY <1>5, <1>7, LimitsAssumption DEF insts
  <2>5. Fit(p)
    BY <1>4, <2>3, <2>4 DEF Fit
  <2> QED BY <1>2, <1>7, <2>2, <2>5, ContinueType
<1> QED BY <1>6, <1>7, FailType

LEMMA NumbersInRange ==
    ASSUME NEW regs \in SUBSET Registers, \A r \in regs : InRange(r)
    PROVE  /\ \A type \in {"temp", "const"} : Numbers(regs, type) \in SUBSET (0..255)
           /\ \A type \in {"input", "output", "sampler", "attrout"} :
                Numbers(regs, type) \in BitSets
<1>1. \A r \in regs : r.number \in Nat
  BY RegisterFields
<1>2. ASSUME NEW type \in {"temp", "const"}, NEW r \in regs, r.type = type
      PROVE  r.number \in 0..255
  <2> DEFINE k == r.number
  <2>1. k <= 255
    BY <1>2 DEF InRange
  <2>2. k \in Nat
    BY <1>1, <1>2
  <2> HIDE DEF k
  <2>3. k \in 0..255
    BY <2>1, <2>2
  <2> QED BY <2>3 DEF k
<1>3. ASSUME NEW type \in {"input", "output", "sampler", "attrout"},
             NEW r \in regs, r.type = type
      PROVE  r.number \in Register32
  <2> DEFINE k == r.number
  <2>1. k < 32
    BY <1>3 DEF InRange
  <2>2. k \in Nat
    BY <1>1, <1>3
  <2> HIDE DEF k
  <2>3. k \in Register32
    BY <2>1, <2>2 DEF Register32
  <2> QED BY <2>3 DEF k
<1> QED BY <1>2, <1>3 DEF Numbers, BitSets

LEMMA DestinationNumber ==
    ASSUME NEW inst \in Instructions
    PROVE  inst.dst.number \in Nat
<1> DEFINE d == inst.dst
<1>1. d \in Registers
  BY DEF Instructions
<1> HIDE DEF d
<1>2. d.number \in Nat
  BY <1>1, RegisterFields
<1> QED BY <1>2 DEF d

LEMMA TrackedTyped ==
    ASSUME NEW p \in Programs, NEW inst \in Instructions, InRange(inst.dst),
           \A i \in DOMAIN inst.src : InRange(inst.src[i])
    PROVE  /\ Tracked(p, inst) \in Programs
           /\ Tracked(p, inst).insts = p.insts /\ Tracked(p, inst).dcls = p.dcls
           /\ Tracked(p, inst).defs = p.defs
           /\ \E T \in BitSets : Tracked(p, inst).samplers = p.samplers \cup T
<1> DEFINE dst == {inst.dst}
           regs == dst \cup ToSet(inst.src)
           maxTemp == Max({p.maxTemp} \cup Numbers(regs, "temp"))
           maxConst == Max({p.maxConst} \cup Numbers(regs, "const"))
           inputs == p.inputs \cup Numbers(regs, "input")
           outputs == p.outputs \cup Numbers(regs, "output")
           samplers == p.samplers \cup Numbers(regs, "sampler")
           attrouts == p.attrouts \cup Numbers(dst, "attrout")
           position == p.position \/ 0 \in Numbers(dst, "rastout")
           fog == p.fog \/ 1 \in Numbers(dst, "rastout")
           colors == IF inst.dst.type = "colorout" THEN inst.dst.number + 1 ELSE p.colors
           depth == p.depth \/ inst.dst.type = "depthout"
<1>1. regs \in SUBSET Registers /\ dst \in SUBSET Registers
      /\ \A r \in regs : InRange(r)
  BY DEF Instructions, ToSet
<1>2. /\ p.maxTemp \in 0..255 /\ p.maxConst \in 0..255
      /\ p.inputs \in BitSets /\ p.outputs \in BitSets /\ p.samplers \in SUBSET Nat
      /\ p.attrouts \in BitSets /\ p.position \in BOOLEAN /\ p.fog \in BOOLEAN
      /\ p.colors \in 0..32 /\ p.depth \in BOOLEAN
  BY DEF Programs
<1>3. Tracked(p, inst) =
        [p EXCEPT !.maxTemp = maxTemp, !.maxConst = maxConst, !.inputs = inputs,
                  !.outputs = outputs, !.samplers = samplers,
                  !.attrouts = attrouts, !.position = position, !.fog = fog,
                  !.colors = colors, !.depth = depth]
  BY Zenon DEF Tracked
<1>4. maxTemp \in 0..255
  <2> DEFINE T == {p.maxTemp} \cup Numbers(regs, "temp")
  <2>1. T \in SUBSET (0..255) /\ T # {}
    BY <1>1, <1>2, NumbersInRange
  <2> HIDE DEF T
  <2>2. Max(T) \in T
    BY <2>1, MaxIn, SMTT(60)
  <2>3. Max(T) \in 0..255
    BY <2>1, <2>2
  <2> QED BY <2>3 DEF T
<1>5. maxConst \in 0..255
  <2> DEFINE T == {p.maxConst} \cup Numbers(regs, "const")
  <2>1. T \in SUBSET (0..255) /\ T # {}
    BY <1>1, <1>2, NumbersInRange
  <2> HIDE DEF T
  <2>2. Max(T) \in T
    BY <2>1, MaxIn, SMTT(60)
  <2>3. Max(T) \in 0..255
    BY <2>1, <2>2
  <2> QED BY <2>3 DEF T
<1>6. /\ inputs \in BitSets /\ outputs \in BitSets /\ samplers \in SUBSET Nat
      /\ \E T \in BitSets : samplers = p.samplers \cup T
  <2>1. /\ Numbers(regs, "input") \in BitSets /\ Numbers(regs, "output") \in BitSets
        /\ Numbers(regs, "sampler") \in BitSets
    BY <1>1, NumbersInRange
  <2> HIDE DEF regs
  <2>2. inputs \in BitSets /\ outputs \in BitSets
    BY <1>2, <2>1 DEF BitSets
  <2>3. Numbers(regs, "sampler") \in SUBSET Nat
    BY <2>1 DEF BitSets, Register32
  <2>4. samplers \in SUBSET Nat
    BY <1>2, <2>3
  <2> QED BY <2>1, <2>2, <2>4, Zenon
<1>7. attrouts \in BitSets
  <2>1. Numbers(dst, "attrout") \in BitSets
    <3>1. \A r \in dst : InRange(r)
      OBVIOUS
    <3> QED BY <1>1, <3>1, NumbersInRange
  <2> HIDE DEF dst
  <2> QED BY <1>2, <2>1 DEF BitSets
<1>8. colors \in 0..32
  <2> DEFINE k == inst.dst.number
             c == p.colors
  <2>2. k \in Nat
    <3> HIDE DEF regs, dst, maxTemp, maxConst, inputs, outputs, samplers, attrouts
    <3> QED BY DestinationNumber
  <2>3. inst.dst.type = "colorout" => k < 32
    BY DEF InRange
  <2>4. c \in 0..32
    BY <1>2
  <2> HIDE DEF k, c
  <2>5. (IF inst.dst.type = "colorout" THEN k + 1 ELSE c) \in 0..32
    BY <2>2, <2>3, <2>4
  <2> QED BY <2>5 DEF k, c
<1>9. position \in BOOLEAN /\ fog \in BOOLEAN /\ depth \in BOOLEAN
  <2> HIDE DEF dst
  <2> QED BY <1>2
<1> HIDE DEF dst, regs, maxTemp, maxConst, inputs, outputs, samplers, attrouts,
             position, fog, colors, depth
<1> DEFINE q == [p EXCEPT !.maxTemp = maxTemp, !.maxConst = maxConst,
                  !.inputs = inputs, !.outputs = outputs, !.samplers = samplers,
                  !.attrouts = attrouts, !.position = position, !.fog = fog,
                  !.colors = colors, !.depth = depth]
<1>10. q \in Programs
  BY ZenonT(200), <1>4, <1>5, <1>6, <1>7, <1>8, <1>9 DEF Programs
<1>11. q.insts = p.insts /\ q.dcls = p.dcls /\ q.defs = p.defs /\ q.samplers = samplers
  BY SMTT(30) DEF Programs
<1> QED
  <2> HIDE DEF q
  <2>1. Tracked(p, inst) = q
    BY <1>3 DEF q
  <2>2. \E T \in BitSets : q.samplers = p.samplers \cup T
    BY <1>6, <1>11, Zenon
  <2> QED BY <1>10, <1>11, <2>1, <2>2

LEMMA NoRegisterIs == NoRegister.type = "temp" /\ NoRegister.number = 0 % 2048
<1>1. Zero.is = "op" /\ Zero.op = "nop" /\ Zero # Dword("end")
  <2>1. "nop" # "end"
    OBVIOUS
  <2>2. Zero.op = "nop" /\ Dword("end").op = "end" /\ Zero.is = "op"
    BY DEF Zero, Dword
  <2> QED BY <2>1, <2>2, Zenon
<1>2. LowBits(Zero) = 0
  BY <1>1 DEF LowBits, Encoding
<1>3. ~(Zero.is = "comment" \/ Zero = Dword("end"))
      /\ Zero.is # "reg" /\ Zero.is # "rel" /\ Zero.is # "sem"
  BY <1>1
<1> HIDE DEF Zero
<1> QED BY <1>2, <1>3 DEF NoRegister, Register

LEMMA NoRegisterInRange == NoRegister \in Registers /\ InRange(NoRegister)
<1>1. NoRegister \in Registers
  BY ZeroTyped, RegisterTyped DEF NoRegister
<1>2. NoRegister.type = "temp" /\ NoRegister.number = 0 % 2048
  BY NoRegisterIs
<1>3. 0 % 2048 <= 255
  OBVIOUS
<1> QED BY <1>1, <1>2, <1>3 DEF InRange

LEMMA SrcCountTyped ==
    /\ \A op \in Arithmetic : SrcCount(op) \in 0..3 /\ op \in DOMAIN Encoding
    /\ \A op : HasDst(op) \in BOOLEAN
<1>1. ASSUME NEW op \in Arithmetic
      PROVE  SrcCount(op) \in 0..3
  BY DEF Arithmetic, SrcCount, NoSource, OneSource, TwoSources, ThreeSources
<1>2. ASSUME NEW op \in Arithmetic
      PROVE  op \in DOMAIN Encoding
  BY DEF Arithmetic, NoSource, OneSource, TwoSources, ThreeSources, Encoding
<1> QED BY <1>1, <1>2 DEF HasDst

\* The registers of an instruction, from those read.
LEMMA Split ==
    ASSUME NEW R, NEW k \in 0..1, NEW m \in Nat, NEW reg \in [1..(k + m) -> R]
    PROVE  /\ SubSeq(reg, k + 1, k + m) \in Seq(R)
           /\ Len(SubSeq(reg, k + 1, k + m)) = m
           /\ \A i \in 1..m : SubSeq(reg, k + 1, k + m)[i] = reg[k + i]
<1>1. reg \in Seq(R) /\ Len(reg) = k + m
  OBVIOUS
<1> QED BY <1>1

\* What an instruction that is accepted adds to the program.
Made(inst) ==
  /\ inst \in Instructions /\ inst.op \in Arithmetic
  /\ InRange(inst.dst) /\ \A i \in DOMAIN inst.src : InRange(inst.src[i])
WithInst(inst) == [prog EXCEPT !.insts = Append(@, inst)]

LEMMA RegularMakes ==
    ASSUME ParseType, Regular
    PROVE  \/ Fail
           \/ /\ ~(Len(prog.insts) >= MaxInstructions)
              /\ \E inst : \E n \in Nat :
                   Made(inst) /\ Continue(Tracked(WithInst(inst), inst), n)
<1> DEFINE op == Opcode(Current)
           dsts == IF HasDst(op) THEN 1 ELSE 0
           n == dsts + SrcCount(op)
           place == Places(n)
           reg == [i \in 1..n |-> Register(Operand(place[i]))]
           cut == \E i \in 1..n : reg[i].relative /\ ~Enough(place[i] + 1)
           dst == IF HasDst(op) THEN reg[1] ELSE NoRegister
           src == SubSeq(reg, dsts + 1, n)
           inst == Instruction(op, dst, src)
           p == [prog EXCEPT !.insts = Append(@, inst)]
<1>1. At(Arithmetic)
  BY DEF Regular
<1>2. status = "parsing" /\ op \in Arithmetic
      /\ \A i \in Nat : Register(Operand(i)) \in Registers
  BY <1>1, AtTyped
<1>3. SrcCount(op) \in 0..3 /\ op \in DOMAIN Encoding /\ dsts \in 0..1 /\ n \in 0..4
  <2> HIDE DEF op
  <2> QED BY <1>2, SrcCountTyped
<1>4. \/ Fail
      \/ /\ ~(Len(prog.insts) >= MaxInstructions)
         /\ ~ \E i \in 1..n : ~InRange(reg[i])
         /\ Continue(Tracked(p, inst), place[n + 1] - 1)
  BY Zenon DEF Regular
<1>5. CASE /\ ~(Len(prog.insts) >= MaxInstructions)
           /\ ~ \E i \in 1..n : ~InRange(reg[i])
           /\ Continue(Tracked(p, inst), place[n + 1] - 1)
  <2>1. n \in Nat /\ n + 1 \in 1..(n + 1)
    <3> HIDE DEF n
    <3> QED BY <1>3
  <2>2. \A i \in 1..(n + 1) : place[i] \in Nat /\ place[i] >= i
    <3> HIDE DEF n
    <3> QED BY <2>1, PlacesTyped
  <2>3. place[n + 1] - 1 \in Nat
    <3> HIDE DEF place, n
    <3>1. place[n + 1] \in Nat /\ place[n + 1] >= n + 1
      BY <2>1, <2>2
    <3> QED BY <2>1, <3>1
  <2>4. reg \in [1..n -> Registers]
    <3> HIDE DEF place, n
    <3>1. \A i \in 1..n : place[i] \in Nat
      BY <2>1, <2>2
    <3> QED BY <1>2, <3>1
  <2>5. /\ src \in Seq(Registers) /\ Len(src) = SrcCount(op)
        /\ \A i \in 1..SrcCount(op) : src[i] = reg[dsts + i]
    <3> DEFINE m == SrcCount(op)
    <3>1. m \in Nat /\ n = dsts + m
      BY <1>3
    <3> HIDE DEF reg, dsts, m, n
    <3>2. reg \in [1..(dsts + m) -> Registers] /\ src = SubSeq(reg, dsts + 1, dsts + m)
      BY <2>4, <3>1
    <3> HIDE DEF src
    <3>3. src \in Seq(Registers) /\ Len(src) = m /\ \A i \in 1..m : src[i] = reg[dsts + i]
      BY <1>3, <3>1, <3>2, Split
    <3> QED BY <3>3 DEF m
  <2>6. \A i \in 1..n : InRange(reg[i])
    <3> HIDE DEF reg, n
    <3> QED BY <1>5, Zenon
  <2>7. dst \in Registers /\ InRange(dst)
    <3>1. CASE HasDst(op)
      <4>1. 1 \in 1..n
        BY <1>3, <3>1
      <4>2. reg[1] \in Registers /\ InRange(reg[1])
        <5> HIDE DEF reg, n
        <5> QED BY <2>4, <2>6, <4>1
      <4> HIDE DEF reg
      <4> QED BY <3>1, <4>2
    <3>2. CASE ~HasDst(op)
      BY <3>2, NoRegisterInRange
    <3> QED BY <3>1, <3>2
  <2>8. \A i \in DOMAIN src : InRange(src[i])
    <3>1. \A i \in 1..SrcCount(op) : dsts + i \in 1..n
      <4> DEFINE m == SrcCount(op)
      <4> HIDE DEF m, dsts
      <4>1. \A i \in 1..m : dsts + i \in 1..(dsts + m)
        BY <1>3 DEF m
      <4> QED BY <4>1 DEF m
    <3>2. DOMAIN src = 1..SrcCount(op)
      <4> HIDE DEF src
      <4> QED BY <2>5
    <3> HIDE DEF src, reg, n, dsts
    <3> QED BY <2>5, <2>6, <3>1, <3>2
  <2>9. inst \in Instructions /\ inst.dst = dst /\ inst.src = src
    <3> HIDE DEF dst, src, op
    <3> QED BY <1>2, <1>3, <2>5, <2>7 DEF Instruction, Instructions
  <2>10. Made(inst)
    <3> HIDE DEF dst, src, inst
    <3>1. inst.op = op
      BY Zenon DEF inst, Instruction
    <3> HIDE DEF op
    <3> QED BY <1>2, <2>7, <2>8, <2>9, <3>1 DEF Made
  <2>11. p = WithInst(inst)
    BY Zenon DEF WithInst
  <2> HIDE DEF p, inst, place, n, reg
  <2>12. Continue(Tracked(WithInst(inst), inst), place[n + 1] - 1)
    BY <1>5, <2>11, Zenon
  <2> DEFINE m == place[n + 1] - 1
  <2>13. m \in Nat /\ Continue(Tracked(WithInst(inst), inst), m)
    BY <2>3, <2>12
  <2> HIDE DEF m
  <2>14. ~(Len(prog.insts) >= MaxInstructions)
    BY <1>5, Zenon
  <2> QED BY <2>10, <2>13, <2>14, Zenon
<1> HIDE DEF p, inst, place, n, reg
<1> QED BY <1>4, <1>5, Zenon

LEMMA WithInstTyped ==
    ASSUME ParseType, NEW inst \in Instructions
    PROVE  /\ WithInst(inst) \in Programs
           /\ WithInst(inst).insts = Append(prog.insts, inst)
           /\ WithInst(inst).dcls = prog.dcls /\ WithInst(inst).defs = prog.defs
           /\ WithInst(inst).samplers = prog.samplers
           /\ Len(Append(prog.insts, inst)) = Len(prog.insts) + 1
           /\ Len(prog.insts) \in Nat
<1>1. prog \in Programs
  BY DEF ParseType
<1>2. /\ Append(prog.insts, inst) \in InstSeqs /\ Len(prog.insts) \in Nat
      /\ Len(Append(prog.insts, inst)) = Len(prog.insts) + 1
  BY SMTT(30), <1>1 DEF Programs, InstSeqs
<1> DEFINE insts == Append(prog.insts, inst)
           p == WithInst(inst)
<1>3. p = [prog EXCEPT !.insts = insts]
  BY Zenon DEF WithInst
<1>4. insts \in InstSeqs
  BY <1>2
<1> HIDE DEF insts, p
<1>5. p \in Programs /\ p.insts = insts /\ p.dcls = prog.dcls /\ p.defs = prog.defs
      /\ p.samplers = prog.samplers
  BY SMTT(30), <1>1, <1>3, <1>4 DEF Programs
<1> QED BY <1>2, <1>5 DEF insts, p

LEMMA RegularType ==
    ASSUME ParseType, Regular
    PROVE  ParseType'
<1>1. CASE Fail
  BY <1>1, FailType
<1>2. CASE /\ ~(Len(prog.insts) >= MaxInstructions)
           /\ \E inst : \E n \in Nat :
                Made(inst) /\ Continue(Tracked(WithInst(inst), inst), n)
  <2>0. PICK inst : \E n \in Nat :
          Made(inst) /\ Continue(Tracked(WithInst(inst), inst), n)
    BY <1>2
  <2>1. PICK n \in Nat : Made(inst) /\ Continue(Tracked(WithInst(inst), inst), n)
    BY <2>0
  <2>2. inst \in Instructions /\ InRange(inst.dst)
        /\ \A i \in DOMAIN inst.src : InRange(inst.src[i])
    BY <2>1 DEF Made
  <2>3. /\ WithInst(inst) \in Programs
        /\ WithInst(inst).insts = Append(prog.insts, inst)
        /\ WithInst(inst).dcls = prog.dcls /\ WithInst(inst).defs = prog.defs
        /\ WithInst(inst).samplers = prog.samplers
        /\ Len(Append(prog.insts, inst)) = Len(prog.insts) + 1
        /\ Len(prog.insts) \in Nat
    BY <2>2, WithInstTyped
  <2> DEFINE p == WithInst(inst)
             q == Tracked(p, inst)
  <2>4. q \in Programs /\ q.insts = p.insts /\ q.dcls = p.dcls /\ q.defs = p.defs
        /\ \E T \in BitSets : q.samplers = p.samplers \cup T
    BY <2>2, <2>3, TrackedTyped
  <2>5. Fit(prog) /\ status = "parsing"
    BY AtTyped DEF ParseType, Regular
  <2> HIDE DEF p, q
  <2>6. Len(q.insts) <= MaxInstructions
    BY <1>2, <2>3, <2>4, LimitsAssumption DEF p
  <2>7. Fit(q)
    <3>1. Known(prog.samplers, prog.dcls)
      BY <2>5 DEF Fit
    <3>2. p.samplers = prog.samplers /\ p.dcls = prog.dcls /\ p.defs = prog.defs
      BY <2>3 DEF p
    <3>3. PICK T \in BitSets : q.samplers = p.samplers \cup T
      BY <2>4
    <3>4. Known(prog.samplers \cup T, prog.dcls)
      BY <3>1, KnownMore
    <3>5. Known(q.samplers, q.dcls)
      BY <2>4, <3>2, <3>3, <3>4, Zenon
    <3> QED BY <2>4, <2>5, <2>6, <3>2, <3>5 DEF Fit
  <2>8. Continue(q, n)
    BY <2>1 DEF p, q
  <2> QED BY <2>4, <2>5, <2>7, <2>8, ContinueType
<1> QED BY <1>1, <1>2, RegularMakes

LEMMA ParseStepType ==
    ASSUME ParseType, Parse
    PROVE  ParseType'
<1>1. CASE ReadVersion
  <2>1. shader \in Shaders
    BY DEF ParseType
  <2>2. EmptyProgram(shader.type, shader.major) \in Programs
        /\ Fit(EmptyProgram(shader.type, shader.major))
    BY <2>1, ShadersTyped, EmptyTyped
  <2>3. CASE Fail
    BY <2>3, FailType
  <2>4. CASE /\ prog' = EmptyProgram(shader.type, shader.major)
             /\ pos' = 2 /\ status' = "parsing" /\ UNCHANGED shader
    <3> DEFINE e == EmptyProgram(shader.type, shader.major)
    <3> HIDE DEF e
    <3>1. prog' = e /\ e \in Programs /\ Fit(e)
      BY <2>2, <2>4 DEF e
    <3>2. Fit(prog')
      BY <3>1
    <3> QED BY <2>1, <2>4, <3>1, <3>2 DEF ParseType, Statuses, Fit, Known
  <2> QED BY <1>1, <2>3, <2>4 DEF ReadVersion
<1>2. CASE End
  <2> DEFINE c == IF prog.type = "ps" /\ prog.colors = 0 THEN 1 ELSE prog.colors
             p == [prog EXCEPT !.colors = c]
  <2>1. prog \in Programs /\ Fit(prog)
    BY DEF ParseType
  <2>2. c \in 0..32
    BY SMTT(30), <2>1 DEF Programs
  <2>3. prog' = p /\ status' = "parsed" /\ UNCHANGED <<shader, pos>>
    BY <1>2 DEF End
  <2> HIDE DEF c
  <2>4. p \in Programs /\ p.insts = prog.insts /\ p.dcls = prog.dcls /\ p.defs = prog.defs
        /\ p.samplers = prog.samplers
    BY SMTT(30), <2>1, <2>2 DEF Programs
  <2> HIDE DEF p
  <2> QED BY <2>1, <2>3, <2>4 DEF ParseType, Fit, Known, Statuses
<1>3. CASE Comment
  BY <1>3, CommentType
<1>4. CASE Dcl
  BY <1>4, DclType
<1>5. CASE Def
  BY <1>5, DefinitionType
<1>6. CASE Compare \/ Test \/ Mark
  BY <1>6, ControlType DEF Compare, Test, Mark
<1>7. CASE Regular
  BY <1>7, RegularType
<1>8. CASE Unknown \/ MissingEnd
  BY <1>8, FailType DEF Unknown, MissingEnd
<1> QED BY <1>1, <1>2, <1>3, <1>4, <1>5, <1>6, <1>7, <1>8 DEF Parse

-----------------------------------------------------------------------------
\* The lines written.
\* s has x for those entries of q that c holds for.
Selected(s, q, c, x) ==
  s = FlattenSeq([i \in DOMAIN q |-> When(c[q[i]], x[q[i]])])

LEMMA SelectedRange ==
    ASSUME NEW D, NEW q \in Seq(D), NEW c \in [D -> BOOLEAN], NEW x, NEW s,
           Selected(s, q, c, x)
    PROVE  IsSeq(s) /\ ToSet(s) = {x[d] : d \in {e \in ToSet(q) : c[e]}}
<1> DEFINE n == Len(q)
           b == [i \in 1..n |-> c[q[i]]]
           y == [i \in 1..n |-> x[q[i]]]
<1>1. n \in Nat /\ DOMAIN q = 1..n /\ \A i \in 1..n : q[i] \in D
  OBVIOUS
<1>2. [i \in DOMAIN q |-> When(c[q[i]], x[q[i]])] = [i \in 1..n |-> When(b[i], y[i])]
  <2> HIDE DEF n
  <2> QED BY <1>1
<1>3. b \in [1..n -> BOOLEAN]
  <2> HIDE DEF n
  <2> QED BY <1>1
<1>4. IsSeq(s) /\ ToSet(s) = {y[i] : i \in {j \in 1..n : b[j]}}
  <2> HIDE DEF n, b, y
  <2>1. Chosen(s, n, b, y)
    BY <1>2 DEF Selected, Chosen
  <2> QED BY <1>1, <1>3, <2>1, ChosenRange
<1>5. {y[i] : i \in {j \in 1..n : b[j]}} = {x[d] : d \in {e \in ToSet(q) : c[e]}}
  <2>1. ToSet(q) = {q[i] : i \in 1..n}
    BY <1>1 DEF ToSet
  <2>2. \A i \in 1..n : q[i] \in ToSet(q) /\ y[i] = x[q[i]] /\ b[i] = c[q[i]]
    BY <1>1 DEF ToSet
  <2> HIDE DEF n, y, b
  <2>3. \A d \in ToSet(q) : \E i \in 1..n : q[i] = d
    BY <2>1, Zenon
  <2> DEFINE Y == {y[i] : i \in {j \in 1..n : b[j]}}
             X == {x[d] : d \in {e \in ToSet(q) : c[e]}}
  <2>4. ASSUME NEW v \in Y PROVE v \in X
    <3>1. PICK i \in 1..n : b[i] /\ v = y[i]
      BY <2>4, Zenon
    <3>2. q[i] \in ToSet(q) /\ c[q[i]] /\ v = x[q[i]]
      BY <2>2, <3>1, Zenon
    <3> QED BY <3>2, Zenon
  <2>5. ASSUME NEW v \in X PROVE v \in Y
    <3>1. PICK d \in ToSet(q) : c[d] /\ v = x[d]
      BY <2>5, Zenon
    <3>2. PICK i \in 1..n : q[i] = d
      BY <2>3, Zenon
    <3>3. b[i] /\ v = y[i]
      BY <2>2, <3>1, <3>2, Zenon
    <3> QED BY <3>3, Zenon
  <2> HIDE DEF X, Y
  <2>6. Y = X
    BY <2>4, <2>5
  <2> QED BY <2>6 DEF X, Y
<1> QED BY <1>4, <1>5

\* The attributes of a vertex shader: one for each input with a mapped meaning.
Mapped(d) == AttributeIndex(d.usage, d.index) # Unmapped
Attribute(d) ==
  Declared(<<"in.v", d.reg.number>>, <<AttributeIndex(d.usage, d.index)>>)

LEMMA VsInputsAre ==
    ASSUME NEW p \in Programs
    PROVE  /\ IsSeq(VsInputs(p))
           /\ ToSet(VsInputs(p)) =
                {Attribute(d) : d \in {e \in ToSet(p.dcls) :
                                         e.reg.type = "input" /\ Mapped(e)}}
<1> DEFINE c == [d \in Dcls |-> d.reg.type = "input" /\ Mapped(d)]
           x == [d \in Dcls |-> Attribute(d)]
           q == p.dcls
<1>1. c \in [Dcls -> BOOLEAN]
  BY DEF Mapped
<1>2. q \in Seq(Dcls) /\ \A i \in DOMAIN q : q[i] \in Dcls
  BY DEF Programs, DclSeqs
<1>3. VsInputs(p) = FlattenSeq([i \in DOMAIN q |->
        When(q[i].reg.type = "input" /\ Mapped(q[i]), Attribute(q[i]))])
  BY Zenon DEF VsInputs, DeclareDcls, Mapped, Attribute
<1>4. \A d \in Dcls : /\ c[d] = (d.reg.type = "input" /\ Mapped(d))
                      /\ x[d] = Attribute(d)
  OBVIOUS
<1> HIDE DEF c, x, q
<1>5. Selected(VsInputs(p), q, c, x)
  BY <1>2, <1>3, <1>4 DEF Selected
<1> DEFINE s == VsInputs(p)
<1> HIDE DEF s
<1>6. IsSeq(s) /\ ToSet(s) = {x[d] : d \in {e \in ToSet(q) : c[e]}}
  BY <1>1, <1>2, <1>5, SelectedRange DEF s
<1>7. ToSet(q) \subseteq Dcls
  BY <1>2 DEF ToSet
<1> QED BY <1>4, <1>6, <1>7 DEF s, q

\* The same for the numbers below n that are in a set.
Numbered(s, n, numbers, x) ==
  s = FlattenSeq([i \in 1..n |-> When(i - 1 \in numbers, x[i - 1])])

LEMMA NumberedRange ==
    ASSUME NEW n \in Nat, NEW numbers, NEW x, NEW s, Numbered(s, n, numbers, x)
    PROVE  IsSeq(s) /\ ToSet(s) = {x[k] : k \in {m \in 0..(n - 1) : m \in numbers}}
<1> DEFINE b == [i \in 1..n |-> i - 1 \in numbers]
           y == [i \in 1..n |-> x[i - 1]]
<1>2. [i \in 1..n |-> When(i - 1 \in numbers, x[i - 1])]
        = [i \in 1..n |-> When(b[i], y[i])]
  OBVIOUS
<1>3. b \in [1..n -> BOOLEAN]
  OBVIOUS
<1>4. IsSeq(s) /\ ToSet(s) = {y[i] : i \in {j \in 1..n : b[j]}}
  <2> HIDE DEF b, y
  <2>1. Chosen(s, n, b, y)
    BY <1>2 DEF Numbered, Chosen
  <2> QED BY <1>3, <2>1, ChosenRange
<1>5. {y[i] : i \in {j \in 1..n : b[j]}} = {x[k] : k \in {m \in 0..(n - 1) : m \in numbers}}
  <2>1. ASSUME NEW z \in {y[i] : i \in {j \in 1..n : b[j]}}
        PROVE  z \in {x[k] : k \in {m \in 0..(n - 1) : m \in numbers}}
    <3>1. PICK i \in 1..n : b[i] /\ z = y[i]
      BY <2>1
    <3>2. i - 1 \in 0..(n - 1)
      OBVIOUS
    <3>3. b[i] = (i - 1 \in numbers) /\ y[i] = x[i - 1]
      OBVIOUS
    <3> HIDE DEF b, y
    <3> QED BY <3>1, <3>2, <3>3, Zenon
  <2>2. ASSUME NEW k \in 0..(n - 1), k \in numbers
        PROVE  x[k] \in {y[i] : i \in {j \in 1..n : b[j]}}
    <3>1. k + 1 \in 1..n /\ (k + 1) - 1 = k
      OBVIOUS
    <3>2. b[k + 1] /\ y[k + 1] = x[k]
      BY <2>2, <3>1
    <3> HIDE DEF b, y
    <3> QED BY <3>1, <3>2
  <2> HIDE DEF b, y
  <2> QED BY <2>1, <2>2
<1> QED BY <1>4, <1>5

\* x[d] is a declaration of a name that starts with a base, and so is each line.
Names(x, D, base) ==
  \A d \in D : x[d].text = "declare" /\ x[d].dst[1] = base /\ x[d].names = {}
DeclaresOnly(s, bases) ==
  /\ IsSeq(s)
  /\ \A l \in ToSet(s) : l.text = "declare" /\ l.dst[1] \in bases /\ l.names = {}

LEMMA SelectedNames ==
    ASSUME NEW p \in Programs, NEW c \in [Dcls -> BOOLEAN], NEW x, NEW base,
           Names(x, Dcls, base), NEW s, Selected(s, p.dcls, c, x)
    PROVE  DeclaresOnly(s, {base})
<1>1. p.dcls \in Seq(Dcls)
  BY DEF Programs, DclSeqs
<1>2. ToSet(p.dcls) \subseteq Dcls
  BY <1>1, IsSeqIf
<1>3. IsSeq(s) /\ ToSet(s) = {x[d] : d \in {e \in ToSet(p.dcls) : c[e]}}
  BY <1>1, SelectedRange
<1> QED BY <1>2, <1>3 DEF Names, DeclaresOnly

LEMMA NumberedNames ==
    ASSUME NEW n \in Nat, NEW numbers, NEW x, NEW base, Names(x, Nat, base),
           NEW s, Numbered(s, n, numbers, x)
    PROVE  DeclaresOnly(s, {base})
<1>1. IsSeq(s) /\ ToSet(s) = {x[k] : k \in {m \in 0..(n - 1) : m \in numbers}}
  BY NumberedRange
<1>2. 0..(n - 1) \subseteq Nat
  OBVIOUS
<1> QED BY <1>1, <1>2 DEF Names, DeclaresOnly

LEMMA ConcatNames ==
    ASSUME NEW s, NEW A, DeclaresOnly(s, A), NEW t, NEW B, DeclaresOnly(t, B)
    PROVE  DeclaresOnly(s \o t, A \cup B)
BY ConcatIsSeq DEF DeclaresOnly

LEMMA WhenNames ==
    ASSUME NEW condition, NEW base, NEW name, name[1] = base
    PROVE  DeclaresOnly(IF condition THEN <<Local(name)>> ELSE <<>>, {base})
<1> DEFINE x == Local(name)
<1>1. x.text = "declare" /\ x.dst = name /\ x.names = {}
  BY DEF Local, Declared
<1> HIDE DEF x
<1>2. DeclaresOnly(<<x>>, {base})
  BY <1>1, SingleIsSeq DEF DeclaresOnly
<1>3. DeclaresOnly(<<>>, {base})
  BY EmptyIsSeq DEF DeclaresOnly
<1> QED BY <1>2, <1>3 DEF x

\* A name that is declared by itself.
LEMMA LocalNames ==
    ASSUME NEW base, NEW n
    PROVE  DeclaresOnly(<<Local(<<base, n>>)>>, {base})
<1> DEFINE x == Local(<<base, n>>)
<1>1. x.text = "declare" /\ x.dst[1] = base /\ x.names = {}
  BY DEF Local, Declared
<1> HIDE DEF x
<1>2. DeclaresOnly(<<x>>, {base})
  BY <1>1, SingleIsSeq DEF DeclaresOnly
<1> QED BY <1>2 DEF x

\* Numbers of temporaries, and of colours.
LEMMA PlainNumbers ==
    ASSUME NEW base, NEW limit, limit + 1 \in Nat
    PROVE  DeclaresOnly(DeclareEach(base, limit, Nat, NoLink), {base})
<1> DEFINE x == [k \in Nat |-> Declared(<<base, k>>, <<>>)]
           n == limit + 1
           s == DeclareEach(base, limit, Nat, NoLink)
<1>1. Names(x, Nat, base)
  BY DEF Names, Declared
<1>2. s = FlattenSeq([i \in 1..n |-> When(i - 1 \in Nat, Declared(<<base, i - 1>>, <<>>))])
  BY DEF DeclareEach, NoLink
<1>3. \A i \in 1..n : i - 1 \in Nat /\ Declared(<<base, i - 1>>, <<>>) = x[i - 1]
  BY n \in Nat
<1> HIDE DEF x, n, s
<1>4. Numbered(s, n, Nat, x)
  BY <1>2, <1>3 DEF Numbered
<1> QED BY <1>1, <1>4, NumberedNames DEF n, s

\* Numbers that link a vertex shader with a pixel shader.
Linked(base, usage, limit, numbers) ==
  DeclareEach(base, limit, numbers, LAMBDA n : <<usage, n>>)

LEMMA LinkedNumbers ==
    ASSUME NEW base, NEW usage, NEW limit \in Nat, NEW numbers
    PROVE  DeclaresOnly(Linked(base, usage, limit, numbers), {base})
<1> DEFINE x == [k \in Nat |-> Declared(<<base, k>>, <<usage, k>>)]
           n == limit + 1
           s == Linked(base, usage, limit, numbers)
<1>0. n \in Nat
  OBVIOUS
<1>1. Names(x, Nat, base)
  BY DEF Names, Declared
<1>2. s = FlattenSeq([i \in 1..n |-> When(i - 1 \in numbers,
                                     Declared(<<base, i - 1>>, <<usage, i - 1>>))])
  BY DEF DeclareEach, Linked
<1>3. \A i \in 1..n : Declared(<<base, i - 1>>, <<usage, i - 1>>) = x[i - 1]
  <2>1. \A i \in 1..n : i - 1 \in Nat
    BY <1>0
  <2> HIDE DEF n
  <2> QED BY <2>1
<1> HIDE DEF x, n, s
<1>4. Numbered(s, n, numbers, x)
  BY <1>2, <1>3 DEF Numbered
<1> QED BY <1>0, <1>1, <1>4, NumberedNames DEF s

\* Temporaries, and the constants that the program defines.
LEMMA VariablesNames ==
    ASSUME NEW p \in Programs
    PROVE  DeclaresOnly(Variables(p), {"r", "c_def", "i", "b"})
<1>1. DeclaresOnly(DeclareEach("r", p.maxTemp, Nat, NoLink), {"r"})
  <2>1. p.maxTemp + 1 \in Nat
    BY DEF Programs
  <2> QED BY <2>1, PlainNumbers
<1> DEFINE base(d) == CASE d[1] = "const" -> "c_def" [] d[1] = "constint" -> "i"
                        [] d[1] = "constbool" -> "b"
           s == [i \in DOMAIN p.defs |-> Local(<<base(p.defs[i]), p.defs[i][2]>>)]
<1>2. DeclaresOnly(s, {"c_def", "i", "b"})
  <2>1. p.defs \in Seq(DefTypes \X Nat)
    BY DEF Programs, DefSeqs
  <2>2. /\ Len(p.defs) \in Nat /\ DOMAIN p.defs = 1..Len(p.defs)
        /\ \A i \in DOMAIN p.defs : p.defs[i] \in DefTypes \X Nat
    BY <2>1
  <2>3. \A i \in DOMAIN p.defs : base(p.defs[i]) \in {"c_def", "i", "b"}
    BY <2>2 DEF DefTypes
  <2>4. \A i \in DOMAIN p.defs :
          /\ s[i].text = "declare" /\ s[i].dst[1] \in {"c_def", "i", "b"}
          /\ s[i].names = {}
    BY <2>3 DEF Local, Declared
  <2>5. DOMAIN s = DOMAIN p.defs
    OBVIOUS
  <2>6. s \in Seq({s[i] : i \in DOMAIN s})
    <3> DEFINE m == Len(p.defs)
               S == {s[i] : i \in DOMAIN s}
    <3>1. m \in Nat /\ s \in [1..m -> S]
      BY <2>2, Zenon
    <3> HIDE DEF s, m, S
    <3>2. s \in Seq(S)
      BY <3>1
    <3> QED BY <3>2 DEF S
  <2> HIDE DEF s
  <2>7. ToSet(s) = {s[i] : i \in DOMAIN s}
    BY DEF ToSet
  <2>8. IsSeq(s)
    BY <2>6, <2>7 DEF IsSeq
  <2>9. \A l \in ToSet(s) :
          l.text = "declare" /\ l.dst[1] \in {"c_def", "i", "b"} /\ l.names = {}
    BY <2>4, <2>5, <2>7, Zenon
  <2> QED BY <2>8, <2>9 DEF DeclaresOnly
<1>3. Variables(p) = DeclareEach("r", p.maxTemp, Nat, NoLink) \o s
  BY DEF Variables
<1> DEFINE d == DeclareEach("r", p.maxTemp, Nat, NoLink)
<1> HIDE DEF s, d
<1>4. DeclaresOnly(d \o s, {"r"} \cup {"c_def", "i", "b"})
  BY <1>1, <1>2, ConcatNames DEF d
<1>5. {"r"} \cup {"c_def", "i", "b"} = {"r", "c_def", "i", "b"}
  OBVIOUS
<1> QED BY <1>3, <1>4, <1>5 DEF d

\* Declarations that become a line each.
DeclaredAs(s, q, type, test, base, link) ==
  s = FlattenSeq([i \in DOMAIN q |->
        When(q[i].reg.type = type /\ test[q[i]],
             Declared(<<base, q[i].reg.number>>, link[q[i]]))])

LEMMA DclNames ==
    ASSUME NEW p \in Programs, NEW type, NEW test \in [Dcls -> BOOLEAN], NEW base,
           NEW link, NEW s, DeclaredAs(s, p.dcls, type, test, base, link)
    PROVE  DeclaresOnly(s, {base})
<1> DEFINE c == [d \in Dcls |-> d.reg.type = type /\ test[d]]
           x == [d \in Dcls |-> Declared(<<base, d.reg.number>>, link[d])]
           q == p.dcls
<1>1. c \in [Dcls -> BOOLEAN]
  OBVIOUS
<1>2. Names(x, Dcls, base)
  BY DEF Names, Declared
<1>3. \A i \in DOMAIN q : q[i] \in Dcls
  BY DEF Programs, DclSeqs
<1>4. \A i \in DOMAIN q :
        /\ c[q[i]] = (q[i].reg.type = type /\ test[q[i]])
        /\ x[q[i]] = Declared(<<base, q[i].reg.number>>, link[q[i]])
  BY <1>3, Zenon
<1> HIDE DEF c, x, q
<1>5. Selected(s, q, c, x)
  BY <1>4 DEF Selected, DeclaredAs, q
<1> QED BY <1>1, <1>2, <1>5, SelectedNames DEF q

\* The outputs of a vertex shader.
LEMMA VsOutputsNames ==
    ASSUME NEW p \in Programs
    PROVE  DeclaresOnly(VsOutputs(p),
             {"out.position", "out.o", "out.oD", "out.oT", "out.fog"})
<1> DEFINE first == <<Local(<<"out.position", 0>>)>>
           last == IF p.fog THEN <<Local(<<"out.fog", 0>>)>> ELSE <<>>
           new == DeclareDcls(p, "output", LAMBDA d : ~IsPosition(d), "out.o", UserName)
           old == Linked("out.oD", "color", 1, p.attrouts)
                  \o Linked("out.oT", "texcoord", 7, p.outputs)
           middle == IF p.major >= 3 THEN new ELSE old
<1>1. VsOutputs(p) = first \o middle \o last
  BY DEF VsOutputs, Linked
<1>2. DeclaresOnly(first, {"out.position"})
  BY LocalNames
<1>3. DeclaresOnly(last, {"out.fog"})
  <2>1. DeclaresOnly(<<Local(<<"out.fog", 0>>)>>, {"out.fog"})
    BY LocalNames
  <2>2. DeclaresOnly(<<>>, {"out.fog"})
    BY EmptyIsSeq DEF DeclaresOnly
  <2> QED BY <2>1, <2>2, Zenon
<1>4. DeclaresOnly(new, {"out.o"})
  <2> DEFINE test == [d \in Dcls |-> ~IsPosition(d)]
             link == [d \in Dcls |-> UserName(d)]
             q == p.dcls
  <2>1. test \in [Dcls -> BOOLEAN]
    BY DEF IsPosition
  <2>2. \A i \in DOMAIN q : q[i] \in Dcls
    BY DEF Programs, DclSeqs
  <2>3. \A i \in DOMAIN q : test[q[i]] = ~IsPosition(q[i]) /\ link[q[i]] = UserName(q[i])
    BY <2>2, Zenon
  <2>4. new = FlattenSeq([i \in DOMAIN q |->
           When(q[i].reg.type = "output" /\ ~IsPosition(q[i]),
                Declared(<<"out.o", q[i].reg.number>>, UserName(q[i])))])
    BY Zenon DEF DeclareDcls
  <2> HIDE DEF new, test, link, q
  <2>5. DeclaredAs(new, q, "output", test, "out.o", link)
    BY <2>3, <2>4 DEF DeclaredAs
  <2> QED BY <2>1, <2>5, DclNames DEF q
<1>5. DeclaresOnly(old, {"out.oD"} \cup {"out.oT"})
  BY LinkedNumbers, ConcatNames
<1> DEFINE A == {"out.position", "out.o", "out.oD", "out.oT", "out.fog"}
<1>6. DeclaresOnly(first, A) /\ DeclaresOnly(middle, A) /\ DeclaresOnly(last, A)
  <2> HIDE DEF first, new, old, last
  <2> QED BY <1>2, <1>3, <1>4, <1>5 DEF DeclaresOnly
<1>7. A \cup A = A
  OBVIOUS
<1> HIDE DEF first, middle, last, A
<1>8. DeclaresOnly(first \o middle, A)
  BY <1>6, <1>7, ConcatNames
<1>9. DeclaresOnly(first \o middle \o last, A)
  BY <1>6, <1>7, <1>8, ConcatNames
<1> QED BY <1>1, <1>9 DEF A

\* Declarations of one kind, each linked to a number or to nothing.
LEMMA PlainDcls ==
    ASSUME NEW p \in Programs, NEW type, NEW base, NEW link,
           NEW s, DeclaredAs(s, p.dcls, type, [d \in Dcls |-> TRUE], base, link)
    PROVE  DeclaresOnly(s, {base})
<1> DEFINE test == [d \in Dcls |-> TRUE]
<1>1. test \in [Dcls -> BOOLEAN]
  OBVIOUS
<1> HIDE DEF test
<1>2. DeclaredAs(s, p.dcls, type, test, base, link)
  BY DEF test
<1> QED BY <1>1, <1>2, DclNames

\* The inputs of a pixel shader, and its textures.
LEMMA PsDclsNames ==
    ASSUME NEW p \in Programs
    PROVE  /\ DeclaresOnly(DeclareDcls(p, "input", Every, "in.v", UserName), {"in.v"})
           /\ DeclaresOnly(DeclareDcls(p, "input", Every, "in.v",
                             LAMBDA d : <<"color", d.reg.number>>), {"in.v"})
           /\ DeclaresOnly(DeclareDcls(p, "addr", Every, "in.t",
                             LAMBDA d : <<"texcoord", d.reg.number>>), {"in.t"})
           /\ DeclaresOnly(DeclareDcls(p, "sampler", Every, "tex", NoLink), {"tex"})
<1> DEFINE test == [d \in Dcls |-> TRUE]
           user == [d \in Dcls |-> UserName(d)]
           color == [d \in Dcls |-> <<"color", d.reg.number>>]
           coord == [d \in Dcls |-> <<"texcoord", d.reg.number>>]
           none == [d \in Dcls |-> <<>>]
           q == p.dcls
           a == DeclareDcls(p, "input", Every, "in.v", UserName)
           b == DeclareDcls(p, "input", Every, "in.v",
                            LAMBDA d : <<"color", d.reg.number>>)
           c == DeclareDcls(p, "addr", Every, "in.t",
                            LAMBDA d : <<"texcoord", d.reg.number>>)
           e == DeclareDcls(p, "sampler", Every, "tex", NoLink)
<1>1. \A i \in DOMAIN q : q[i] \in Dcls
  BY DEF Programs, DclSeqs
<1>2. \A i \in DOMAIN q : /\ test[q[i]] = TRUE /\ user[q[i]] = UserName(q[i])
                          /\ color[q[i]] = <<"color", q[i].reg.number>>
                          /\ coord[q[i]] = <<"texcoord", q[i].reg.number>>
                          /\ none[q[i]] = <<>>
  BY <1>1, Zenon
<1>3. /\ a = FlattenSeq([i \in DOMAIN q |->
               When(q[i].reg.type = "input" /\ TRUE,
                    Declared(<<"in.v", q[i].reg.number>>, UserName(q[i])))])
      /\ b = FlattenSeq([i \in DOMAIN q |->
               When(q[i].reg.type = "input" /\ TRUE,
                    Declared(<<"in.v", q[i].reg.number>>, <<"color", q[i].reg.number>>))])
      /\ c = FlattenSeq([i \in DOMAIN q |->
               When(q[i].reg.type = "addr" /\ TRUE,
                    Declared(<<"in.t", q[i].reg.number>>, <<"texcoord", q[i].reg.number>>))])
      /\ e = FlattenSeq([i \in DOMAIN q |->
               When(q[i].reg.type = "sampler" /\ TRUE,
                    Declared(<<"tex", q[i].reg.number>>, <<>>))])
  BY Zenon DEF DeclareDcls, Every, NoLink
<1> HIDE DEF a, b, c, e, test, user, color, coord, none, q
<1>4. DeclaredAs(a, q, "input", test, "in.v", user)
  BY <1>2, <1>3 DEF DeclaredAs
<1>5. DeclaredAs(b, q, "input", test, "in.v", color)
  BY <1>2, <1>3 DEF DeclaredAs
<1>6. DeclaredAs(c, q, "addr", test, "in.t", coord)
  BY <1>2, <1>3 DEF DeclaredAs
<1>7. DeclaredAs(e, q, "sampler", test, "tex", none)
  BY <1>2, <1>3 DEF DeclaredAs
<1>8. test \in [Dcls -> BOOLEAN]
  BY DEF test
<1>9. /\ DeclaresOnly(a, {"in.v"}) /\ DeclaresOnly(b, {"in.v"})
      /\ DeclaresOnly(c, {"in.t"}) /\ DeclaresOnly(e, {"tex"})
  BY <1>4, <1>5, <1>6, <1>7, <1>8, DclNames DEF q
<1> QED BY <1>9 DEF a, b, c, e

PsNames ==
  {"in.position", "in.v", "in.t", "in.front_facing", "tex", "r", "c_def", "i", "b",
   "oC", "oDepth"}

LEMMA PsDeclarationsNames ==
    ASSUME NEW p \in Programs
    PROVE  DeclaresOnly(PsDeclarations(p), PsNames)
<1> DEFINE front == \E i \in DOMAIN p.dcls : /\ p.dcls[i].reg.type = "misctype"
                                            /\ p.dcls[i].reg.number = 1
           s1 == <<Local(<<"in.position", 0>>)>>
           s2 == DeclareDcls(p, "input", Every, "in.v", UserName)
           s3 == DeclareDcls(p, "input", Every, "in.v",
                             LAMBDA d : <<"color", d.reg.number>>)
           s4 == DeclareDcls(p, "addr", Every, "in.t",
                             LAMBDA d : <<"texcoord", d.reg.number>>)
           new == p.major >= 3
           s5 == IF new THEN s2 ELSE s3 \o s4
           s6 == IF front THEN <<Local(<<"in.front_facing", 0>>)>> ELSE <<>>
           s7 == DeclareDcls(p, "sampler", Every, "tex", NoLink)
           s8 == DeclareEach("oC", p.colors - 1, Nat, NoLink)
           s9 == IF p.depth THEN <<Local(<<"oDepth", 0>>)>> ELSE <<>>
           A == PsNames
<1>1. PsDeclarations(p) = s1 \o s5 \o s6 \o s7 \o Variables(p) \o s8 \o s9
  BY Zenon DEF PsDeclarations, PsInputs
<1>2. DeclaresOnly(s1, A)
  <2>1. DeclaresOnly(s1, {"in.position"})
    BY LocalNames
  <2> QED BY <2>1 DEF DeclaresOnly, PsNames
<1>3. /\ DeclaresOnly(s2, {"in.v"}) /\ DeclaresOnly(s3, {"in.v"})
      /\ DeclaresOnly(s4, {"in.t"}) /\ DeclaresOnly(s7, {"tex"})
  BY PsDclsNames
<1>4. DeclaresOnly(<<>>, A)
  BY EmptyIsSeq DEF DeclaresOnly
<1>5. DeclaresOnly(s5, A)
  <2> HIDE DEF s2, s3, s4, new
  <2>1. DeclaresOnly(s3 \o s4, {"in.v"} \cup {"in.t"})
    BY <1>3, ConcatNames
  <2> DEFINE s34 == s3 \o s4
  <2> HIDE DEF s34
  <2>2. DeclaresOnly(s34, A) /\ DeclaresOnly(s2, A)
    BY <1>3, <2>1 DEF DeclaresOnly, PsNames, s34
  <2> QED BY <2>2, Zenon DEF s34
<1>6. DeclaresOnly(s6, A)
  <2>1. DeclaresOnly(<<Local(<<"in.front_facing", 0>>)>>, {"in.front_facing"})
    BY LocalNames
  <2>2. DeclaresOnly(<<Local(<<"in.front_facing", 0>>)>>, A)
    BY <2>1 DEF DeclaresOnly, PsNames
  <2> QED BY <1>4, <2>2, Zenon
<1>7. DeclaresOnly(s7, A)
  <2> HIDE DEF s7
  <2> QED BY <1>3 DEF DeclaresOnly, PsNames
<1>8. DeclaresOnly(s8, A)
  <2>1. (p.colors - 1) + 1 \in Nat
    BY DEF Programs
  <2>2. DeclaresOnly(s8, {"oC"})
    BY <2>1, PlainNumbers
  <2> HIDE DEF s8
  <2> QED BY <2>2 DEF DeclaresOnly, PsNames
<1>9. DeclaresOnly(s9, A)
  <2>1. DeclaresOnly(<<Local(<<"oDepth", 0>>)>>, {"oDepth"})
    BY LocalNames
  <2>2. DeclaresOnly(<<Local(<<"oDepth", 0>>)>>, A)
    BY <2>1 DEF DeclaresOnly, PsNames
  <2> QED BY <1>4, <2>2, Zenon
<1> DEFINE v == Variables(p)
<1>10. DeclaresOnly(v, A)
  BY VariablesNames DEF DeclaresOnly, PsNames
<1>11. A \cup A = A
  OBVIOUS
<1> HIDE DEF s1, s5, s6, s7, s8, s9, v, A
<1>12. DeclaresOnly(s1 \o s5, A)
  BY <1>2, <1>5, <1>11, ConcatNames
<1>13. DeclaresOnly(s1 \o s5 \o s6, A)
  BY <1>6, <1>11, <1>12, ConcatNames
<1>14. DeclaresOnly(s1 \o s5 \o s6 \o s7, A)
  BY <1>7, <1>11, <1>13, ConcatNames
<1>15. DeclaresOnly(s1 \o s5 \o s6 \o s7 \o v, A)
  BY <1>10, <1>11, <1>14, ConcatNames
<1>16. DeclaresOnly(s1 \o s5 \o s6 \o s7 \o v \o s8, A)
  BY <1>8, <1>11, <1>15, ConcatNames
<1>17. DeclaresOnly(s1 \o s5 \o s6 \o s7 \o v \o s8 \o s9, A)
  BY <1>9, <1>11, <1>16, ConcatNames
<1> QED BY <1>1, <1>17 DEF v, A

\* What a vertex shader declares besides its inputs.
VsRest(p) ==
  VsOutputs(p) \o Variables(p) \o
  (IF UsesAddress(p) THEN <<Local(<<"a", 0>>)>> ELSE <<>>)
VsNames ==
  {"out.position", "out.o", "out.oD", "out.oT", "out.fog", "r", "c_def", "i", "b", "a"}

LEMMA VsRestNames ==
    ASSUME NEW p \in Programs
    PROVE  DeclaresOnly(VsRest(p), VsNames)
<1> DEFINE uses == UsesAddress(p)
           s == IF uses THEN <<Local(<<"a", 0>>)>> ELSE <<>>
           A == VsNames
           o == VsOutputs(p)
           v == Variables(p)
<1>1. VsRest(p) = o \o v \o s
  BY DEF VsRest
<1>2. DeclaresOnly(s, A)
  <2>1. DeclaresOnly(<<Local(<<"a", 0>>)>>, {"a"})
    BY LocalNames
  <2>2. DeclaresOnly(<<Local(<<"a", 0>>)>>, A)
    BY <2>1 DEF DeclaresOnly, VsNames
  <2>3. DeclaresOnly(<<>>, A)
    BY EmptyIsSeq DEF DeclaresOnly
  <2> QED BY <2>2, <2>3, Zenon
<1>3. DeclaresOnly(o, A)
  BY VsOutputsNames DEF DeclaresOnly, VsNames
<1>4. DeclaresOnly(v, A)
  BY VariablesNames DEF DeclaresOnly, VsNames
<1>5. A \cup A = A
  OBVIOUS
<1> HIDE DEF s, o, v, A
<1>6. DeclaresOnly(o \o v, A)
  BY <1>3, <1>4, <1>5, ConcatNames
<1>7. DeclaresOnly(o \o v \o s, A)
  BY <1>2, <1>5, <1>6, ConcatNames
<1> QED BY <1>1, <1>7 DEF A

LEMMA DeclarationsAre ==
    ASSUME NEW p \in Programs
    PROVE  /\ IsSeq(Declarations(p))
           /\ IsVs(p) => ToSet(Declarations(p)) = ToSet(VsInputs(p)) \cup ToSet(VsRest(p))
<1> DEFINE uses == UsesAddress(p)
           s == IF uses THEN <<Local(<<"a", 0>>)>> ELSE <<>>
           v == Variables(p)
           o == VsOutputs(p)
           in == VsInputs(p)
<1>1. CASE IsVs(p)
  <2>1. Declarations(p) = in \o o \o v \o s /\ VsRest(p) = o \o v \o s
    BY <1>1 DEF Declarations, VsDeclarations, VsRest
  <2>2. IsSeq(in) /\ IsSeq(o) /\ IsSeq(v)
    BY VsInputsAre, VsOutputsNames, VariablesNames DEF DeclaresOnly
  <2>3. IsSeq(s)
    <3>1. IsSeq(<<Local(<<"a", 0>>)>>) /\ IsSeq(<<>>)
      BY SingleIsSeq, EmptyIsSeq
    <3> QED BY <3>1, Zenon
  <2> HIDE DEF in, o, v, s
  <2>4. IsSeq(in \o o) /\ ToSet(in \o o) = ToSet(in) \cup ToSet(o)
    BY <2>2, ConcatIsSeq
  <2>5. IsSeq(in \o o \o v) /\ ToSet(in \o o \o v) = ToSet(in) \cup ToSet(o) \cup ToSet(v)
    BY <2>2, <2>4, ConcatIsSeq
  <2>6. /\ IsSeq(in \o o \o v \o s)
        /\ ToSet(in \o o \o v \o s) = ToSet(in) \cup ToSet(o) \cup ToSet(v) \cup ToSet(s)
    BY <2>3, <2>5, ConcatIsSeq
  <2>7. IsSeq(o \o v) /\ ToSet(o \o v) = ToSet(o) \cup ToSet(v)
    BY <2>2, ConcatIsSeq
  <2>8. ToSet(o \o v \o s) = ToSet(o) \cup ToSet(v) \cup ToSet(s)
    BY <2>3, <2>7, ConcatIsSeq
  <2>9. IsSeq(Declarations(p))
    BY <2>1, <2>6
  <2>10. ToSet(Declarations(p)) = ToSet(in) \cup ToSet(VsRest(p))
    BY <2>1, <2>6, <2>8
  <2> QED BY <2>9, <2>10 DEF in
<1>2. CASE ~IsVs(p)
  <2>1. Declarations(p) = PsDeclarations(p)
    BY <1>2 DEF Declarations
  <2> QED BY <1>2, <2>1, PsDeclarationsNames DEF DeclaresOnly
<1> QED BY <1>1, <1>2

LEMMA DeclarationsDeclare ==
    ASSUME NEW p \in Programs
    PROVE  \A l \in ToSet(Declarations(p)) : l.text = "declare"
<1>1. CASE IsVs(p)
  <2>1. ToSet(Declarations(p)) = ToSet(VsInputs(p)) \cup ToSet(VsRest(p))
    BY <1>1, DeclarationsAre
  <2>2. \A l \in ToSet(VsRest(p)) : l.text = "declare"
    BY VsRestNames DEF DeclaresOnly
  <2>3. ASSUME NEW l \in ToSet(VsInputs(p)) PROVE l.text = "declare"
    <3>1. PICK d : l = Attribute(d)
      BY <2>3, VsInputsAre
    <3> QED BY <3>1 DEF Attribute, Declared
  <2> QED BY <2>1, <2>2, <2>3
<1>2. CASE ~IsVs(p)
  <2>1. Declarations(p) = PsDeclarations(p)
    BY <1>2 DEF Declarations
  <2> QED BY <1>2, <2>1, PsDeclarationsNames DEF DeclaresOnly
<1> QED BY <1>1, <1>2

-----------------------------------------------------------------------------
\* The statements.

Texts == {"assign", "{", "}", "} else {", "discard", "break", "_d", "_s", "operand",
          "unclosed"}
Closed == Texts \ {"unclosed"}
StatesOnly(s) == IsSeq(s) /\ \A l \in ToSet(s) : l.text \in Texts
Opens(s) == \E l \in ToSet(s) : l.text = "unclosed"

\* Cut, of any program.
CutIn(p, inst) == inst.op \in Matrices \cup {"lit"} /\ TooLong(p, inst.src[1])

LEMMA TextsOfLines ==
    /\ \A p, inst, value : Assignment(p, inst, value).text = "assign"
    /\ \A text : Line(text).text = text
    /\ \A p, inst, text : Condition(p, inst, text).text = text
<1>1. \A p, inst, value : Assignment(p, inst, value).text = "assign"
  BY Zenon DEF Assignment
<1>2. \A text : Line(text).text = text
  BY DEF Line
<1>3. ASSUME NEW p, NEW inst, NEW text PROVE Condition(p, inst, text).text = text
  <2> DEFINE names == UNION {NamesIn(p, inst.src[i]) : i \in DOMAIN inst.src}
  <2>1. Condition(p, inst, text) = [Line(text) EXCEPT !.names = names]
    BY DEF Condition
  <2> HIDE DEF names
  <2> QED BY <2>1 DEF Line
<1> QED BY <1>1, <1>2, <1>3

\* A condition is the statement it opens.
LEMMA ConditionText ==
    ASSUME NEW p, NEW inst, NEW text PROVE Condition(p, inst, text).text = text
BY TextsOfLines, ZenonT(60)

LEMMA AssignmentText ==
    ASSUME NEW p, NEW inst, NEW value PROVE Assignment(p, inst, value).text = "assign"
BY TextsOfLines, ZenonT(60)

LEMMA KeptText ==
    ASSUME NEW p, NEW r
    PROVE  Kept(p, r).text = IF TooLong(p, r) THEN "unclosed" ELSE "operand"
BY Zenon DEF Kept

LEMMA BlockText ==
    ASSUME NEW p, NEW inst PROVE InBlock(p, inst).text = "assign"
<1> DEFINE names == {Name(p, inst.dst)}
           value == Assigned(p, inst)
           others == {Name(p, inst.dst)} \cup
                     UNION {NamesRead(p, inst, j) : j \in DOMAIN Operands(inst)}
           dst == Name(p, inst.dst)
<1>1. InBlock(p, inst) =
        [[text |-> "assign", dst |-> dst, value |-> value, names |-> others]
           EXCEPT !.names = names]
  BY Zenon DEF InBlock, Assignment
<1> HIDE DEF names, value, others, dst
<1> QED BY <1>1

LEMMA OneStates ==
    ASSUME NEW a, a.text \in Closed
    PROVE  StatesOnly(<<a>>) /\ ~Opens(<<a>>)
BY SingleIsSeq DEF StatesOnly, Opens, Closed

LEMMA FourState ==
    ASSUME NEW a, NEW b, NEW c, NEW d, {a.text, c.text, d.text} \subseteq Closed,
           b.text \in Texts
    PROVE  /\ StatesOnly(<<a, b, c, d>>)
           /\ Opens(<<a, b, c, d>>) <=> b.text = "unclosed"
<1> DEFINE L == {a, b, c, d}
           s == <<a, b, c, d>>
<1>1. s \in Seq(L) /\ DOMAIN s = 1..4 /\ s[2] = b
  OBVIOUS
<1>2. \A x \in L : x.text \in Texts /\ (x.text = "unclosed" => b.text = "unclosed")
  BY DEF Closed
<1>3. b \in ToSet(s)
  <2> HIDE DEF s, L
  <2>1. 2 \in DOMAIN s
    BY <1>1
  <2> QED BY <1>1, <2>1, Zenon DEF ToSet
<1> HIDE DEF L, s
<1>4. IsSeq(s) /\ ToSet(s) \subseteq L
  BY <1>1, IsSeqIf
<1> QED BY <1>2, <1>3, <1>4 DEF StatesOnly, Opens, s

LEMMA SixState ==
    ASSUME NEW a, NEW b, NEW c, NEW d, NEW e, NEW f,
           {a.text, c.text, d.text, e.text, f.text} \subseteq Closed, b.text \in Texts
    PROVE  /\ StatesOnly(<<a, b, c, d, e, f>>)
           /\ Opens(<<a, b, c, d, e, f>>) <=> b.text = "unclosed"
<1> DEFINE L == {a, b, c, d, e, f}
           s == <<a, b, c, d, e, f>>
<1>1. s \in Seq(L) /\ DOMAIN s = 1..6 /\ s[2] = b
  OBVIOUS
<1>2. \A x \in L : x.text \in Texts /\ (x.text = "unclosed" => b.text = "unclosed")
  BY DEF Closed
<1>3. b \in ToSet(s)
  <2> HIDE DEF s, L
  <2>1. 2 \in DOMAIN s
    BY <1>1
  <2> QED BY <1>1, <2>1, Zenon DEF ToSet
<1> HIDE DEF L, s
<1>4. IsSeq(s) /\ ToSet(s) \subseteq L
  BY <1>1, IsSeqIf
<1> QED BY <1>2, <1>3, <1>4 DEF StatesOnly, Opens, s

LEMMA RepeatedStates ==
    ASSUME NEW n \in Nat, NEW a, a.text \in Closed
    PROVE  StatesOnly([i \in 1..n |-> a]) /\ ~Opens([i \in 1..n |-> a])
<1> DEFINE s == [i \in 1..n |-> a]
<1>1. s \in Seq({a})
  OBVIOUS
<1> HIDE DEF s
<1>2. IsSeq(s) /\ ToSet(s) \subseteq {a}
  BY <1>1, IsSeqIf
<1> QED BY <1>2 DEF StatesOnly, Opens, Closed, s

LEMMA MaskFinite ==
    ASSUME NEW mask \in SUBSET Components
    PROVE  IsFiniteSet(mask) /\ Cardinality(mask) \in 0..4
<1>1. IsFiniteSet(Components) /\ Cardinality(Components) = 4
  <2>1. IsFiniteSet(0..3) /\ Cardinality(0..3) = IF 0 > 3 THEN 0 ELSE 3 - 0 + 1
    <3>1. 0 \in Int /\ 3 \in Int
      OBVIOUS
    <3> QED BY <3>1, FS_Interval, Zenon
  <2> QED BY <2>1 DEF Components
<1>2. IsFiniteSet(mask) /\ Cardinality(mask) <= Cardinality(Components)
  BY <1>1, FS_Subset
<1>3. Cardinality(mask) \in Nat
  BY <1>2, FS_CardinalityType
<1> QED BY <1>1, <1>2, <1>3

\* Whatever an instruction becomes, it is a few statements and no declaration,
\* with an open bracket if an operand that is kept was too long.
LEMMA LinesAre ==
    ASSUME NEW p, NEW inst \in Instructions
    PROVE  StatesOnly(Lines(p, inst)) /\ (Opens(Lines(p, inst)) <=> CutIn(p, inst))
<1> DEFINE op == inst.op
           a == Assignment(p, inst, Assigned(p, inst))
<1>1. a.text = "assign"
  BY AssignmentText, Zenon
<1>t. /\ Line("{").text \in Closed /\ Line("}").text \in Closed
      /\ Line("_d").text \in Closed /\ Line("_s").text \in Closed
      /\ Line("break").text \in Closed /\ Line("} else {").text \in Closed
      /\ a.text \in Closed
  BY <1>1 DEF Line, Texts, Closed
<1>b. InBlock(p, inst).text \in Closed
  <2>1. InBlock(p, inst).text = "assign"
    BY BlockText, Zenon
  <2> QED BY <2>1 DEF Texts, Closed
<1>k. /\ Kept(p, inst.src[1]).text \in Texts
      /\ Kept(p, inst.src[1]).text = "unclosed" <=> TooLong(p, inst.src[1])
  <2> DEFINE r == inst.src[1]
  <2> HIDE DEF r
  <2>1. Kept(p, r).text = IF TooLong(p, r) THEN "unclosed" ELSE "operand"
    BY KeptText
  <2>2. /\ Kept(p, r).text \in Texts
        /\ Kept(p, r).text = "unclosed" <=> TooLong(p, r)
    BY <2>1 DEF Texts
  <2> QED BY <2>2 DEF r
<1>c. /\ Condition(p, inst, "{").text \in Closed
      /\ Condition(p, inst, "break").text \in Closed
  <2>1. Condition(p, inst, "{").text = "{"
    BY ConditionText, Zenon
  <2>2. Condition(p, inst, "break").text = "break"
    BY ConditionText, Zenon
  <2> QED BY <2>1, <2>2 DEF Texts, Closed
<1>n. op \notin Matrices \cup {"lit"} => ~CutIn(p, inst)
  BY Zenon DEF CutIn
<1>2. CASE op = "nop"
  <2>1. Lines(p, inst) = <<>> /\ op \notin Matrices \cup {"lit"}
    BY <1>2 DEF Lines, Matrices
  <2>2. ToSet(<<>>) = {}
    BY DEF ToSet
  <2> QED BY <1>n, <2>1, <2>2, EmptyIsSeq DEF StatesOnly, Opens
<1>3. CASE op = "sincos"
  <2> DEFINE b == Assignment(p, inst, SinCos(p, inst))
             n == Cardinality(inst.dst.mask)
  <2>1. n \in Nat
    <3>1. inst.dst.mask \in SUBSET Components
      <4>1. inst.dst \in Registers
        BY DEF Instructions
      <4> QED BY <4>1, RegisterFields
    <3> QED BY <3>1, MaskFinite
  <2>2. Lines(p, inst) = [i \in 1..n |-> b] /\ op \notin Matrices \cup {"lit"}
    <3> HIDE DEF b
    <3> QED BY <1>3 DEF Lines, Matrices, b
  <2>3. b.text \in Closed
    <3>1. b.text = "assign"
      BY AssignmentText, Zenon
    <3> HIDE DEF b
    <3> QED BY <3>1 DEF Texts, Closed
  <2> HIDE DEF b, n
  <2> QED BY <1>n, <2>1, <2>2, <2>3, RepeatedStates
<1>4. CASE op = "lit"
  <2> DEFINE k == Kept(p, inst.src[1])
             b == InBlock(p, inst)
  <2>1. Lines(p, inst) = <<Line("{"), k, Line("_d"), Line("_s"), b, Line("}")>>
    BY <1>4 DEF Lines, Matrices
  <2>2. k.text \in Texts /\ b.text \in Closed
    BY <1>k, <1>b
  <2>3. k.text = "unclosed" <=> CutIn(p, inst)
    BY <1>4, <1>k DEF CutIn
  <2> HIDE DEF k, b
  <2> QED BY <1>t, <2>1, <2>2, <2>3, SixState
<1>5. CASE op \in Matrices
  <2> DEFINE k == Kept(p, inst.src[1])
             b == InBlock(p, inst)
  <2>1. Lines(p, inst) = <<Line("{"), k, b, Line("}")>>
    BY <1>5 DEF Lines, Matrices
  <2>2. k.text \in Texts /\ b.text \in Closed
    BY <1>k, <1>b
  <2>3. k.text = "unclosed" <=> CutIn(p, inst)
    BY <1>5, <1>k DEF CutIn
  <2> HIDE DEF k, b
  <2> QED BY <1>t, <2>1, <2>2, <2>3, FourState
<1>6. CASE op = "texkill"
  <2> DEFINE names == {Name(p, inst.dst)}
             b == [Line("discard") EXCEPT !.names = names]
  <2>1. Lines(p, inst) = <<b>> /\ op \notin Matrices \cup {"lit"}
    BY <1>6 DEF Lines, Matrices
  <2>2. b.text = "discard"
    <3> HIDE DEF names
    <3> QED BY DEF Line
  <2> HIDE DEF b
  <2>3. b.text \in Closed
    BY <2>2 DEF Texts, Closed
  <2> QED BY <1>n, <2>1, <2>3, OneStates
<1>7. CASE op \in {"ifc", "if", "rep"}
  <2>1. Lines(p, inst) = <<Condition(p, inst, "{")>> /\ op \notin Matrices \cup {"lit"}
    BY <1>7 DEF Lines, Matrices
  <2> QED BY <1>n, <1>t, <1>c, <2>1, OneStates
<1>8. CASE op \in {"breakc", "break"}
  <2>1. Lines(p, inst) \in {<<Condition(p, inst, "break")>>, <<Line("break")>>}
        /\ op \notin Matrices \cup {"lit"}
    BY <1>8 DEF Lines, Matrices
  <2> QED BY <1>n, <1>t, <1>c, <2>1, OneStates
<1>9. CASE op \in {"else", "endif", "endrep"}
  <2>1. Lines(p, inst) \in {<<Line("} else {")>>, <<Line("}")>>}
        /\ op \notin Matrices \cup {"lit"}
    BY <1>9 DEF Lines, Matrices
  <2> QED BY <1>n, <1>t, <1>c, <2>1, OneStates
<1>10. CASE op \notin {"nop", "sincos", "lit", "texkill", "ifc", "if", "rep", "breakc",
                       "break", "else", "endif", "endrep"} \cup Matrices
  <2> HIDE DEF a
  <2>1. Lines(p, inst) = <<a>>
    BY <1>10 DEF Lines, a
  <2> QED BY <1>n, <1>t, <1>10, <2>1, OneStates DEF a
<1> QED BY <1>2, <1>3, <1>4, <1>5, <1>6, <1>7, <1>8, <1>9, <1>10

-----------------------------------------------------------------------------
\* Writing lines into the buffer.

LEMMA MinOfTwo ==
    ASSUME NEW a \in Int, NEW b \in Int
    PROVE  Min({a, b}) = IF a <= b THEN a ELSE b
<1> DEFINE m == IF a <= b THEN a ELSE b
           S == {a, b}
<1>1. m \in S /\ \A y \in S : m <= y
  OBVIOUS
<1>2. ASSUME NEW z \in S, \A y \in S : z <= y PROVE z = m
  BY <1>2
<1> HIDE DEF m, S
<1>3. Min(S) = CHOOSE x \in S : \A y \in S : x <= y
  BY DEF Min
<1>4. Min(S) \in S /\ \A y \in S : Min(S) <= y
  BY <1>1, <1>3, Zenon
<1>5. Min(S) = m
  BY <1>2, <1>4
<1> QED BY <1>5 DEF m, S

\* What is written is a beginning of the lines, and all of them unless it is an
\* error.  What was written before stays.
LEMMA EmitWrites ==
    ASSUME IsSeq(msl), Len(msl) <= MaxSource, error \in BOOLEAN,
           NEW lines, IsSeq(lines), Emit(lines)
    PROVE  /\ IsSeq(msl') /\ Len(msl') <= MaxSource /\ error' \in BOOLEAN
           /\ ~error' => ~error /\ msl' = msl \o lines
<1> DEFINE n == IF error THEN 0 ELSE Min({Len(lines), MaxSource - Len(msl)})
           L == ToSet(lines)
           M == ToSet(msl)
           cut == SubSeq(lines, 1, n)
<1>1. msl' = msl \o cut /\ error' = (n < Len(lines) \/ error)
  BY DEF Emit
<1>2. lines \in Seq(L) /\ msl \in Seq(M)
  BY DEF IsSeq
<1>3. Len(lines) \in Nat /\ Len(msl) \in Nat /\ MaxSource - Len(msl) \in Nat
  <2> HIDE DEF L, M
  <2> QED BY <1>2, MaxSourceAssumption
<1>4. n \in 0..Len(lines) /\ n + Len(msl) <= MaxSource
  <2>1. Min({Len(lines), MaxSource - Len(msl)})
          = IF Len(lines) <= MaxSource - Len(msl) THEN Len(lines) ELSE MaxSource - Len(msl)
    BY <1>3, MinOfTwo
  <2> QED BY <1>3, <2>1, MaxSourceAssumption
<1> HIDE DEF n, L, M
<1>5. cut \in Seq(L) /\ Len(cut) = n
  BY <1>2, <1>3, <1>4
<1>6. IsSeq(cut)
  <2> HIDE DEF cut
  <2> QED BY <1>5, IsSeqIf
<1>7. n = Len(lines) => cut = lines
  <2> SUFFICES ASSUME n = Len(lines) PROVE cut = lines
    OBVIOUS
  <2>1. cut = SubSeq(lines, 1, Len(lines))
    OBVIOUS
  <2>2. SubSeq(lines, 1, Len(lines)) = lines
    BY <1>2
  <2> QED BY <2>1, <2>2
<1> HIDE DEF cut
<1>8. IsSeq(msl') /\ Len(msl') = Len(msl) + n
  <2>1. IsSeq(msl')
    BY <1>1, <1>6, ConcatIsSeq
  <2>2. DOMAIN msl = 1..Len(msl)
    BY <1>2
  <2>3. msl \in Seq(M \cup L) /\ cut \in Seq(M \cup L)
    <3>1. msl \in Seq(M \cup L)
      BY <1>2, SeqMonotonic
    <3>2. cut \in Seq(M \cup L)
      BY <1>5, SeqMonotonic
    <3> QED BY <3>1, <3>2
  <2> DEFINE S == M \cup L
  <2> HIDE DEF S
  <2>4. Len(msl \o cut) = Len(msl) + Len(cut)
    BY <2>3 DEF S
  <2> QED BY <1>1, <1>5, <2>1, <2>4
<1>9. error' \in BOOLEAN /\ (~error' => ~error /\ msl' = msl \o lines)
  <2>1. CASE n < Len(lines) \/ error
    BY <1>1, <2>1
  <2>2. CASE ~(n < Len(lines)) /\ ~error
    <3>1. n = Len(lines)
      BY <1>3, <1>4, <2>2
    <3> QED BY <1>1, <1>7, <2>2, <3>1
  <2> QED BY <2>1, <2>2
<1> QED BY <1>3, <1>4, <1>8, <1>9

\* The lines of the first n instructions, one after the other.
Body(p, n) == FlattenSeq([i \in 1..n |-> Lines(p, p.insts[i])])

LEMMA BodyParts ==
    ASSUME NEW p \in Programs, NEW n \in Nat, n <= Len(p.insts),
           NEW L, L = UNION {ToSet(Lines(p, inst)) : inst \in Instructions}
    PROVE  /\ [i \in 1..n |-> Lines(p, p.insts[i])] \in Seq(Seq(L))
           /\ \A i \in 1..n : Lines(p, p.insts[i]) \in Seq(L)
           /\ \A l \in L : l.text \in Texts
<1>1. \A i \in 1..n : p.insts[i] \in Instructions
  BY DEF Programs, InstSeqs
<1>2. ASSUME NEW i \in 1..n PROVE Lines(p, p.insts[i]) \in Seq(L)
  <2> DEFINE s == Lines(p, p.insts[i])
  <2>1. s \in Seq(ToSet(s))
    BY <1>1, LinesAre DEF StatesOnly, IsSeq
  <2>2. ToSet(s) \subseteq L
    BY <1>1
  <2> HIDE DEF s
  <2>3. s \in Seq(L)
    BY <2>1, <2>2, SeqMonotonic
  <2> QED BY <2>3 DEF s
<1>3. ASSUME NEW l \in L PROVE l.text \in Texts
  <2>1. PICK inst \in Instructions : l \in ToSet(Lines(p, inst))
    BY <1>3
  <2> QED BY <2>1, LinesAre DEF StatesOnly
<1> DEFINE T == Seq(L)
<1>4. \A i \in 1..n : Lines(p, p.insts[i]) \in T
  BY <1>2
<1> HIDE DEF T
<1>5. [i \in 1..n |-> Lines(p, p.insts[i])] \in Seq(T)
  BY <1>4
<1> QED BY <1>2, <1>3, <1>5 DEF T

LEMMA BodyStates ==
    ASSUME NEW p \in Programs, NEW n \in Nat, n <= Len(p.insts)
    PROVE  StatesOnly(Body(p, n))
<1> DEFINE L == UNION {ToSet(Lines(p, inst)) : inst \in Instructions}
           ss == [i \in 1..n |-> Lines(p, p.insts[i])]
<1>1. ss \in Seq(Seq(L)) /\ \A l \in L : l.text \in Texts
  <2> DEFINE K == L
  <2>1. K = L
    OBVIOUS
  <2> HIDE DEF K
  <2> QED BY <2>1, BodyParts
<1> HIDE DEF L, ss
<1>2. FlattenSeq(ss) \in Seq(L)
  BY <1>1, FlattenRange
<1>3. IsSeq(FlattenSeq(ss)) /\ ToSet(FlattenSeq(ss)) \subseteq L
  BY <1>2, IsSeqIf
<1>4. Body(p, n) = FlattenSeq(ss)
  BY DEF Body, ss
<1> QED BY <1>1, <1>3, <1>4 DEF StatesOnly

\* The body has an open bracket if an instruction of it has.
LEMMA BodyOpens ==
    ASSUME NEW p \in Programs
    PROVE  Opens(Body(p, Len(p.insts))) <=> \E inst \in ToSet(p.insts) : CutIn(p, inst)
<1> DEFINE L == UNION {ToSet(Lines(p, inst)) : inst \in Instructions}
           n == Len(p.insts)
           ss == [i \in 1..n |-> Lines(p, p.insts[i])]
<1>0. n \in Nat /\ DOMAIN p.insts = 1..n /\ \A i \in 1..n : p.insts[i] \in Instructions
  BY DEF Programs, InstSeqs
<1>1. ss \in Seq(Seq(L))
  <2> DEFINE K == L
  <2>1. K = L
    OBVIOUS
  <2> HIDE DEF K
  <2> QED BY <1>0, <2>1, BodyParts
<1>2. Len(ss) = n /\ \A i \in 1..n : ss[i] = Lines(p, p.insts[i])
  <2> HIDE DEF n
  <2> QED BY <1>0
<1>3. Body(p, n) = FlattenSeq(ss)
  BY DEF Body
<1> HIDE DEF L, ss, n
<1>4. ToSet(FlattenSeq(ss)) = UNION {ToSet(ss[i]) : i \in 1..n}
  BY <1>1, <1>2, FlattenRange
<1>5. \A i \in 1..n : Opens(ss[i]) <=> CutIn(p, p.insts[i])
  BY <1>0, <1>2, LinesAre
<1>6. Opens(FlattenSeq(ss)) <=> \E i \in 1..n : Opens(ss[i])
  BY <1>4 DEF Opens
<1>7. Opens(FlattenSeq(ss)) <=> \E i \in 1..n : CutIn(p, p.insts[i])
  BY <1>5, <1>6, Zenon
<1>8. (\E inst \in ToSet(p.insts) : CutIn(p, inst)) <=> \E i \in 1..n : CutIn(p, p.insts[i])
  BY <1>0, Zenon DEF ToSet
<1> QED BY <1>3, <1>7, <1>8, Zenon DEF n

LEMMA BodyGrows ==
    ASSUME NEW p \in Programs, NEW n \in Nat, n < Len(p.insts)
    PROVE  /\ Body(p, 0) = <<>>
           /\ Body(p, n + 1) = Body(p, n) \o Lines(p, p.insts[n + 1])
<1> DEFINE L == UNION {ToSet(Lines(p, inst)) : inst \in Instructions}
           line == [i \in 1..(n + 1) |-> Lines(p, p.insts[i])]
           ss == [i \in 1..n |-> Lines(p, p.insts[i])]
           x == Lines(p, p.insts[n + 1])
<1>0. n + 1 <= Len(p.insts) /\ n <= Len(p.insts) /\ n + 1 \in Nat
  BY DEF Programs, InstSeqs
<1>1. /\ ss \in Seq(Seq(L)) /\ line \in Seq(Seq(L)) /\ x \in Seq(L)
  <2> DEFINE K == L
  <2>1. K = L
    OBVIOUS
  <2>2. n + 1 \in 1..(n + 1)
    OBVIOUS
  <2> HIDE DEF K
  <2> QED BY <1>0, <2>1, <2>2, BodyParts
<1>2. Body(p, n + 1) = FlattenSeq(line) /\ Body(p, n) = FlattenSeq(ss)
  BY DEF Body
<1>3. /\ \A i \in 1..n : line[i] = ss[i]
      /\ line[n + 1] = x /\ Len(line) = n + 1 /\ Len(ss) = n
  OBVIOUS
<1>4. Body(p, 0) = <<>>
  <2>1. [i \in 1..0 |-> Lines(p, p.insts[i])] = <<>>
    OBVIOUS
  <2> QED BY <2>1, FlattenEmpty DEF Body
<1> HIDE DEF line, ss, L, x
<1>5. line = Append(ss, x)
  <2> DEFINE T == Seq(L)
  <2>1. line \in Seq(T) /\ ss \in Seq(T) /\ x \in T
    BY <1>1
  <2> HIDE DEF T
  <2>2. /\ Append(ss, x) \in Seq(T) /\ Len(Append(ss, x)) = n + 1
        /\ \A i \in 1..n + 1 : Append(ss, x)[i] = line[i]
    BY <1>3, <2>1
  <2> QED BY <1>3, <2>1, <2>2, SeqEqual
<1>6. FlattenSeq(line) = FlattenSeq(ss) \o x
  BY <1>1, <1>5, FlattenAppend
<1> QED BY <1>2, <1>4, <1>6 DEF x

-----------------------------------------------------------------------------
\* The invariant of the translation: what the parser has found is made of what
\* it can represent; before the lines there is nothing in the buffer; and as
\* long as everything fitted, the buffer has the declarations and the lines of
\* the instructions gone through.

BufferType ==
  /\ IsSeq(msl) /\ Len(msl) <= MaxSource /\ error \in BOOLEAN
  /\ done \in 0..Len(prog.insts)

NothingYet ==
  status \in {"version", "parsing", "parsed"} => done = 0 /\ msl = <<>> /\ error = FALSE

Finished == status = "translated" => done = Len(prog.insts) /\ error = FALSE

AllWritten ==
  status \in {"emitting", "translated"} /\ ~error =>
    msl = Declarations(prog) \o Body(prog, done)

TInv == ParseType /\ BufferType /\ NothingYet /\ Finished /\ AllWritten

LEMMA InitTInv == Init => TInv
<1> SUFFICES ASSUME Init PROVE TInv
  OBVIOUS
<1>1. ParseType
  BY InitType DEF Init
<1>2. prog.insts = <<>>
  BY DEF Init, ParseInit, EmptyProgram
<1>3. BufferType
  <2>1. IsSeq(msl) /\ error \in BOOLEAN
    BY EmptyIsSeq DEF Init
  <2>2. Len(msl) <= MaxSource /\ done \in 0..Len(prog.insts)
    BY <1>2, MaxSourceAssumption DEF Init
  <2> QED BY <2>1, <2>2 DEF BufferType
<1> QED BY <1>1, <1>3 DEF Init, ParseInit, TInv, NothingYet, Finished, AllWritten

LEMMA ParseAlone ==
    ASSUME Parse
    PROVE  /\ status \in {"version", "parsing"}
           /\ status' \in {"version", "parsing", "parsed", "failed"}
<1>1. CASE ReadVersion
  BY <1>1 DEF ReadVersion, Fail
<1>2. CASE Comment
  BY <1>2 DEF Comment, At, Fail, Continue
<1>3. CASE Dcl
  <2>1. At({"dcl"})
    BY <1>3 DEF Dcl
  <2>2. Fail \/ \E p, n : Continue(p, n)
    BY <1>3, Zenon DEF Dcl
  <2> QED BY <2>1, <2>2 DEF At, Fail, Continue
<1>4. CASE Def
  <2>1. At(Defs)
    BY <1>4 DEF Def
  <2>2. Fail \/ \E p, n : Continue(p, n)
    BY <1>4, Zenon DEF Def
  <2> QED BY <2>1, <2>2 DEF At, Fail, Continue
<1>5. ASSUME NEW ops, NEW n, Control(ops, n)
      PROVE  /\ status \in {"version", "parsing"}
             /\ status' \in {"version", "parsing", "parsed", "failed"}
  <2>1. At(ops)
    BY <1>5 DEF Control
  <2>2. Fail \/ \E p, m : Continue(p, m)
    BY <1>5, Zenon DEF Control
  <2> QED BY <2>1, <2>2 DEF At, Fail, Continue
<1>6. CASE Compare \/ Test \/ Mark
  BY <1>5, <1>6 DEF Compare, Test, Mark
<1>7. CASE Regular
  <2>1. At(Arithmetic)
    BY <1>7 DEF Regular
  <2>2. Fail \/ \E p, n : Continue(p, n)
    BY <1>7, Zenon DEF Regular
  <2> QED BY <2>1, <2>2 DEF At, Fail, Continue
<1>8. CASE Unknown \/ MissingEnd
  BY <1>8 DEF Unknown, MissingEnd, At, Fail
<1>9. CASE End
  BY <1>9 DEF End, At
<1> QED BY <1>1, <1>2, <1>3, <1>4, <1>6, <1>7, <1>8, <1>9 DEF Parse

LEMMA NextTInv ==
    ASSUME TInv, [Next]_vars
    PROVE  TInv'
<1>p. prog \in Programs /\ Len(prog.insts) \in Nat
  BY DEF TInv, ParseType, Programs, InstSeqs
<1>1. CASE Parse /\ UNCHANGED <<msl, error, done>>
  <2>1. ParseType'
    BY <1>1, ParseStepType DEF TInv
  <2>2. status \in {"version", "parsing"}
        /\ status' \in {"version", "parsing", "parsed", "failed"}
    BY <1>1, ParseAlone
  <2>3. done' = 0 /\ msl' = <<>> /\ error' = FALSE
    BY <1>1, <2>2 DEF TInv, NothingYet
  <2>4. Len(prog'.insts) \in Nat
    BY <2>1 DEF ParseType, Programs, InstSeqs
  <2>5. BufferType'
    <3>1. IsSeq(msl') /\ error' \in BOOLEAN
      BY <2>3, EmptyIsSeq
    <3>2. Len(msl') <= MaxSource /\ done' \in 0..Len(prog'.insts)
      BY <2>3, <2>4, MaxSourceAssumption
    <3> QED BY <3>1, <3>2 DEF BufferType
  <2> QED BY <2>1, <2>2, <2>3, <2>5 DEF TInv, NothingYet, Finished, AllWritten
<1>2. CASE Declare
  <2>1. /\ status = "parsed" /\ UNCHANGED <<shader, pos, prog, done>>
        /\ status' \in {"emitting", "failed"}
    BY <1>2 DEF Declare
  <2>2. done = 0 /\ msl = <<>> /\ error = FALSE
    BY <2>1 DEF TInv, NothingYet
  <2>3. CASE status' = "emitting"
    <3>1. Emit(Declarations(prog))
      BY <1>2, <2>3 DEF Declare
    <3> DEFINE d == Declarations(prog)
    <3>2. IsSeq(d)
      BY <1>p, DeclarationsAre
    <3> HIDE DEF d
    <3>3. /\ IsSeq(msl') /\ Len(msl') <= MaxSource /\ error' \in BOOLEAN
          /\ ~error' => msl' = msl \o d
      BY <3>1, <3>2, EmitWrites DEF TInv, BufferType, d
    <3>4. msl \o d = d
      <4>1. d \in Seq(ToSet(d))
        BY <3>2 DEF IsSeq
      <4> DEFINE D == ToSet(d)
      <4> HIDE DEF D
      <4>2. <<>> \o d = d
        BY <4>1, ConcatEmptySeq DEF D
      <4> QED BY <2>2, <4>2
    <3>5. Body(prog, 0) = <<>>
      <4>1. [i \in 1..0 |-> Lines(prog, prog.insts[i])] = <<>>
        OBVIOUS
      <4> QED BY <4>1, FlattenEmpty DEF Body
    <3>6. d \o <<>> = d
      <4>1. d \in Seq(ToSet(d))
        BY <3>2 DEF IsSeq
      <4> DEFINE D == ToSet(d)
      <4> HIDE DEF D
      <4> QED BY <4>1, ConcatEmptySeq DEF D
    <3>7. ~error' => msl' = d \o Body(prog, 0)
      BY <3>3, <3>4, <3>5, <3>6
    <3>8. AllWritten'
      <4> SUFFICES ASSUME ~error' PROVE msl' = Declarations(prog') \o Body(prog', done')
        BY DEF AllWritten
      <4>1. prog' = prog /\ done' = 0
        BY <2>1, <2>2
      <4> QED BY <3>7, <4>1 DEF d
    <3>9. BufferType'
      BY <2>1, <3>3 DEF TInv, BufferType
    <3>10. ParseType'
      BY <2>1, <2>3 DEF TInv, ParseType, Statuses, Fit, Known
    <3> QED BY <2>3, <3>8, <3>9, <3>10 DEF TInv, NothingYet, Finished
  <2>4. CASE status' = "failed"
    <3>1. UNCHANGED <<msl, error>>
      BY <1>2, <2>4 DEF Declare
    <3>2. ParseType'
      BY <2>1, <2>4 DEF TInv, ParseType, Statuses, Fit, Known
    <3> QED BY <2>1, <2>4, <3>1, <3>2
            DEF TInv, BufferType, NothingYet, Finished, AllWritten
  <2> QED BY <2>1, <2>3, <2>4
<1>3. CASE EmitInstruction
  <2> DEFINE x == Lines(prog, prog.insts[done + 1])
             d == Declarations(prog)
             b == Body(prog, done)
  <2>1. /\ status = "emitting" /\ done < Len(prog.insts) /\ done' = done + 1
        /\ UNCHANGED <<shader, pos, prog, status>> /\ Emit(x)
    BY <1>3 DEF EmitInstruction, parseVars
  <2>2. done \in Nat /\ done' \in 0..Len(prog.insts)
    BY <1>p, <2>1 DEF TInv, BufferType
  <2>3. prog.insts[done + 1] \in Instructions
    BY <1>p, <2>1, <2>2 DEF Programs, InstSeqs
  <2>4. IsSeq(x)
    BY <2>3, LinesAre DEF StatesOnly
  <2>5. Body(prog, done + 1) = b \o x
    BY <1>p, <2>1, <2>2, BodyGrows
  <2>6. IsSeq(d) /\ IsSeq(b)
    BY <1>p, <2>1, <2>2, DeclarationsAre, BodyStates DEF StatesOnly
  <2> HIDE DEF x, d, b
  <2>7. /\ IsSeq(msl') /\ Len(msl') <= MaxSource /\ error' \in BOOLEAN
        /\ ~error' => ~error /\ msl' = msl \o x
    BY <2>1, <2>4, EmitWrites DEF TInv, BufferType
  <2>8. (d \o b) \o x = d \o (b \o x)
    <3> DEFINE S == ToSet(d) \cup ToSet(b) \cup ToSet(x)
    <3>1. d \in Seq(S) /\ b \in Seq(S) /\ x \in Seq(S)
      <4>1. d \in Seq(S)
        BY <2>6, SeqMonotonic DEF IsSeq
      <4>2. b \in Seq(S)
        BY <2>6, SeqMonotonic DEF IsSeq
      <4>3. x \in Seq(S)
        BY <2>4, SeqMonotonic DEF IsSeq
      <4> QED BY <4>1, <4>2, <4>3
    <3> HIDE DEF S
    <3> QED BY <3>1, ConcatAssociative, SMTT(60)
  <2>9. AllWritten'
    <3> SUFFICES ASSUME ~error' PROVE msl' = Declarations(prog') \o Body(prog', done')
      BY DEF AllWritten
    <3>1. msl = d \o b
      BY <2>1, <2>7 DEF TInv, AllWritten, d, b
    <3>2. msl' = d \o Body(prog, done + 1)
      BY <2>5, <2>7, <2>8, <3>1
    <3>3. prog' = prog /\ done' = done + 1
      BY <2>1
    <3> QED BY <3>2, <3>3 DEF d
  <2>10. ParseType' /\ BufferType'
    BY <2>1, <2>2, <2>7 DEF TInv, ParseType, BufferType, Fit, Known
  <2> QED BY <2>1, <2>9, <2>10 DEF TInv, NothingYet, Finished
<1>4. CASE Finish
  <2>1. /\ status = "emitting" /\ done = Len(prog.insts)
        /\ status' = IF error THEN "failed" ELSE "translated"
        /\ UNCHANGED <<shader, pos, prog, msl, error, done>>
    BY <1>4 DEF Finish
  <2>2. ParseType' /\ BufferType'
    BY <2>1 DEF TInv, ParseType, BufferType, Statuses, Fit, Known
  <2>3. AllWritten'
    BY <2>1 DEF TInv, AllWritten
  <2> QED BY <2>1, <2>2, <2>3 DEF TInv, BufferType, NothingYet, Finished
<1>5. CASE UNCHANGED vars
  BY <1>5 DEF TInv, ParseType, BufferType, NothingYet, Finished, AllWritten, Fit,
              Known, vars, parseVars
<1> QED BY <1>1, <1>2, <1>3, <1>4, <1>5 DEF Next

LEMMA Invariant == Spec => []TInv
<1>1. Init => TInv
  BY InitTInv
<1>2. TInv /\ [Next]_vars => TInv'
  BY NextTInv
<1> QED BY <1>1, <1>2, PTL DEF Spec

\* Whatever the dwords of a shader are, the parser and the emitter stay within
\* their tables and the buffer, and all numbers by which dx9mt_sm_parse shifts a
\* bit are below 32 but those of samplers that the shader itself declares.
THEOREM TypeCorrect == Spec => []TypeOK
<1>1. TInv => TypeOK
  <2> SUFFICES ASSUME TInv PROVE TypeOK
    OBVIOUS
  <2>1. /\ prog.inputs \subseteq Register32 /\ prog.outputs \subseteq Register32
        /\ prog.attrouts \subseteq Register32
        /\ prog.colors \in 0..32 /\ prog.maxTemp \in 0..255 /\ prog.maxConst \in 0..255
    BY DEF TInv, ParseType, Programs, BitSets
  <2>2. /\ Len(prog.insts) <= MaxInstructions
        /\ Len(prog.dcls) <= MaxDcl /\ Len(prog.defs) <= MaxDef
    BY DEF TInv, ParseType, Fit
  <2>3. \A n \in prog.samplers \ Register32 :
          \E d \in ToSet(prog.dcls) : d.reg.type = "sampler" /\ d.reg.number = n
    BY Zenon DEF TInv, ParseType, Fit, Known
  <2> QED BY <2>1, <2>2, <2>3 DEF TInv, ParseType, BufferType, TypeOK
<1> QED BY <1>1, Invariant, PTL

\* A function that is handed to the compiler is whole: the declarations of its
\* shader and then the lines of every instruction, in their order and nothing
\* else.  The emitter looks at the error of its buffer once, at the end.  What is
\* cut off without an error is the end of an operand that lit or a matrix keeps in
\* 128 characters; the function then has a line with open brackets, and it has
\* such a line in no other case.
THEOREM WholeOrNotAtAll == Spec => []NothingLeftOut
<1>1. TInv => NothingLeftOut
  <2> SUFFICES ASSUME TInv, status = "translated" PROVE NothingLeftOut
    BY DEF NothingLeftOut
  <2>1. done = Len(prog.insts) /\ ~error
    BY DEF TInv, Finished
  <2>2. msl = Declarations(prog) \o Body(prog, Len(prog.insts))
    BY <2>1 DEF TInv, AllWritten
  <2>3. DOMAIN prog.insts = 1..Len(prog.insts)
    BY DEF TInv, ParseType, Programs, InstSeqs
  <2>4. Body(prog, Len(prog.insts))
          = FlattenSeq([i \in DOMAIN prog.insts |-> Lines(prog, prog.insts[i])])
    BY <2>3 DEF Body
  <2> DEFINE d == Declarations(prog)
             b == Body(prog, Len(prog.insts))
  <2>5. prog \in Programs /\ Len(prog.insts) \in Nat
    BY DEF TInv, ParseType, Programs, InstSeqs
  <2>6. (\E inst \in ToSet(prog.insts) : Cut(inst)) <=> Opens(b)
    BY <2>5, BodyOpens, Zenon DEF CutIn, Cut
  <2>7. Opens(msl) <=> Opens(b)
    <3>1. IsSeq(d) /\ IsSeq(b)
      BY <2>5, DeclarationsAre, BodyStates DEF StatesOnly
    <3>2. \A l \in ToSet(d) : l.text = "declare"
      BY <2>5, DeclarationsDeclare
    <3>3. msl = d \o b
      BY <2>2
    <3> HIDE DEF d, b
    <3>4. ToSet(msl) = ToSet(d) \cup ToSet(b)
      BY <3>1, <3>3, ConcatIsSeq
    <3> QED BY <3>2, <3>4 DEF Opens
  <2> HIDE DEF b
  <2>8. (\E inst \in ToSet(prog.insts) : Cut(inst)) <=>
          (\E line \in ToSet(msl) : line.text = "unclosed")
    BY <2>6, <2>7, Zenon DEF Opens
  <2>9. msl = Declarations(prog) \o
          FlattenSeq([i \in DOMAIN prog.insts |-> Lines(prog, prog.insts[i])])
    BY <2>2, <2>4, Zenon
  <2> QED BY <2>8, <2>9, Zenon DEF NothingLeftOut
<1> QED BY <1>1, Invariant, PTL

-----------------------------------------------------------------------------
\* The two tables of attributes.

LEMMA ElementInSlot ==
    ASSUME NEW a, NEW usage, NEW index, NEW slot,
           a = <<usage, index>>, VertexSlot(usage, index) = slot
    PROVE  VertexSlot(a[1], a[2]) = slot /\ a = <<a[1], a[2]>>
<1>1. a[1] = usage /\ a[2] = index
  OBVIOUS
<1> QED BY <1>1, Zenon

\* The viewer's table, with both names of the position taken for one.
LEMMA SlotOfElement ==
    /\ \A i \in 1..14 : VertexSlot(Attributes[i][1], Attributes[i][2]) = i - 1
    /\ DOMAIN Attributes = 1..14
    /\ \A i \in 1..14 : Attributes[i] = <<Attributes[i][1], Attributes[i][2]>>
<1>1. DOMAIN Attributes = 1..14
  BY DEF Attributes
<1>2. ASSUME NEW i \in 1..14
      PROVE  /\ VertexSlot(Attributes[i][1], Attributes[i][2]) = i - 1
             /\ Attributes[i] = <<Attributes[i][1], Attributes[i][2]>>
  <2>1. CASE i = 1
    <3>1. Attributes[i] = <<"position", 0>>
      BY <2>1 DEF Attributes
    <3>2. VertexSlot("position", 0) = i - 1
      BY <2>1 DEF VertexSlot
    <3> QED BY <3>1, <3>2, ElementInSlot, Zenon
  <2>2. CASE i = 2
    <3>1. Attributes[i] = <<"color", 0>>
      BY <2>2 DEF Attributes
    <3>2. VertexSlot("color", 0) = i - 1
      BY <2>2 DEF VertexSlot
    <3> QED BY <3>1, <3>2, ElementInSlot, Zenon
  <2>3. CASE i = 3
    <3>1. Attributes[i] = <<"texcoord", 0>>
      BY <2>3 DEF Attributes
    <3>2. VertexSlot("texcoord", 0) = i - 1
      BY <2>3 DEF VertexSlot
    <3> QED BY <3>1, <3>2, ElementInSlot, Zenon
  <2>4. CASE i = 4
    <3>1. Attributes[i] = <<"normal", 0>>
      BY <2>4 DEF Attributes
    <3>2. VertexSlot("normal", 0) = i - 1
      BY <2>4 DEF VertexSlot
    <3> QED BY <3>1, <3>2, ElementInSlot, Zenon
  <2>5. CASE i = 5
    <3>1. Attributes[i] = <<"tangent", 0>>
      BY <2>5 DEF Attributes
    <3>2. VertexSlot("tangent", 0) = i - 1
      BY <2>5 DEF VertexSlot
    <3> QED BY <3>1, <3>2, ElementInSlot, Zenon
  <2>6. CASE i = 6
    <3>1. Attributes[i] = <<"binormal", 0>>
      BY <2>6 DEF Attributes
    <3>2. VertexSlot("binormal", 0) = i - 1
      BY <2>6 DEF VertexSlot
    <3> QED BY <3>1, <3>2, ElementInSlot, Zenon
  <2>7. CASE i = 7
    <3>1. Attributes[i] = <<"blendweight", 0>>
      BY <2>7 DEF Attributes
    <3>2. VertexSlot("blendweight", 0) = i - 1
      BY <2>7 DEF VertexSlot
    <3> QED BY <3>1, <3>2, ElementInSlot, Zenon
  <2>8. CASE i = 8
    <3>1. Attributes[i] = <<"blendindices", 0>>
      BY <2>8 DEF Attributes
    <3>2. VertexSlot("blendindices", 0) = i - 1
      BY <2>8 DEF VertexSlot
    <3> QED BY <3>1, <3>2, ElementInSlot, Zenon
  <2>9. CASE i = 9
    <3>1. Attributes[i] = <<"texcoord", 1>>
      BY <2>9 DEF Attributes
    <3>2. VertexSlot("texcoord", 1) = i - 1
      BY <2>9 DEF VertexSlot
    <3> QED BY <3>1, <3>2, ElementInSlot, Zenon
  <2>10. CASE i = 10
    <3>1. Attributes[i] = <<"color", 1>>
      BY <2>10 DEF Attributes
    <3>2. VertexSlot("color", 1) = i - 1
      BY <2>10 DEF VertexSlot
    <3> QED BY <3>1, <3>2, ElementInSlot, Zenon
  <2>11. CASE i \in 11..14
    <3> DEFINE n == i - 9
    <3>1. n \in 2..5 /\ n + 8 = i - 1
      BY <2>11
    <3>2. Attributes[i] = <<"texcoord", n>>
      BY <2>11 DEF Attributes
    <3> HIDE DEF n
    <3>3. VertexSlot("texcoord", n) = i - 1
      BY <3>1 DEF VertexSlot
    <3> QED BY <3>2, <3>3, ElementInSlot, Zenon
  <2>12. i \in 1..10 \/ i \in 11..14
    OBVIOUS
  <2>13. i \in 1..10 => \/ i = 1 \/ i = 2 \/ i = 3 \/ i = 4 \/ i = 5
                        \/ i = 6 \/ i = 7 \/ i = 8 \/ i = 9 \/ i = 10
    OBVIOUS
  <2> QED BY <2>1, <2>2, <2>3, <2>4, <2>5, <2>6, <2>7, <2>8, <2>9, <2>10, <2>11,
             <2>12, <2>13
<1> QED BY <1>1, <1>2

LEMMA ElementOfSlot ==
    ASSUME NEW usage \in DclUsages \ {"positiont"}, NEW index \in 0..15,
           usage = "position" => index = 0,
           VertexSlot(usage, index) # Unmapped
    PROVE  <<usage, index>> \in ToSet(Attributes)
<1> DEFINE k == VertexSlot(usage, index) + 1
<1>1. k \in 1..14 /\ Attributes[k] = <<usage, index>>
  <2>1. CASE usage = "position"
    BY <2>1 DEF VertexSlot, Attributes
  <2>2. CASE usage = "color"
    <3>1. (index = 0 /\ k = 2) \/ (index = 1 /\ k = 10)
      BY <2>2 DEF VertexSlot, Unmapped
    <3> QED BY <2>2, <3>1 DEF Attributes
  <2>3. CASE usage = "texcoord"
    <3>1. \/ index = 0 /\ k = 3
          \/ index = 1 /\ k = 9
          \/ index \in 2..5 /\ k = index + 9
      BY <2>3 DEF VertexSlot, Unmapped
    <3> HIDE DEF k
    <3>2. CASE index \in {0, 1}
      BY <2>3, <3>1, <3>2 DEF Attributes
    <3>3. CASE index \in 2..5
      BY <2>3, <3>1, <3>3 DEF Attributes
    <3> QED BY <3>1, <3>2, <3>3
  <2>4. CASE usage \in {"normal", "tangent", "binormal", "blendweight", "blendindices"}
    <3>1. index = 0
      BY <2>4 DEF VertexSlot, Unmapped
    <3>2. \/ usage = "normal" /\ k = 4
          \/ usage = "tangent" /\ k = 5
          \/ usage = "binormal" /\ k = 6
          \/ usage = "blendweight" /\ k = 7
          \/ usage = "blendindices" /\ k = 8
      BY <2>4, <3>1 DEF VertexSlot
    <3> HIDE DEF k
    <3> QED BY <3>1, <3>2 DEF Attributes
  <2>5. CASE usage \notin {"position", "color", "texcoord", "normal", "tangent",
                         "binormal", "blendweight", "blendindices"}
    <3>1. usage # "positiont"
      OBVIOUS
    <3>2. VertexSlot(usage, index) = Unmapped
      BY <2>5, <3>1 DEF VertexSlot
    <3> QED BY <3>2
  <2> QED BY <2>1, <2>2, <2>3, <2>4, <2>5
<1> HIDE DEF k
<1> QED BY <1>1, SlotOfElement DEF ToSet

LEMMA NoSecondPosition ==
    \A index \in 1..15 : <<"position", index>> \notin ToSet(Attributes)
BY DEF Attributes, ToSet

\* The emitter's number of an attribute is the viewer's, but for positions after
\* the first.
LEMMA SameAttribute ==
    ASSUME NEW usage \in DclUsages, NEW index \in 0..15
    PROVE  AttributeIndex(usage, index)
             = IF usage \in {"position", "positiont"} /\ index # 0
                 THEN Unmapped ELSE VertexSlot(usage, index)
<1> DEFINE u == IF usage = "positiont" THEN "position" ELSE usage
<1>1. /\ u \in DclUsages \ {"positiont"}
      /\ VertexSlot(u, index) = VertexSlot(usage, index)
      /\ u = "position" <=> usage \in {"position", "positiont"}
  <2>1. CASE usage = "positiont"
    <3>1. "position" \in DclUsages \ {"positiont"}
      BY DEF DclUsages, UsageNumber
    <3>2. u = "position"
      BY <2>1
    <3>3. VertexSlot("position", index) = 0 /\ VertexSlot("positiont", index) = 0
      BY DEF VertexSlot
    <3> HIDE DEF u
    <3> QED BY <2>1, <3>1, <3>2, <3>3
  <2>2. CASE usage # "positiont"
    <3>1. u = usage
      BY <2>2
    <3> HIDE DEF u
    <3> QED BY <2>2, <3>1
  <2> QED BY <2>1, <2>2
<1>2. AttributeIndex(usage, index)
        = IF <<u, index>> \in ToSet(Attributes)
            THEN (CHOOSE i \in DOMAIN Attributes : Attributes[i] = <<u, index>>) - 1
            ELSE Unmapped
  BY DEF AttributeIndex
<1> HIDE DEF u
<1>3. CASE <<u, index>> \in ToSet(Attributes)
  <2> DEFINE C == CHOOSE i \in DOMAIN Attributes : Attributes[i] = <<u, index>>
  <2>1. \E i \in DOMAIN Attributes : Attributes[i] = <<u, index>>
    BY <1>3 DEF ToSet
  <2>2. C \in DOMAIN Attributes /\ Attributes[C] = <<u, index>>
    BY <2>1, Zenon
  <2> HIDE DEF C
  <2>3. VertexSlot(u, index) = C - 1
    <3>1. Attributes[C][1] = u /\ Attributes[C][2] = index
      BY <2>2
    <3>2. C \in 1..14
      BY <2>2, SlotOfElement
    <3> QED BY <3>1, <3>2, SlotOfElement
  <2>4. ~(u = "position" /\ index # 0)
    BY <1>3, NoSecondPosition
  <2> QED BY <1>1, <1>2, <1>3, <2>3, <2>4 DEF C
<1>4. CASE <<u, index>> \notin ToSet(Attributes)
  <2>1. (u = "position" /\ index # 0) \/ VertexSlot(u, index) = Unmapped
    BY <1>1, <1>4, ElementOfSlot
  <2> QED BY <1>1, <1>2, <1>4, <2>1
<1> QED BY <1>3, <1>4

\* An input of a vertex shader is read from where the viewer puts the elements
\* of a vertex that it stands for, whatever the shader declares: the table of
\* usage_to_attr_idx and the one of create_translated_pso.
THEOREM TablesAgree == Spec => []AttributesAgree
<1>1. TInv => AttributesAgree
  <2> SUFFICES ASSUME TInv, status = "translated", IsVs(prog), NEW n \in Register32
               PROVE  LET declared == {l \in ToSet(msl) : /\ l.text = "declare"
                                                          /\ l.dst = <<"in.v", n>>}
                          meant == {d \in ToSet(prog.dcls) :
                            /\ d.reg.type = "input" /\ d.reg.number = n
                            /\ d.usage \in {"position", "positiont"} => d.index = 0}
                      IN  {l.value : l \in declared} =
                          {<<VertexSlot(d.usage, d.index)>> : d \in meant} \ {<<Unmapped>>}
    BY DEF AttributesAgree
  <2> DEFINE declared == {l \in ToSet(msl) : l.text = "declare" /\ l.dst = <<"in.v", n>>}
             meant == {d \in ToSet(prog.dcls) :
                         /\ d.reg.type = "input" /\ d.reg.number = n
                         /\ d.usage \in {"position", "positiont"} => d.index = 0}
             inputs == {e \in ToSet(prog.dcls) : e.reg.type = "input" /\ Mapped(e)}
             body == Body(prog, done)
             decls == Declarations(prog)
  <2>1. prog \in Programs /\ done \in Nat /\ done <= Len(prog.insts)
    BY DEF TInv, ParseType, BufferType, Programs, InstSeqs
  <2>2. msl = decls \o body
    BY DEF TInv, AllWritten, Finished
  <2>3. IsSeq(body) /\ \A l \in ToSet(body) : l.text \in Texts
    BY <2>1, BodyStates DEF StatesOnly
  <2>4. /\ IsSeq(decls)
        /\ ToSet(decls) = ToSet(VsInputs(prog)) \cup ToSet(VsRest(prog))
    BY <2>1, DeclarationsAre
  <2>5. \A l \in ToSet(VsRest(prog)) : l.dst[1] \in VsNames
    BY <2>1, VsRestNames DEF DeclaresOnly
  <2>6. ToSet(VsInputs(prog)) = {Attribute(d) : d \in inputs}
    BY <2>1, VsInputsAre
  <2>7. ToSet(msl) = ToSet(VsInputs(prog)) \cup ToSet(VsRest(prog)) \cup ToSet(body)
    <3> HIDE DEF decls, body
    <3> QED BY <2>2, <2>3, <2>4, ConcatIsSeq
  <2>8. \A d \in ToSet(prog.dcls) : d.usage \in DclUsages /\ d.index \in 0..15
    <3>1. prog.dcls \in Seq(Dcls)
      BY <2>1 DEF Programs, DclSeqs
    <3>2. ToSet(prog.dcls) \subseteq Dcls
      BY <3>1, IsSeqIf
    <3> QED BY <3>2 DEF Dcls
  <2>9. \A d : /\ Attribute(d).text = "declare"
               /\ Attribute(d).dst = <<"in.v", d.reg.number>>
               /\ Attribute(d).value = <<AttributeIndex(d.usage, d.index)>>
    BY DEF Attribute, Declared
  <2>10. declared = {Attribute(d) : d \in {e \in inputs : e.reg.number = n}}
    <3>1. \A l \in ToSet(VsRest(prog)) : l.dst # <<"in.v", n>>
      <4>1. "in.v" \notin VsNames
        BY DEF VsNames
      <4> QED BY <2>5, <4>1
    <3>2. \A l \in ToSet(body) : l.text # "declare"
      <4>1. "declare" \notin Texts
        BY DEF Texts
      <4> QED BY <2>3, <4>1
    <3>3. \A l \in ToSet(msl) :
            l.text = "declare" /\ l.dst = <<"in.v", n>> => l \in ToSet(VsInputs(prog))
      BY <2>7, <3>1, <3>2
    <3>4. \A d : Attribute(d).dst = <<"in.v", n>> <=> d.reg.number = n
      BY <2>9
    <3>5. \A d \in inputs : Attribute(d) \in ToSet(msl)
      BY <2>6, <2>7
    <3> HIDE DEF inputs
    <3> QED BY <2>6, <2>9, <3>3, <3>4, <3>5
  <2>11. \A d \in ToSet(prog.dcls) :
           AttributeIndex(d.usage, d.index)
             = IF d.usage \in {"position", "positiont"} /\ d.index # 0
                 THEN Unmapped ELSE VertexSlot(d.usage, d.index)
    BY <2>8, SameAttribute
  <2>12. {l.value : l \in declared}
           = {<<AttributeIndex(d.usage, d.index)>> : d \in {e \in inputs : e.reg.number = n}}
    <3> HIDE DEF inputs, declared
    <3> QED BY <2>9, <2>10
  <2>13. {<<AttributeIndex(d.usage, d.index)>> : d \in {e \in inputs : e.reg.number = n}}
           = {<<VertexSlot(d.usage, d.index)>> : d \in meant} \ {<<Unmapped>>}
    <3>1. \A d \in ToSet(prog.dcls) :
            d \in inputs /\ d.reg.number = n
              <=> d \in meant /\ VertexSlot(d.usage, d.index) # Unmapped
      BY <2>11 DEF Mapped
    <3>2. \A d \in inputs : d \in ToSet(prog.dcls)
      OBVIOUS
    <3>3. \A d \in meant : /\ d \in ToSet(prog.dcls)
                           /\ AttributeIndex(d.usage, d.index) = VertexSlot(d.usage, d.index)
      BY <2>11
    <3> HIDE DEF inputs, meant
    <3> QED BY <3>1, <3>2, <3>3
  <2> QED BY <2>12, <2>13
<1> QED BY <1>1, Invariant, PTL

-----------------------------------------------------------------------------
\* Masks.

LEMMA Ranks ==
    ASSUME NEW mask \in SUBSET Components, NEW c \in mask
    PROVE  Rank(mask, c) \in 1..Cardinality(mask)
<1> DEFINE below == {d \in mask : d <= c}
<1>1. IsFiniteSet(mask) /\ Cardinality(mask) \in 0..4
  BY MaskFinite
<1>2. below \in SUBSET mask /\ below # {}
  BY DEF Components
<1> HIDE DEF below
<1>3. IsFiniteSet(below) /\ Cardinality(below) <= Cardinality(mask)
  BY <1>1, <1>2, FS_Subset
<1>4. Cardinality(below) \in Nat /\ Cardinality(below) # 0
  BY <1>2, <1>3, FS_CardinalityType, FS_EmptySet
<1> QED BY <1>1, <1>3, <1>4 DEF Rank, below

\* In a mask without gaps it is the component itself.
LEMMA RankInPrefix ==
    ASSUME NEW n \in 0..4, NEW c \in 0..(n - 1)
    PROVE  Rank(0..(n - 1), c) = c + 1
<1>1. {d \in 0..(n - 1) : d <= c} = 0..c
  OBVIOUS
<1>2. Cardinality(0..c) = c + 1
  <2>1. 0 \in Int /\ c \in Int
    OBVIOUS
  <2>2. Cardinality(0..c) = IF 0 > c THEN 0 ELSE c - 0 + 1
    BY <2>1, FS_Interval, Zenon
  <2> QED BY <2>2
<1> QED BY <1>1, <1>2 DEF Rank

\* What a destination of the parser has that is not without a component.
LEMMA WrittenIs ==
    ASSUME NEW dst \in Registers, dst.mask # {}
    PROVE  /\ Written(dst) \in SUBSET Components /\ Written(dst) # {}
           /\ Cardinality(Written(dst)) \in 1..4
           /\ Cardinality(Written(dst)) = 4 => Written(dst) = 0..3
           /\ dst.type # "depthout" => Width(dst.mask) = Cardinality(Written(dst))
           /\ dst.type = "depthout" => Cardinality(Written(dst)) = 1
<1> DEFINE W == Written(dst)
<1>1. dst.mask \in SUBSET Components
  BY RegisterFields
<1>2. W \in SUBSET Components /\ W # {}
  BY <1>1 DEF Written, Components
<1>3. Cardinality(Components) = 4 /\ IsFiniteSet(Components)
  <2>1. 0 \in Int /\ 3 \in Int
    OBVIOUS
  <2>2. IsFiniteSet(0..3) /\ Cardinality(0..3) = IF 0 > 3 THEN 0 ELSE 3 - 0 + 1
    BY <2>1, FS_Interval, Zenon
  <2> QED BY <2>2 DEF Components
<1>4. dst.type # "depthout" => Width(dst.mask) = Cardinality(W)
  BY DEF Written, Width
<1>5. dst.type = "depthout" => Cardinality(W) = 1
  <2>1. Cardinality({0}) = 1
    BY FS_Singleton, Zenon
  <2>2. dst.type = "depthout" => W = {0}
    BY DEF Written
  <2> HIDE DEF W
  <2> QED BY <2>1, <2>2
<1> HIDE DEF W
<1>6. IsFiniteSet(W) /\ Cardinality(W) \in 0..4
  BY <1>2, MaskFinite
<1>7. Cardinality(W) # 0
  BY <1>2, <1>6, FS_EmptySet
<1>8. Cardinality(W) = 4 => W = 0..3
  BY <1>2, <1>3, FS_Subset DEF Components
<1> QED BY <1>2, <1>4, <1>5, <1>6, <1>7, <1>8 DEF W

\* The components and the width of a destination that can be assigned to.
LEMMA WidthIs ==
    ASSUME NEW inst \in Instructions, Fits(prog, inst.dst)
    PROVE  /\ Written(inst.dst) \in SUBSET Components /\ Written(inst.dst) # {}
           /\ DstWidth(inst) \in 1..4
           /\ DstWidth(inst) = Cardinality(Written(inst.dst))
           /\ DstWidth(inst) = 4 => Written(inst.dst) = 0..3
           /\ inst.dst.type # "depthout" => Width(inst.dst.mask) = DstWidth(inst)
           /\ inst.dst.type = "depthout" =>
                DstWidth(inst) = 1 /\ Written(inst.dst) = {0} /\ Width(inst.dst.mask) = 4
<1> DEFINE d == inst.dst
<1>1. d \in Registers
  BY DEF Instructions
<1>2. d.mask # {} /\ (d.type = "depthout" => d.mask = Components)
  BY DEF Fits
<1>3. Width(Components) = 4
  <2>1. 0 \in Int /\ 3 \in Int
    OBVIOUS
  <2>2. Cardinality(0..3) = IF 0 > 3 THEN 0 ELSE 3 - 0 + 1
    BY <2>1, FS_Interval, Zenon
  <2> QED BY <2>2 DEF Width, Components
<1>4. DstWidth(inst) = IF d.type = "depthout" THEN 1 ELSE Width(d.mask)
  BY DEF DstWidth
<1>5. d.type = "depthout" => Written(d) = {0}
  BY DEF Written
<1> HIDE DEF d
<1>6. /\ Written(d) \in SUBSET Components /\ Written(d) # {}
      /\ Cardinality(Written(d)) \in 1..4
      /\ Cardinality(Written(d)) = 4 => Written(d) = 0..3
      /\ d.type # "depthout" => Width(d.mask) = Cardinality(Written(d))
      /\ d.type = "depthout" => Cardinality(Written(d)) = 1
  BY <1>1, <1>2, WrittenIs
<1> QED BY <1>2, <1>3, <1>4, <1>5, <1>6 DEF d

\* A replicated operand has the same in every component.
LEMMA ReplicatedComponent ==
    ASSUME NEW p, NEW r, Replicated(r), NEW i \in Components
    PROVE  Component(p, r, i) = Component(p, r, 0)
BY DEF Replicated, Component

\* What one component becomes.
Each(p, inst, i) ==
  <<inst.op>> \o [j \in DOMAIN Operands(inst) |-> Component(p, Operands(inst)[j], i)]

\* The operands that are read are among the sources.
LEMMA OperandsAre ==
    ASSUME NEW inst \in Instructions
    PROVE  /\ Operands(inst) \in Seq(Registers)
           /\ \A j \in DOMAIN Operands(inst) :
                j \in DOMAIN inst.src /\ Operands(inst)[j] = inst.src[j]
<1>1. inst.src \in Seq(Registers)
  BY DEF Instructions
<1>2. CASE inst.op = "sgn"
  <2>1. Len(inst.src) = 3
    BY <1>2 DEF Instructions, SrcCount, Arithmetic, NoSource, OneSource, TwoSources,
                ThreeSources
  <2> DEFINE s == inst.src
             R == Registers
  <2>2. s \in Seq(R) /\ Len(s) = 3
    BY <1>1, <2>1
  <2>3. Operands(inst) = SubSeq(s, 1, 1)
    BY <1>2 DEF Operands
  <2> HIDE DEF s, R
  <2>4. /\ SubSeq(s, 1, 1) \in Seq(R) /\ 1 \in DOMAIN s
        /\ DOMAIN SubSeq(s, 1, 1) = {1} /\ SubSeq(s, 1, 1)[1] = s[1]
    BY <2>2
  <2> QED BY <2>3, <2>4 DEF s, R
<1>3. CASE inst.op # "sgn"
  <2>1. Operands(inst) = inst.src
    BY <1>3 DEF Operands
  <2> QED BY <1>1, <2>1
<1> QED BY <1>2, <1>3

LEMMA AfterFirst ==
    ASSUME NEW L, NEW x \in L, NEW a \in Seq(L), NEW b \in Seq(L),
           <<x>> \o a = <<x>> \o b
    PROVE  a = b
<1>1. <<x>> \in Seq(L) /\ Len(<<x>>) = 1
  OBVIOUS
<1>2. /\ Len(<<x>> \o a) = 1 + Len(a) /\ Len(<<x>> \o b) = 1 + Len(b)
      /\ \A j \in 1..Len(a) : (<<x>> \o a)[1 + j] = a[j]
      /\ \A j \in 1..Len(b) : (<<x>> \o b)[1 + j] = b[j]
  BY <1>1
<1>3. Len(a) = Len(b) /\ Len(a) \in Nat
  BY <1>2
<1>4. \A j \in 1..Len(a) : a[j] = b[j]
  BY <1>2, <1>3
<1> QED BY <1>3, <1>4, SeqEqual

\* Two components become the same if all their operands are the same.
LEMMA EachSame ==
    ASSUME NEW inst \in Instructions, NEW i, NEW k
    PROVE  Each(prog, inst, i) = Each(prog, inst, k) <=>
             \A j \in DOMAIN Operands(inst) :
               Component(prog, inst.src[j], i) = Component(prog, inst.src[j], k)
<1> DEFINE src == Operands(inst)
           n == Len(src)
           a == [j \in DOMAIN src |-> Component(prog, src[j], i)]
           b == [j \in DOMAIN src |-> Component(prog, src[j], k)]
           L == {inst.op} \cup {a[j] : j \in DOMAIN src} \cup {b[j] : j \in DOMAIN src}
<1>1. /\ DOMAIN src = 1..n /\ n \in Nat
      /\ \A j \in DOMAIN src : src[j] = inst.src[j]
  <2>1. src \in Seq(Registers) /\ \A j \in DOMAIN src : src[j] = inst.src[j]
    BY OperandsAre
  <2> DEFINE R == Registers
  <2>2. src \in Seq(R)
    BY <2>1
  <2> HIDE DEF src, R
  <2> QED BY <2>1, <2>2
<1>2. Each(prog, inst, i) = <<inst.op>> \o a /\ Each(prog, inst, k) = <<inst.op>> \o b
  BY Zenon DEF Each
<1>3. a = b <=> \A j \in DOMAIN src :
                  Component(prog, src[j], i) = Component(prog, src[j], k)
  <2> HIDE DEF src
  <2> QED OBVIOUS
<1>4. inst.op \in L /\ a \in Seq(L) /\ b \in Seq(L)
  <2>1. DOMAIN a = 1..n /\ DOMAIN b = 1..n
    <3> HIDE DEF src, n
    <3> QED BY <1>1
  <2>2. a = [j \in 1..n |-> a[j]] /\ b = [j \in 1..n |-> b[j]]
    <3> HIDE DEF src, n
    <3> QED BY <1>1
  <2> HIDE DEF src, n, a, b
  <2>3. inst.op \in L /\ \A j \in 1..n : a[j] \in L /\ b[j] \in L
    BY <1>1
  <2> HIDE DEF L
  <2>4. a \in Seq(L)
    BY <1>1, <2>2, <2>3
  <2>5. b \in Seq(L)
    BY <1>1, <2>2, <2>3
  <2> QED BY <2>3, <2>4, <2>5
<1> HIDE DEF L, a, b, src
<1>5. Each(prog, inst, i) = Each(prog, inst, k) => a = b
  BY <1>2, <1>4, AfterFirst
<1>6. a = b => Each(prog, inst, i) = Each(prog, inst, k)
  BY <1>2
<1>7. a = b <=> \A j \in DOMAIN src :
                  Component(prog, inst.src[j], i) = Component(prog, inst.src[j], k)
  BY <1>1, <1>3
<1> QED BY <1>5, <1>6, <1>7, Zenon DEF src

LEMMA EachReplicated ==
    ASSUME NEW inst \in Instructions, AllReplicated(inst), NEW i \in Components
    PROVE  Each(prog, inst, i) = Each(prog, inst, 0)
<1>1. ASSUME NEW j \in DOMAIN Operands(inst)
      PROVE  Component(prog, inst.src[j], i) = Component(prog, inst.src[j], 0)
  <2>1. j \in DOMAIN inst.src
    BY OperandsAre
  <2>2. Replicated(inst.src[j])
    BY <2>1, Zenon DEF AllReplicated
  <2> QED BY <2>2, ReplicatedComponent
<1> QED BY <1>1, EachSame

\* The operations that give all four components.
Fours == {"nrm", "crs", "dst", "lit", "texld", "texldl"} \cup Matrices

IsFour(v) == v = [i \in 1..4 |-> v[i]] /\ Len(v) = 4

LEMMA FourComponents ==
    ASSUME NEW p, NEW inst, inst.op \in Fours
    PROVE  IsFour(Vector4(p, inst))
<1>1. CASE inst.op = "nrm"
  <2> DEFINE v == [i \in 1..4 |-> <<"nrm", i, Source(p, inst.src[1], 3)>>]
  <2>1. Vector4(p, inst) = v
    BY <1>1 DEF Vector4, Matrices
  <2>2. IsFour(v)
    BY DEF IsFour
  <2> QED BY <2>1, <2>2
<1>2. CASE inst.op = "crs"
  <2> DEFINE v == [i \in 1..4 |-> <<"crs", i, Source(p, inst.src[1], 3), Source(p, inst.src[2], 3)>>]
  <2>1. Vector4(p, inst) = v
    BY <1>2 DEF Vector4, Matrices
  <2>2. IsFour(v)
    BY DEF IsFour
  <2> QED BY <2>1, <2>2
<1>3. CASE inst.op = "dst"
  <2> DEFINE v == <<<<"1.0">>, <<"mul", Component(p, inst.src[1], 1), Component(p, inst.src[2], 1)>>,
                <<"mov", Component(p, inst.src[1], 2)>>,
                <<"mov", Component(p, inst.src[2], 3)>>>>
  <2>1. Vector4(p, inst) = v
    BY <1>3 DEF Vector4, Matrices
  <2>2. IsFour(v)
    BY DEF IsFour
  <2> QED BY <2>1, <2>2
<1>4. CASE inst.op = "lit"
  <2> DEFINE v == [i \in 1..4 |-> <<"lit", i, Source(p, inst.src[1], 4)>>]
  <2>1. Vector4(p, inst) = v
    BY <1>4 DEF Vector4, Matrices
  <2>2. IsFour(v)
    BY DEF IsFour
  <2> QED BY <2>1, <2>2
<1>5. CASE inst.op = "texld"
  <2> DEFINE v == [i \in 1..4 |->
                <<"sample", i, inst.src[2].number,
                  Source(p, inst.src[1], SamplerWidth(p, inst.src[2].number))>>]
  <2>1. Vector4(p, inst) = v
    BY <1>5 DEF Vector4, Matrices
  <2>2. IsFour(v)
    BY DEF IsFour
  <2> QED BY <2>1, <2>2
<1>6. CASE inst.op = "texldl"
  <2> DEFINE v == [i \in 1..4 |->
                <<"level", i, inst.src[2].number, Component(p, inst.src[1], 3),
                  Source(p, inst.src[1], SamplerWidth(p, inst.src[2].number))>>]
  <2>1. Vector4(p, inst) = v
    BY <1>6 DEF Vector4, Matrices
  <2>2. IsFour(v)
    BY DEF IsFour
  <2> QED BY <2>1, <2>2
<1>7. CASE inst.op \in Matrices
  <2> DEFINE v == [i \in 1..4 |->
                IF i <= MatrixRows(inst.op)
                  THEN <<"dot", Source(p, inst.src[1], MatrixColumns(inst.op)), Row(inst, i)>>
                ELSE IF i = 4 THEN <<"1.0">> ELSE <<"0.0">>]
  <2>1. Vector4(p, inst) = v
    BY <1>7, Zenon DEF Vector4, Matrices
  <2>2. IsFour(v)
    BY DEF IsFour
  <2> QED BY <2>1, <2>2
<1> QED BY <1>1, <1>2, <1>3, <1>4, <1>5, <1>6, <1>7 DEF Fours

\* An assignment that compiles and leaves what is meant.
Right(inst) == Assigned(prog, inst) # <<>> /\ Assigned(prog, inst) = Meant(inst)

\* What both sides of it take to compile.
CompilesAs(inst) == Fits(prog, inst.dst) /\ OperandsCompile(prog, inst)

LEMMA RightIs ==
    ASSUME NEW inst, NEW W, W = Written(inst.dst), NEW value, value = Fitted(prog, inst)
    PROVE  Right(inst) <=>
             /\ CompilesAs(inst) /\ Len(value) = DstWidth(inst)
             /\ \A c \in W : value[Rank(W, c)] = AllComponents(inst)[c + 1]
<1> DEFINE n == DstWidth(inst)
           all == AllComponents(inst)
           given == [c \in W |-> value[Rank(W, c)]]
           meant == [c \in W |-> all[c + 1]]
<1>1. Assigned(prog, inst) =
        IF CompilesAs(inst) /\ Len(value) = n THEN given ELSE <<>>
  BY DEF Assigned, Assigns, CompilesAs
<1>2. Meant(inst) = meant
  BY Zenon DEF Meant
<1>3. CompilesAs(inst) => W # {}
  BY DEF CompilesAs, Fits, Written
<1> HIDE DEF n, all
<1>4. W # {} => given # <<>>
  <2> SUFFICES ASSUME W # {}, given = <<>> PROVE FALSE
    OBVIOUS
  <2>1. DOMAIN given = W /\ DOMAIN <<>> = {}
    OBVIOUS
  <2> HIDE DEF given
  <2> QED BY <2>1
<1>5. given = meant <=> \A c \in W : value[Rank(W, c)] = all[c + 1]
  OBVIOUS
<1> HIDE DEF given, meant
<1>6. Right(inst) <=> /\ CompilesAs(inst) /\ Len(value) = n
                      /\ given = meant
  <2>1. CASE CompilesAs(inst) /\ Len(value) = n
    BY <1>1, <1>2, <1>3, <1>4, <2>1, Zenon DEF Right
  <2>2. CASE ~(CompilesAs(inst) /\ Len(value) = n)
    BY <1>1, <2>2, Zenon DEF Right
  <2> QED BY <2>1, <2>2, Zenon
<1> QED BY <1>5, <1>6, Zenon DEF n, all

LEMMA Disjoint ==
    /\ Scalars \cap (Elementwise \cup Selects \cup Fours) = {}
    /\ Elementwise \cap (Selects \cup Fours) = {} /\ Selects \cap Fours = {}
    /\ Matrices \cup {"lit"} \subseteq Fours /\ "dst" \notin Matrices \cup {"lit"}
BY DEF Scalars, Elementwise, Selects, Fours, Matrices

\* The components of the operands one by one.
LEMMA EachIs ==
    ASSUME NEW inst, NEW n \in Nat
    PROVE  EachComponent(prog, inst, n) = [i \in 1..n |-> Each(prog, inst, i - 1)]
BY Zenon DEF EachComponent, Each

IsTuple(v, n) == v = [i \in 1..n |-> v[i]]

LEMMA CutToAll ==
    ASSUME NEW n \in 1..4, NEW rhs, IsTuple(rhs, n), NEW m \in 1..n, n # 1
    PROVE  /\ Truncate(rhs, m) = [i \in 1..m |-> rhs[i]]
           /\ Len(Truncate(rhs, m)) = m
<1> DEFINE R == {rhs[i] : i \in 1..n}
<1>1. rhs \in [1..n -> R] /\ Len(rhs) = n
  BY DEF IsTuple
<1> HIDE DEF R
<1>2. Truncate(rhs, m) = SubSeq(rhs, 1, m)
  BY <1>1 DEF Truncate
<1>3. SubSeq(rhs, 1, m) = [i \in 1..m |-> rhs[i]]
  BY <1>1
<1>4. Len([i \in 1..m |-> rhs[i]]) = m
  <2>1. m \in Nat
    OBVIOUS
  <2> QED BY <2>1
<1> QED BY <1>2, <1>3, <1>4

\* The cases of Handled one by one.
LEMMA HandledIs ==
    ASSUME NEW inst, CompilesAs(inst)
    PROVE  /\ inst.op \in Scalars => Handled(inst)
           /\ inst.op \in Elementwise => (Handled(inst) <=> LinedUp(inst))
           /\ inst.op \in Selects =>
                (Handled(inst) <=>
                   IF inst.dst.type = "depthout" THEN ~AllReplicated(inst)
                   ELSE IF DstWidth(inst) = 1 THEN AllReplicated(inst)
                   ELSE LinedUp(inst))
           /\ inst.op \in Matrices \cup {"lit"} => (Handled(inst) <=> DstWidth(inst) = 4)
           /\ inst.op \in Fours \ (Matrices \cup {"lit"}) =>
                (Handled(inst) <=>
                   DstWidth(inst) = 4 \/ (PrefixMask(inst) /\ ~AllReplicated(inst)))
<1> DEFINE scalar == inst.op \in Scalars
           each == inst.op \in Elementwise
           select == inst.op \in Selects
           block == inst.op \in Matrices \cup {"lit"}
           other == inst.op \in {"nrm", "crs", "dst"} \cup Sampled
           lined == LinedUp(inst)
           selected == IF inst.dst.type = "depthout" THEN ~AllReplicated(inst)
                       ELSE IF DstWidth(inst) = 1 THEN AllReplicated(inst)
                       ELSE LinedUp(inst)
           full == DstWidth(inst) = 4
           first == DstWidth(inst) = 4 \/ (PrefixMask(inst) /\ ~AllReplicated(inst))
<1>1. Fits(prog, inst.dst) /\ OperandsCompile(prog, inst)
  BY DEF CompilesAs
<1>2. Handled(inst) <=>
        /\ Fits(prog, inst.dst) /\ OperandsCompile(prog, inst)
        /\ each => lined
        /\ select => selected
        /\ block => full
        /\ other => first
  BY Zenon DEF Handled
<1>3. /\ ~(block /\ select) /\ ~(block /\ each) /\ ~(block /\ scalar) /\ ~(block /\ other)
      /\ ~(select /\ each) /\ ~(select /\ scalar) /\ ~(select /\ other)
      /\ ~(each /\ scalar) /\ ~(each /\ other) /\ ~(scalar /\ other)
  BY DEF Scalars, Elementwise, Selects, Matrices, Sampled
<1>4. inst.op \in Fours \ (Matrices \cup {"lit"}) => other
  BY DEF Fours, Sampled
<1> HIDE DEF scalar, each, select, block, other, lined, selected, full, first
<1>5. /\ scalar => Handled(inst)
      /\ each => (Handled(inst) <=> lined)
      /\ select => (Handled(inst) <=> selected)
      /\ block => (Handled(inst) <=> full)
      /\ other => (Handled(inst) <=> first)
  BY <1>1, <1>2, <1>3, Zenon
<1> QED BY <1>4, <1>5, Zenon DEF scalar, each, select, block, lined, selected, full, first

LEMMA ScalarMask ==
    ASSUME NEW inst \in Instructions, inst.op \in Scalars, CompilesAs(inst)
    PROVE  Right(inst)
<1> DEFINE n == DstWidth(inst)
           v == ScalarValue(prog, inst)
           value == [i \in 1..n |-> v]
           W == Written(inst.dst)
<1>1. n \in 1..4 /\ W \in SUBSET Components /\ n = Cardinality(W)
  BY WidthIs DEF CompilesAs
<1>2. inst.op \notin Matrices \cup {"lit"} /\ inst.op \notin Elementwise \cup Selects
  BY Disjoint
<1>3. Fitted(prog, inst) = value
  <2>1. IsScalar(inst)
    BY DEF IsScalar
  <2>2. \A m : Rhs(prog, inst, m) = <<v>>
    BY <1>2 DEF Rhs
  <2>3. Fitted(prog, inst) = [i \in 1..n |-> <<v>>[1]]
    BY <1>2, <2>1, <2>2, Zenon DEF Fitted, FittedTo, CutDown
  <2> HIDE DEF v, n
  <2> QED BY <2>3
<1>4. AllComponents(inst) = [i \in 1..4 |-> v]
  BY DEF AllComponents
<1> HIDE DEF n, v, W
<1>5. Len(value) = n
  BY <1>1
<1>6. ASSUME NEW c \in W PROVE value[Rank(W, c)] = AllComponents(inst)[c + 1]
  <2>1. Rank(W, c) \in 1..n /\ c + 1 \in 1..4
    BY <1>1, Ranks DEF Components
  <2> QED BY <1>4, <2>1
<1> HIDE DEF value
<1> QED BY <1>3, <1>5, <1>6, RightIs DEF n, W

\* What is made component by component is right if the operands have the same
\* at the places that are taken and at those that are meant.
LEMMA EachRight ==
    ASSUME NEW inst \in Instructions, inst.op \in Elementwise \cup Selects,
           CompilesAs(inst),
           Fitted(prog, inst) = [i \in 1..DstWidth(inst) |-> Each(prog, inst, i - 1)]
    PROVE  Right(inst) <=> LinedUp(inst)
<1> DEFINE n == DstWidth(inst)
           W == Written(inst.dst)
           value == [i \in 1..n |-> Each(prog, inst, i - 1)]
           Same(c) == \A j \in DOMAIN Operands(inst) :
                        Component(prog, inst.src[j], Rank(W, c) - 1) =
                          Component(prog, inst.src[j], c)
<1>1. n \in 1..4 /\ W \in SUBSET Components /\ n = Cardinality(W)
  BY WidthIs DEF CompilesAs
<1>2. AllComponents(inst) = [i \in 1..4 |-> Each(prog, inst, i - 1)]
  <2>1. inst.op \notin Scalars
    BY Disjoint
  <2>2. AllComponents(inst) = EachComponent(prog, inst, 4)
    BY <2>1 DEF AllComponents, Rhs
  <2>3. 4 \in Nat
    OBVIOUS
  <2> QED BY <2>2, <2>3, EachIs, Zenon
<1>3. LinedUp(inst) <=> \A c \in W : Same(c)
  BY Zenon DEF LinedUp
<1>4. ASSUME NEW c
      PROVE  Each(prog, inst, Rank(W, c) - 1) = Each(prog, inst, c) <=> Same(c)
  <2> DEFINE i == Rank(W, c) - 1
  <2>1. Each(prog, inst, i) = Each(prog, inst, c) <=>
          \A j \in DOMAIN Operands(inst) :
            Component(prog, inst.src[j], i) = Component(prog, inst.src[j], c)
    <3> HIDE DEF i, n, W, value
    <3> QED BY EachSame
  <2> HIDE DEF n, W, value
  <2> QED BY <2>1, Zenon
<1> HIDE DEF n, W, Same
<1>5. Len(value) = n
  <2>1. n \in Nat
    BY <1>1
  <2> QED BY <2>1
<1>6. ASSUME NEW c \in W
      PROVE  value[Rank(W, c)] = AllComponents(inst)[c + 1] <=> Same(c)
  <2>1. c + 1 \in 1..4 /\ (c + 1) - 1 = c
    BY <1>1 DEF Components
  <2>2. AllComponents(inst)[c + 1] = Each(prog, inst, c)
    BY <1>2, <2>1
  <2>3. Rank(W, c) \in 1..n
    BY <1>1, Ranks
  <2>4. value[Rank(W, c)] = Each(prog, inst, Rank(W, c) - 1)
    BY <2>3
  <2> QED BY <1>4, <2>2, <2>4
<1>7. Fitted(prog, inst) = value
  BY DEF n
<1> HIDE DEF value
<1>8. Right(inst) <=> \A c \in W : value[Rank(W, c)] = AllComponents(inst)[c + 1]
  BY <1>5, <1>7, RightIs DEF n, W
<1> QED BY <1>3, <1>6, <1>8

\* A vector that has a component for each of the mask is not changed by cutting.
LEMMA NotCut ==
    ASSUME NEW n \in 2..4, NEW f
    PROVE  Truncate([i \in 1..n |-> f[i]], n) = [i \in 1..n |-> f[i]]
<1> DEFINE rhs == [i \in 1..n |-> f[i]]
<1>1. IsTuple(rhs, n) /\ n \in 1..4 /\ n \in 1..n /\ n # 1
  BY DEF IsTuple
<1> HIDE DEF rhs
<1>2. Truncate(rhs, n) = [i \in 1..n |-> rhs[i]]
  BY <1>1, CutToAll
<1>3. Truncate(rhs, n) = rhs
  BY <1>1, <1>2 DEF IsTuple
<1> QED BY <1>3 DEF rhs

LEMMA ElementwiseMask ==
    ASSUME NEW inst \in Instructions, inst.op \in Elementwise, CompilesAs(inst)
    PROVE  Right(inst) <=> LinedUp(inst)
<1> DEFINE n == DstWidth(inst)
           f == [i \in 1..4 |-> Each(prog, inst, i - 1)]
           value == [i \in 1..n |-> f[i]]
<1>1. n \in 1..4
  BY WidthIs DEF CompilesAs
<1>2. inst.op \notin Matrices \cup {"lit"} /\ inst.op \notin Selects /\ inst.op \notin Scalars
  BY Disjoint
<1>3. Rhs(prog, inst, n) = value
  <2> HIDE DEF n
  <2>1. Rhs(prog, inst, n) = EachComponent(prog, inst, n)
    BY <1>2 DEF Rhs
  <2>2. n \in Nat
    BY <1>1
  <2>3. EachComponent(prog, inst, n) = [i \in 1..n |-> Each(prog, inst, i - 1)]
    BY <2>2, EachIs
  <2>4. \A i \in 1..n : f[i] = Each(prog, inst, i - 1)
    BY <1>1
  <2> QED BY <2>1, <2>3, <2>4
<1> HIDE DEF f
<1>4. ASSUME n = 1 PROVE Fitted(prog, inst) = value
  <2>1. IsScalar(inst)
    BY <1>4 DEF IsScalar
  <2>2. Fitted(prog, inst) = [i \in 1..n |-> Rhs(prog, inst, n)[1]]
    BY <1>2, <2>1 DEF Fitted, FittedTo, CutDown
  <2> HIDE DEF n
  <2>3. Fitted(prog, inst) = value
    BY <1>3, <1>4, <2>2
  <2> QED BY <2>3
<1>5. ASSUME n # 1 PROVE Fitted(prog, inst) = value
  <2>1. ~IsScalar(inst)
    BY <1>2, <1>5 DEF IsScalar
  <2> DEFINE cut == /\ ~IsScalar(inst) /\ n < 4
                    /\ \E i \in DOMAIN inst.src : ~Replicated(inst.src[i])
  <2>2. Fitted(prog, inst) = IF cut THEN Truncate(Rhs(prog, inst, n), n) ELSE Rhs(prog, inst, n)
    BY <1>2, <2>1 DEF Fitted, FittedTo, CutDown
  <2> HIDE DEF n, cut
  <2>3. n \in 2..4
    BY <1>1, <1>5
  <2>4. Truncate(value, n) = value
    BY <2>3, NotCut
  <2> QED BY <1>3, <2>2, <2>4
<1>6. Fitted(prog, inst) = value
  BY <1>4, <1>5, Zenon
<1>7. value = [i \in 1..n |-> Each(prog, inst, i - 1)]
  <2> HIDE DEF n
  <2> QED BY <1>1 DEF f
<1> QED BY <1>6, <1>7, EachRight

\* Operands that are the same everywhere are the same at any two places.
LEMMA ReplicatedLinesUp ==
    ASSUME NEW inst \in Instructions, Fits(prog, inst.dst), AllReplicated(inst)
    PROVE  LinedUp(inst)
<1> DEFINE W == Written(inst.dst)
<1>1. W \in SUBSET Components /\ Cardinality(W) \in 1..4
  BY WidthIs
<1>2. ASSUME NEW c \in W, NEW j \in DOMAIN Operands(inst)
      PROVE  Component(prog, inst.src[j], Rank(W, c) - 1) = Component(prog, inst.src[j], c)
  <2> HIDE DEF W
  <2>1. Rank(W, c) \in 1..Cardinality(W)
    BY <1>1, Ranks
  <2>2. c \in Components /\ Rank(W, c) - 1 \in Components
    BY <1>1, <2>1 DEF Components
  <2>3. j \in DOMAIN inst.src
    BY OperandsAre
  <2>4. Replicated(inst.src[j])
    BY <2>3, Zenon DEF AllReplicated
  <2>5. /\ Component(prog, inst.src[j], c) = Component(prog, inst.src[j], 0)
        /\ Component(prog, inst.src[j], Rank(W, c) - 1) = Component(prog, inst.src[j], 0)
    BY <2>2, <2>4, ReplicatedComponent
  <2> QED BY <2>5
<1> QED BY <1>2, Zenon DEF LinedUp

\* Comparisons are made as wide as the mask of the destination and cut down
\* like vectors, if they are of one component too.
LEMMA SelectsFitted ==
    ASSUME NEW inst \in Instructions, inst.op \in Selects, NEW m,
           m = Width(inst.dst.mask), m \in 1..4
    PROVE  Fitted(prog, inst) =
             LET rhs == [i \in 1..m |-> Each(prog, inst, i - 1)] IN
             IF DstWidth(inst) < 4 /\ ~AllReplicated(inst)
               THEN Truncate(rhs, DstWidth(inst)) ELSE rhs
<1> DEFINE n == DstWidth(inst)
           rhs == [i \in 1..m |-> Each(prog, inst, i - 1)]
<1>1. /\ inst.op \notin Matrices \cup {"lit"} /\ inst.op \notin Elementwise
      /\ inst.op \notin Scalars
  BY Disjoint
<1>2. ~IsScalar(inst)
  BY <1>1 DEF IsScalar
<1>3. Rhs(prog, inst, m) = rhs
  <2>1. Rhs(prog, inst, m) = EachComponent(prog, inst, m)
    BY <1>1 DEF Rhs
  <2>2. m \in Nat
    OBVIOUS
  <2> QED BY <2>1, <2>2, EachIs
<1> DEFINE cut == n < 4 /\ \E i \in DOMAIN inst.src : ~Replicated(inst.src[i])
<1>4. Fitted(prog, inst) = IF cut THEN Truncate(Rhs(prog, inst, m), n) ELSE Rhs(prog, inst, m)
  BY <1>1, <1>2 DEF Fitted, FittedTo, CutDown
<1>5. cut <=> n < 4 /\ ~AllReplicated(inst)
  BY Zenon DEF AllReplicated
<1> HIDE DEF cut, rhs, n
<1>6. Fitted(prog, inst) = IF n < 4 /\ ~AllReplicated(inst) THEN Truncate(rhs, n) ELSE rhs
  BY <1>3, <1>4, <1>5
<1> QED BY <1>6 DEF rhs, n

LEMMA SelectsMask ==
    ASSUME NEW inst \in Instructions, inst.op \in Selects, CompilesAs(inst)
    PROVE  Right(inst) <=>
             IF inst.dst.type = "depthout" THEN ~AllReplicated(inst)
             ELSE IF DstWidth(inst) = 1 THEN AllReplicated(inst)
             ELSE LinedUp(inst)
<1> DEFINE n == DstWidth(inst)
           m == Width(inst.dst.mask)
           W == Written(inst.dst)
           depth == inst.dst.type = "depthout"
           f == [i \in 1..4 |-> Each(prog, inst, i - 1)]
           rhs == [i \in 1..m |-> Each(prog, inst, i - 1)]
           value == Fitted(prog, inst)
           all == AllComponents(inst)
           replicated == AllReplicated(inst)
<1>1. /\ n \in 1..4 /\ W \in SUBSET Components /\ n = Cardinality(W)
      /\ ~depth => m = n
      /\ depth => n = 1 /\ W = {0} /\ m = 4
  BY WidthIs DEF CompilesAs
<1>2. m \in 1..4
  <2> HIDE DEF n, m, depth
  <2> QED BY <1>1
<1>3. value = IF n < 4 /\ ~replicated THEN Truncate(rhs, n) ELSE rhs
  BY <1>2, SelectsFitted, Zenon
<1>4. all = f
  <2>1. inst.op \notin Scalars
    BY Disjoint
  <2>2. all = EachComponent(prog, inst, 4)
    BY <2>1 DEF AllComponents, Rhs
  <2>3. 4 \in Nat
    OBVIOUS
  <2> QED BY <2>2, <2>3, EachIs, Zenon
<1>5. rhs = [i \in 1..m |-> f[i]]
  <2> HIDE DEF m
  <2> QED BY <1>2
<1>6. Right(inst) <=> Len(value) = n /\ \A c \in W : value[Rank(W, c)] = all[c + 1]
  <2> HIDE DEF all, value, n, W
  <2> QED BY RightIs DEF all, value, n, W
<1>7. CASE depth
  <2>1. n = 1 /\ W = {0} /\ m = 4
    BY <1>1, <1>7
  <2>2. CASE replicated
    <3>1. value = rhs
      BY <1>3, <2>2
    <3>2. Len(rhs) = 4
      <4> HIDE DEF m, f
      <4> QED BY <1>5, <2>1
    <3>3. ~Right(inst)
      <4> HIDE DEF value, rhs, n, W
      <4> QED BY <1>6, <2>1, <3>1, <3>2
    <3> QED BY <1>7, <2>2, <3>3
  <2>3. CASE ~replicated
    <3> HIDE DEF n, m, W, value, rhs, all, f
    <3>1. value = Truncate(rhs, 1)
      BY <1>3, <2>1, <2>3
    <3>2. rhs = [i \in 1..4 |-> f[i]]
      BY <1>5, <2>1
    <3>3. IsTuple(rhs, 4) /\ 4 \in 1..4 /\ 1 \in 1..4 /\ 4 # 1
      BY <3>2 DEF IsTuple
    <3>4. value = [i \in 1..1 |-> rhs[i]] /\ Len(value) = 1
      BY <3>1, <3>3, CutToAll
    <3>5. value[1] = f[1]
      BY <3>2, <3>4
    <3>6. Rank(W, 0) = 1
      <4>1. 0 \in W /\ W \in SUBSET Components /\ Cardinality(W) = 1
        BY <1>1, <2>1
      <4>2. Rank(W, 0) \in 1..Cardinality(W)
        BY <4>1, Ranks
      <4> QED BY <4>1, <4>2
    <3>7. Right(inst)
      BY <1>4, <1>6, <2>1, <3>4, <3>5, <3>6
    <3> QED BY <1>7, <2>3, <3>7
  <2> QED BY <2>2, <2>3
<1>8. CASE ~depth /\ n = 1
  <2>1. m = 1
    BY <1>1, <1>8
  <2>2. Len(rhs) = 1
    <3> HIDE DEF m, f
    <3> QED BY <1>5, <2>1
  <2>3. CASE replicated
    <3>1. value = [i \in 1..DstWidth(inst) |-> Each(prog, inst, i - 1)]
      <4>1. value = rhs
        BY <1>3, <2>3
      <4>2. m = DstWidth(inst)
        BY <1>8, <2>1
      <4> HIDE DEF value, m
      <4> QED BY <4>1, <4>2
    <3>2. Right(inst) <=> LinedUp(inst)
      BY <3>1, EachRight
    <3>3. LinedUp(inst)
      BY <2>3, ReplicatedLinesUp DEF CompilesAs
    <3> QED BY <1>8, <2>3, <3>2, <3>3
  <2>4. CASE ~replicated
    <3>1. value = Truncate(rhs, n)
      <4> HIDE DEF n, rhs, value, replicated
      <4> QED BY <1>3, <1>8, <2>4
    <3>2. value = <<>>
      <4> HIDE DEF rhs, value
      <4> QED BY <2>2, <3>1 DEF Truncate
    <3>3. ~Right(inst)
      <4> HIDE DEF value, n, W, all
      <4> QED BY <1>6, <1>8, <3>2
    <3> QED BY <1>8, <2>4, <3>3
  <2> QED BY <2>3, <2>4
<1>9. CASE ~depth /\ n # 1
  <2>1. value = [i \in 1..n |-> Each(prog, inst, i - 1)]
    <3> HIDE DEF n, m, value, f, replicated, depth
    <3>1. m = n /\ n \in 2..4
      BY <1>1, <1>9
    <3>2. Truncate(rhs, n) = rhs
      <4>1. rhs = [i \in 1..n |-> f[i]]
        BY <1>5, <3>1
      <4> HIDE DEF rhs
      <4> QED BY <3>1, <4>1, NotCut
    <3> QED BY <1>3, <3>1, <3>2
  <2>2. Right(inst) <=> LinedUp(inst)
    BY <2>1, EachRight
  <2> QED BY <1>9, <2>2
<1> QED BY <1>7, <1>8, <1>9

\* The components of these are different, whatever the operands are.
LEMMA FoursDiffer ==
    ASSUME NEW p, NEW inst, inst.op \in Fours \ (Matrices \cup {"lit", "dst"}),
           NEW i \in 1..4, NEW k \in 1..4, Vector4(p, inst)[i] = Vector4(p, inst)[k]
    PROVE  i = k
<1>1. CASE inst.op = "nrm"
  <2> DEFINE x == Source(p, inst.src[1], 3)
  <2>1. Vector4(p, inst) = [j \in 1..4 |-> <<"nrm", j, x>>]
    BY <1>1 DEF Vector4, Matrices
  <2> HIDE DEF x
  <2> QED BY <2>1
<1>2. CASE inst.op = "crs"
  <2> DEFINE x == Source(p, inst.src[1], 3)
             y == Source(p, inst.src[2], 3)
  <2>1. Vector4(p, inst) = [j \in 1..4 |-> <<"crs", j, x, y>>]
    BY <1>2 DEF Vector4, Matrices
  <2> HIDE DEF x, y
  <2> QED BY <2>1
<1>3. CASE inst.op = "texld"
  <2> DEFINE x == inst.src[2].number
             y == Source(p, inst.src[1], SamplerWidth(p, inst.src[2].number))
  <2>1. Vector4(p, inst) = [j \in 1..4 |-> <<"sample", j, x, y>>]
    BY <1>3 DEF Vector4, Matrices
  <2> HIDE DEF x, y
  <2> QED BY <2>1
<1>4. CASE inst.op = "texldl"
  <2> DEFINE x == inst.src[2].number
             y == Component(p, inst.src[1], 3)
             z == Source(p, inst.src[1], SamplerWidth(p, inst.src[2].number))
  <2>1. Vector4(p, inst) = [j \in 1..4 |-> <<"level", j, x, y, z>>]
    BY <1>4 DEF Vector4, Matrices
  <2> HIDE DEF x, y, z
  <2> QED BY <2>1
<1> QED BY <1>1, <1>2, <1>3, <1>4 DEF Fours

\* A mask whose components are all at their own places leaves none out.
LEMMA InPlaceIsPrefix ==
    ASSUME NEW W \in SUBSET Components, \A c \in W : Rank(W, c) = c + 1
    PROVE  W = 0..(Cardinality(W) - 1)
<1> DEFINE n == Cardinality(W)
<1>1. n \in 0..4
  BY MaskFinite
<1>2. \A c \in W : c \in Components /\ Rank(W, c) \in 1..n
  BY Ranks
<1> HIDE DEF n
<1>3. W \subseteq 0..(n - 1)
  BY <1>1, <1>2 DEF Components
<1>4. IsFiniteSet(0..(n - 1)) /\ Cardinality(0..(n - 1)) = n
  <2>1. 0 \in Int /\ n - 1 \in Int
    BY <1>1
  <2>2. /\ IsFiniteSet(0..(n - 1))
        /\ Cardinality(0..(n - 1)) = IF 0 > n - 1 THEN 0 ELSE (n - 1) - 0 + 1
    BY <2>1, FS_Interval, Zenon
  <2> QED BY <1>1, <2>2
<1> QED BY <1>3, <1>4, FS_Subset DEF n

\* The operations that give four components, of which the first ones are taken.
LEMMA FoursMask ==
    ASSUME NEW inst \in Instructions, inst.op \in Fours, CompilesAs(inst)
    PROVE  /\ Handled(inst) => Right(inst)
           /\ Right(inst) /\ inst.op # "dst" => Handled(inst)
<1> DEFINE n == DstWidth(inst)
           rhs == Vector4(prog, inst)
           W == Written(inst.dst)
           value == Fitted(prog, inst)
           all == AllComponents(inst)
           first == [i \in 1..n |-> rhs[i]]
           block == inst.op \in Matrices \cup {"lit"}
           replicated == AllReplicated(inst)
           prefix == PrefixMask(inst)
<1>1. /\ n \in 1..4 /\ W \in SUBSET Components /\ n = Cardinality(W)
      /\ n = 4 => W = 0..(n - 1)
  <2>1. n \in 1..4 /\ W \in SUBSET Components /\ n = Cardinality(W) /\ (n = 4 => W = 0..3)
    BY WidthIs DEF CompilesAs
  <2>2. n = 4 => n - 1 = 3
    OBVIOUS
  <2> HIDE DEF n, W
  <2>3. n = 4 => W = 0..(n - 1)
    BY <2>1, <2>2, Zenon
  <2> QED BY <2>1, <2>3
<1>2. inst.op \notin Elementwise /\ inst.op \notin Selects /\ inst.op \notin Scalars
  BY Disjoint
<1>3. rhs = [i \in 1..4 |-> rhs[i]] /\ Len(rhs) = 4
  BY FourComponents DEF IsFour
<1>4. \A k : Rhs(prog, inst, k) = rhs
  BY <1>2 DEF Rhs
<1>5. all = rhs
  BY <1>2, <1>4 DEF AllComponents
<1>6. ~IsScalar(inst)
  BY <1>2 DEF IsScalar
<1> DEFINE cut == n < 4 /\ \E i \in DOMAIN inst.src : ~Replicated(inst.src[i])
<1>7. value = IF block THEN rhs ELSE IF cut THEN Truncate(rhs, n) ELSE rhs
  <2> HIDE DEF rhs
  <2>1. CASE block
    BY <1>4, <1>6, <2>1 DEF Fitted, FittedTo, CutDown
  <2>2. CASE ~block
    BY <1>4, <1>6, <2>2 DEF Fitted, FittedTo, CutDown
  <2> QED BY <2>1, <2>2
<1>8. cut <=> n < 4 /\ ~replicated
  BY Zenon DEF AllReplicated
<1>9. /\ block => (Handled(inst) <=> n = 4)
      /\ ~block => (Handled(inst) <=> n = 4 \/ (prefix /\ ~replicated))
  BY HandledIs, Zenon
<1>10. Right(inst) <=> Len(value) = n /\ \A c \in W : value[Rank(W, c)] = rhs[c + 1]
  <2>1. Right(inst) <=> Len(value) = n /\ \A c \in W : value[Rank(W, c)] = all[c + 1]
    <3> HIDE DEF all, value, n, W
    <3> QED BY RightIs DEF all, value, n, W
  <2> HIDE DEF all, rhs, value, n, W
  <2> QED BY <1>5, <2>1
<1>11. prefix <=> W = 0..(n - 1)
  BY DEF PrefixMask
<1>12. ASSUME NEW i \in 1..4, NEW k \in 1..4, rhs[i] = rhs[k], ~block, inst.op # "dst"
       PROVE  i = k
  BY <1>12, FoursDiffer
<1>13. ASSUME NEW c \in W PROVE Rank(W, c) \in 1..n /\ c + 1 \in 1..4
  BY <1>1, Ranks DEF Components
<1>14. (\A c \in W : Rank(W, c) = c + 1) => W = 0..(n - 1)
  <2>1. W \in SUBSET Components /\ n = Cardinality(W)
    BY <1>1
  <2> HIDE DEF W, n
  <2> QED BY <2>1, InPlaceIsPrefix
<1> HIDE DEF n, rhs, W, value, all, block, replicated, prefix, cut
<1>15. Len(first) = n
  <2>1. n \in Nat
    BY <1>1
  <2> QED BY <2>1
<1>16. ASSUME n < 4 PROVE Truncate(rhs, n) = first
  <2>1. n \in 1..4
    BY <1>1
  <2>2. IsTuple(rhs, 4) /\ 4 \in 1..4 /\ 4 # 1
    BY <1>3 DEF IsTuple
  <2> QED BY <2>1, <2>2, CutToAll
<1>17. ASSUME Handled(inst) PROVE Right(inst)
  <2>1. value = first
    <3>1. CASE n = 4
      <4>1. rhs = first
        BY <1>3, <3>1
      <4> QED BY <1>7, <1>8, <3>1, <4>1
    <3>2. CASE n # 4
      <4>1. ~block /\ cut /\ n < 4
        BY <1>1, <1>8, <1>9, <1>17, <3>2
      <4> QED BY <1>7, <1>16, <4>1
    <3> QED BY <3>1, <3>2
  <2>2. W = 0..(n - 1)
    BY <1>1, <1>9, <1>11, <1>17
  <2>3. ASSUME NEW c \in W PROVE value[Rank(W, c)] = rhs[c + 1]
    <3>1. c \in 0..(n - 1) /\ n \in 0..4 /\ c + 1 \in 1..n
      <4>1. c \in 0..(n - 1) /\ n \in 1..4
        BY <1>1, <2>2
      <4> QED BY <4>1
    <3>2. Rank(W, c) = c + 1
      BY <2>2, <3>1, RankInPrefix
    <3>3. first[c + 1] = rhs[c + 1]
      BY <3>1
    <3> QED BY <2>1, <3>2, <3>3
  <2> HIDE DEF first
  <2> QED BY <1>10, <1>15, <2>1, <2>3
<1>18. ASSUME Right(inst), inst.op # "dst", n # 4 PROVE ~block /\ prefix /\ ~replicated
  <2>1. n < 4 /\ Len(value) = n
    BY <1>1, <1>10, <1>18
  <2>2. ~block /\ cut
    BY <1>3, <1>7, <2>1
  <2>3. value = first
    BY <1>7, <1>16, <2>1, <2>2
  <2>4. ASSUME NEW c \in W PROVE Rank(W, c) = c + 1
    <3>1. Rank(W, c) \in 1..n /\ c + 1 \in 1..4 /\ Rank(W, c) \in 1..4
      BY <1>1, <1>13
    <3>2. value[Rank(W, c)] = rhs[c + 1]
      BY <1>10, <1>18
    <3>3. first[Rank(W, c)] = rhs[Rank(W, c)]
      BY <3>1
    <3>4. rhs[Rank(W, c)] = rhs[c + 1]
      BY <2>3, <3>2, <3>3
    <3> QED BY <1>12, <1>18, <2>2, <3>1, <3>4
  <2> QED BY <1>8, <1>11, <1>14, <2>2, <2>4
<1> HIDE DEF first
<1>19. ASSUME Right(inst), inst.op # "dst" PROVE Handled(inst)
  <2>1. n = 4 \/ (~block /\ prefix /\ ~replicated)
    BY <1>18, <1>19
  <2>2. block \in BOOLEAN
    BY DEF block
  <2> QED BY <1>9, <2>1, <2>2, Zenon
<1> QED BY <1>17, <1>19, Zenon

\* Every assignment is of one of these operations.
LEMMA AssignmentsAre ==
    ASSUME TInv, NEW inst \in Assignments
    PROVE  inst \in Instructions /\ inst.op \in Assigning
<1>1. PICK m \in 1..done : inst = prog.insts[m] /\ inst.op \in Assigning
  BY DEF Assignments
<1> QED BY <1>1 DEF TInv, BufferType, ParseType, Programs, InstSeqs

\* Whatever a shader computes, the assignments that leave in each component of
\* the destination what the instruction means for it, and nothing elsewhere, are
\* exactly those of the cases that emit_dst_assign and the widths of its callers
\* handle; the others do not compile or come out wrong.
THEOREM MasksCorrect == Spec => []MasksSelect
<1>1. TInv => MasksSelect
  <2> SUFFICES ASSUME TInv, NEW inst \in Assignments
               PROVE  /\ Handled(inst) => Right(inst)
                      /\ Right(inst) /\ inst.op # "dst" => Handled(inst)
    BY Zenon DEF MasksSelect, Agree, ComesOut, Right
  <2>1. inst \in Instructions /\ inst.op \in Assigning
    BY AssignmentsAre
  <2>2. Right(inst) => CompilesAs(inst)
    BY RightIs
  <2>3. Handled(inst) => CompilesAs(inst)
    BY Zenon DEF Handled, CompilesAs
  <2>4. CASE ~CompilesAs(inst)
    BY <2>2, <2>3, <2>4
  <2>5. CASE CompilesAs(inst) /\ inst.op \in Scalars
    <3>1. Handled(inst)
      BY <2>5, HandledIs
    <3> QED BY <2>1, <2>5, <3>1, ScalarMask
  <2>6. CASE CompilesAs(inst) /\ inst.op \in Elementwise
    <3>1. Handled(inst) <=> LinedUp(inst)
      BY <2>6, HandledIs
    <3> QED BY <2>1, <2>6, <3>1, ElementwiseMask
  <2>7. CASE CompilesAs(inst) /\ inst.op \in Selects
    <3> DEFINE cases == IF inst.dst.type = "depthout" THEN ~AllReplicated(inst)
                        ELSE IF DstWidth(inst) = 1 THEN AllReplicated(inst)
                        ELSE LinedUp(inst)
    <3>1. Handled(inst) <=> cases
      BY <2>7, HandledIs
    <3>2. Right(inst) <=> cases
      BY <2>1, <2>7, SelectsMask
    <3> HIDE DEF cases
    <3> QED BY <3>1, <3>2, Zenon
  <2>8. CASE CompilesAs(inst) /\ inst.op \in Fours
    BY <2>1, <2>8, FoursMask
  <2>9. inst.op \in Elementwise \cup Selects \cup Scalars \cup Fours
    BY <2>1 DEF Assigning, Fours, Sampled
  <2> QED BY <2>4, <2>5, <2>6, <2>7, <2>8, <2>9
<1> QED BY <1>1, Invariant, PTL

-----------------------------------------------------------------------------
\* A stream of dwords, unit after unit.

\* A sequence begins with another.
Begins(s, t) == Len(t) <= Len(s) /\ \A i \in 1..Len(t) : s[i] = t[i]

LEMMA BeginsConcat ==
    ASSUME NEW L, NEW r \in Seq(L), NEW s \in Seq(L), NEW t \in Seq(L), Begins(s, r)
    PROVE  Begins(s \o t, r)
BY DEF Begins

\* One sequence more.
LEMMA OneMore ==
    ASSUME NEW T, NEW s \in Seq(T), NEW n \in Nat, n < Len(s)
    PROVE  /\ SubSeq(s, 1, n) \in Seq(T) /\ SubSeq(s, 1, n + 1) \in Seq(T)
           /\ s[n + 1] \in T
           /\ SubSeq(s, 1, n + 1) = Append(SubSeq(s, 1, n), s[n + 1])
<1>1. SubSeq(s, 1, n) \in Seq(T) /\ SubSeq(s, 1, n + 1) \in Seq(T) /\ s[n + 1] \in T
  OBVIOUS
<1>2. /\ Len(SubSeq(s, 1, n)) = n /\ Len(SubSeq(s, 1, n + 1)) = n + 1
      /\ \A i \in 1..n : SubSeq(s, 1, n)[i] = s[i]
      /\ \A i \in 1..(n + 1) : SubSeq(s, 1, n + 1)[i] = s[i]
  OBVIOUS
<1>3. SubSeq(s, 1, n + 1) = Append(SubSeq(s, 1, n), s[n + 1])
  <2> DEFINE a == SubSeq(s, 1, n)
             b == SubSeq(s, 1, n + 1)
             x == s[n + 1]
  <2>1. a \in Seq(T) /\ b \in Seq(T) /\ x \in T /\ Len(a) = n /\ Len(b) = n + 1
        /\ (\A i \in 1..n : b[i] = a[i]) /\ b[n + 1] = x
    BY <1>1, <1>2
  <2> HIDE DEF a, b, x
  <2>2. b = Append(a, x)
    BY <2>1
  <2> QED BY <2>2 DEF a, b, x
<1> QED BY <1>1, <1>3

LEMMA FlattenNext ==
    ASSUME NEW L, NEW ss \in Seq(Seq(L)), NEW n \in Nat, n < Len(ss)
    PROVE  /\ FlattenSeq(SubSeq(ss, 1, n)) \in Seq(L) /\ ss[n + 1] \in Seq(L)
           /\ FlattenSeq(SubSeq(ss, 1, n + 1)) =
                FlattenSeq(SubSeq(ss, 1, n)) \o ss[n + 1]
<1>1. /\ SubSeq(ss, 1, n) \in Seq(Seq(L)) /\ ss[n + 1] \in Seq(L)
      /\ SubSeq(ss, 1, n + 1) = Append(SubSeq(ss, 1, n), ss[n + 1])
  <2> DEFINE T == Seq(L)
  <2> HIDE DEF T
  <2>1. ss \in Seq(T)
    BY DEF T
  <2>2. /\ SubSeq(ss, 1, n) \in Seq(T) /\ ss[n + 1] \in T
        /\ SubSeq(ss, 1, n + 1) = Append(SubSeq(ss, 1, n), ss[n + 1])
    BY <2>1, OneMore
  <2> QED BY <2>2 DEF T
<1> QED BY <1>1, FlattenAppend

\* Where in the whole a part is.
LEMMA FlattenBegins ==
    ASSUME NEW L, NEW ss \in Seq(Seq(L)), NEW k \in Nat, k <= Len(ss)
    PROVE  /\ FlattenSeq(ss) \in Seq(L)
           /\ Begins(FlattenSeq(ss), FlattenSeq(SubSeq(ss, 1, k)))
<1> DEFINE Flat(n) == FlattenSeq(SubSeq(ss, 1, n))
           S == {m \in Nat : k + m <= Len(ss) =>
                   Flat(k + m) \in Seq(L) /\ Begins(Flat(k + m), Flat(k))}
<1>0. Len(ss) \in Nat /\ SubSeq(ss, 1, Len(ss)) = ss
  OBVIOUS
<1>t. ASSUME NEW n \in Nat, n <= Len(ss) PROVE Flat(n) \in Seq(L)
  <2>1. SubSeq(ss, 1, n) \in Seq(Seq(L)) /\ <<>> \in Seq(L)
    BY <1>0, <1>t
  <2> QED BY <2>1, FlattenAppend
<1> HIDE DEF Flat
<1>1. 0 \in S
  <2>1. k + 0 = k /\ Flat(k) \in Seq(L)
    BY <1>t
  <2>2. Begins(Flat(k), Flat(k))
    BY <2>1 DEF Begins
  <2> QED BY <2>1, <2>2
<1>2. ASSUME NEW m \in Nat, m \in S PROVE m + 1 \in S
  <2> SUFFICES ASSUME k + (m + 1) <= Len(ss)
               PROVE  Flat(k + (m + 1)) \in Seq(L) /\ Begins(Flat(k + (m + 1)), Flat(k))
    OBVIOUS
  <2> DEFINE n == k + m
  <2>1. n \in Nat /\ n < Len(ss) /\ k + (m + 1) = n + 1
    BY <1>0
  <2>2. Flat(n) \in Seq(L) /\ Begins(Flat(n), Flat(k))
    BY <1>0, <1>2
  <2>3. Flat(k) \in Seq(L) /\ Flat(n + 1) \in Seq(L)
    BY <1>0, <1>t, <2>1
  <2> HIDE DEF n
  <2>4. ss[n + 1] \in Seq(L) /\ Flat(n + 1) = Flat(n) \o ss[n + 1]
    BY <2>1, FlattenNext DEF Flat
  <2>5. Begins(Flat(n + 1), Flat(k))
    <3> DEFINE a == Flat(n)
               b == Flat(k)
               c == ss[n + 1]
    <3> HIDE DEF a, b, c
    <3>1. a \in Seq(L) /\ b \in Seq(L) /\ c \in Seq(L) /\ Begins(a, b)
      BY <2>2, <2>3, <2>4 DEF a, b, c
    <3>2. Begins(a \o c, b)
      BY <3>1, BeginsConcat
    <3> QED BY <2>4, <3>2 DEF a, b, c
  <2> QED BY <2>1, <2>3, <2>5
<1>3. Nat \subseteq S
  <2> HIDE DEF S
  <2> QED BY <1>1, <1>2, SetInduction
<1>4. Len(ss) - k \in S /\ k + (Len(ss) - k) = Len(ss)
  <2> HIDE DEF S
  <2>1. Len(ss) - k \in Nat /\ k + (Len(ss) - k) = Len(ss)
    BY <1>0
  <2> QED BY <1>3, <2>1
<1>5. Flat(Len(ss)) \in Seq(L) /\ Begins(Flat(Len(ss)), Flat(k))
  BY <1>0, <1>4
<1> QED BY <1>0, <1>5 DEF Flat

LEMMA FlattenParts ==
    ASSUME NEW L, NEW ss \in Seq(Seq(L)), NEW k \in Nat, k < Len(ss)
    PROVE  LET before == FlattenSeq(SubSeq(ss, 1, k)) IN
           /\ before \in Seq(L) /\ ss[k + 1] \in Seq(L)
           /\ FlattenSeq(ss) \in Seq(L)
           /\ Len(FlattenSeq(SubSeq(ss, 1, k + 1))) = Len(before) + Len(ss[k + 1])
           /\ Len(before) + Len(ss[k + 1]) <= Len(FlattenSeq(ss))
           /\ \A j \in 1..Len(ss[k + 1]) :
                FlattenSeq(ss)[Len(before) + j] = ss[k + 1][j]
<1> DEFINE before == FlattenSeq(SubSeq(ss, 1, k))
           part == ss[k + 1]
           upto == FlattenSeq(SubSeq(ss, 1, k + 1))
           all == FlattenSeq(ss)
<1>1. before \in Seq(L) /\ part \in Seq(L) /\ upto = before \o part
  BY FlattenNext
<1>2. all \in Seq(L) /\ Begins(all, upto)
  <2>1. k + 1 \in Nat /\ k + 1 <= Len(ss)
    OBVIOUS
  <2> QED BY <2>1, FlattenBegins
<1> HIDE DEF before, part, upto, all
<1>3. Len(upto) = Len(before) + Len(part) /\ Len(upto) <= Len(all)
      /\ Len(before) \in Nat /\ Len(part) \in Nat
  BY <1>1, <1>2 DEF Begins
<1>4. ASSUME NEW j \in 1..Len(part) PROVE all[Len(before) + j] = part[j]
  <2>1. Len(before) + j \in 1..Len(upto)
    BY <1>3
  <2>2. upto[Len(before) + j] = part[j]
    BY <1>1, <1>3
  <2> QED BY <1>2, <2>1, <2>2 DEF Begins
<1> QED BY <1>1, <1>2, <1>3, <1>4 DEF before, part, upto, all

-----------------------------------------------------------------------------
\* The operands of a unit.

RegPieces(u) == [i \in DOMAIN u |-> When(u[i].is = "reg", u[i].reg)]

\* The registers among the first m dwords.
RegsIn(u, m) == FlattenSeq(SubSeq(RegPieces(u), 1, m))

LEMMA RegPiecesTyped ==
    ASSUME NEW u \in Seq(Dwords)
    PROVE  /\ RegPieces(u) \in Seq(Seq(Registers)) /\ Len(RegPieces(u)) = Len(u)
           /\ \A i \in 1..Len(u) :
                RegPieces(u)[i] = IF u[i].is = "reg" THEN <<u[i].reg>> ELSE <<>>
           /\ Regs(u) \in Seq(Registers)
           /\ RegsIn(u, Len(u)) = Regs(u)
<1>0. Len(u) \in Nat /\ DOMAIN u = 1..Len(u) /\ \A i \in 1..Len(u) : u[i] \in Dwords
  OBVIOUS
<1> DEFINE R == Registers
           f == RegPieces(u)
<1>1. ASSUME NEW i \in 1..Len(u)
      PROVE  /\ f[i] = (IF u[i].is = "reg" THEN <<u[i].reg>> ELSE <<>>)
             /\ f[i] \in Seq(R)
  <2>1. f[i] = IF u[i].is = "reg" THEN <<u[i].reg>> ELSE <<>>
    BY <1>0 DEF RegPieces, When
  <2>2. u[i].is = "reg" => u[i].reg \in R
    BY <1>0 DEF Dwords
  <2> HIDE DEF R, f
  <2>3. f[i] \in Seq(R)
    BY <2>1, <2>2
  <2> QED BY <2>1, <2>3
<1>2. f = [i \in 1..Len(u) |-> f[i]]
  BY <1>0 DEF RegPieces
<1> HIDE DEF f, R
<1>3. f \in Seq(Seq(R)) /\ Len(f) = Len(u)
  BY <1>0, <1>1, <1>2
<1>4. FlattenSeq(f) \in Seq(R)
  <2>1. <<>> \in Seq(R)
    OBVIOUS
  <2> QED BY <1>3, <2>1, FlattenAppend
<1>5. Regs(u) = FlattenSeq(f)
  BY DEF Regs, f, RegPieces
<1>6. SubSeq(f, 1, Len(u)) = f
  BY <1>3
<1>7. RegsIn(u, Len(u)) = Regs(u)
  BY <1>5, <1>6 DEF RegsIn, f
<1> QED BY <1>1, <1>3, <1>4, <1>5, <1>7 DEF f, R

LEMMA RegsNext ==
    ASSUME NEW u \in Seq(Dwords), NEW m \in Nat, m < Len(u)
    PROVE  /\ Len(RegsIn(u, m)) \in Nat /\ Len(Regs(u)) \in Nat
           /\ u[m + 1].is # "reg" => Len(RegsIn(u, m + 1)) = Len(RegsIn(u, m))
           /\ u[m + 1].is = "reg" =>
                /\ Len(RegsIn(u, m + 1)) = Len(RegsIn(u, m)) + 1
                /\ Len(RegsIn(u, m)) + 1 <= Len(Regs(u))
                /\ Regs(u)[Len(RegsIn(u, m)) + 1] = u[m + 1].reg
<1> DEFINE R == Registers
           f == RegPieces(u)
           before == FlattenSeq(SubSeq(f, 1, m))
           after == FlattenSeq(SubSeq(f, 1, m + 1))
           all == FlattenSeq(f)
           part == f[m + 1]
<1>0. Len(u) \in Nat /\ m + 1 \in 1..Len(u)
  OBVIOUS
<1>1. f \in Seq(Seq(R)) /\ Len(f) = Len(u)
      /\ part = IF u[m + 1].is = "reg" THEN <<u[m + 1].reg>> ELSE <<>>
  BY <1>0, RegPiecesTyped
<1>2. Regs(u) = all
  BY DEF Regs, RegPieces
<1>3. RegsIn(u, m) = before /\ RegsIn(u, m + 1) = after
  BY DEF RegsIn
<1> HIDE DEF R, f
<1>4. /\ before \in Seq(R) /\ part \in Seq(R) /\ all \in Seq(R)
      /\ Len(after) = Len(before) + Len(part)
      /\ Len(before) + Len(part) <= Len(all)
      /\ \A j \in 1..Len(part) : all[Len(before) + j] = part[j]
  <2>1. m < Len(f)
    BY <1>1
  <2> QED BY <1>1, <2>1, FlattenParts
<1> HIDE DEF before, after, all, part
<1>5. Len(before) \in Nat /\ Len(all) \in Nat
  BY <1>4
<1>6. CASE u[m + 1].is = "reg"
  <2>1. Len(part) = 1 /\ part[1] = u[m + 1].reg
    BY <1>1, <1>6
  <2>2. all[Len(before) + 1] = u[m + 1].reg
    BY <1>4, <2>1
  <2> QED BY <1>2, <1>3, <1>4, <1>5, <1>6, <2>1, <2>2
<1>7. CASE u[m + 1].is # "reg"
  <2>1. Len(part) = 0
    BY <1>1, <1>7
  <2> QED BY <1>2, <1>3, <1>4, <1>5, <1>7, <2>1
<1> QED BY <1>6, <1>7

\* The operands of the current instruction are those of the unit.
Reads(u) == \A j \in 1..(Len(u) - 1) : Operand(j) = u[j + 1]

\* The dwords of the operands are registers, with an address after each that
\* is relative.
Laid(u) ==
  /\ Len(u) >= 1 /\ u[1].is # "reg"
  /\ \A j \in 2..Len(u) :
       /\ u[j].is \in {"reg", "rel"}
       /\ u[j].is = "rel" <=> Indexed(u[j - 1])
  /\ ~Indexed(u[Len(u)])

\* Behind the first q dwords, operand i comes next.
Behind(u, q, i) ==
  q \in 1..Len(u) /\ Len(RegsIn(u, q)) = i - 1 /\ ~Indexed(u[q])

LEMMA FirstOperand ==
    ASSUME NEW u \in Seq(Dwords), Laid(u)
    PROVE  Behind(u, 1, 1)
<1>1. Len(u) \in Nat /\ 1 \in 1..Len(u) /\ u[1].is # "reg"
  BY DEF Laid
<1>2. 0 \in Nat /\ 0 < Len(u) /\ 0 + 1 = 1
  BY <1>1
<1>3. Len(RegsIn(u, 1)) = Len(RegsIn(u, 0))
  BY <1>1, <1>2, RegsNext
<1>4. RegsIn(u, 0) = <<>>
  <2> DEFINE f == RegPieces(u)
  <2>1. f \in Seq(Seq(Registers))
    BY RegPiecesTyped
  <2> HIDE DEF f
  <2>2. SubSeq(f, 1, 0) = <<>>
    BY <2>1
  <2> QED BY <2>2, FlattenEmpty DEF RegsIn, f
<1>5. Len(RegsIn(u, 1)) = 1 - 1
  BY <1>3, <1>4
<1> QED BY <1>1, <1>5 DEF Behind, Indexed

LEMMA OperandRead ==
    ASSUME NEW u \in Seq(Dwords), Laid(u), Reads(u), NEW i \in Nat, i >= 1,
           i <= Len(Regs(u)), NEW q, Behind(u, q, i)
    PROVE  /\ q \in Nat /\ Register(Operand(q)) = Regs(u)[i]
           /\ Behind(u, q + Stride(q), i + 1)
<1>1. Len(u) \in Nat /\ q \in 1..Len(u) /\ Len(RegsIn(u, q)) = i - 1 /\ ~Indexed(u[q])
  BY DEF Behind
<1>2. q # Len(u)
  <2>1. RegsIn(u, Len(u)) = Regs(u) /\ Len(Regs(u)) \in Nat
    BY RegPiecesTyped
  <2> QED BY <1>1, <2>1
<1>3. q \in Nat /\ q < Len(u) /\ q + 1 \in 2..Len(u) /\ (q + 1) - 1 = q
  BY <1>1, <1>2
<1>4. u[q + 1].is = "reg"
  <2> DEFINE j == q + 1
  <2> HIDE DEF j
  <2>1. j \in 2..Len(u) /\ j - 1 = q
    BY <1>3 DEF j
  <2>2. u[j].is \in {"reg", "rel"} /\ (u[j].is = "rel" <=> Indexed(u[j - 1]))
    BY <2>1, Zenon DEF Laid
  <2>3. u[j].is # "rel"
    BY <1>1, <2>1, <2>2, Zenon
  <2> QED BY <2>2, <2>3 DEF j
<1>5. /\ Len(RegsIn(u, q + 1)) = (i - 1) + 1
      /\ Regs(u)[(i - 1) + 1] = u[q + 1].reg
  BY <1>1, <1>3, <1>4, RegsNext
<1>6. Operand(q) = u[q + 1]
  <2>1. q \in 1..(Len(u) - 1)
    BY <1>1, <1>3
  <2> QED BY <2>1 DEF Reads
<1>7. Register(Operand(q)) = u[q + 1].reg
  BY <1>4, <1>6, RegisterIn
<1>8. (i - 1) + 1 = i /\ (i + 1) - 1 = i
  OBVIOUS
<1>9. CASE Indexed(u[q + 1])
  <2>1. Stride(q) = 2
    BY <1>7, <1>9 DEF Stride, Indexed
  <2>2. q + 1 # Len(u)
    BY <1>9 DEF Laid
  <2>3. (q + 1) \in Nat /\ q + 1 < Len(u) /\ (q + 1) + 1 \in 2..Len(u)
        /\ ((q + 1) + 1) - 1 = q + 1 /\ q + 2 = (q + 1) + 1
    BY <1>1, <1>3, <2>2
  <2>4. u[(q + 1) + 1].is = "rel"
    BY <1>9, <2>3 DEF Laid
  <2>5. Len(RegsIn(u, (q + 1) + 1)) = i
    BY <1>5, <1>8, <2>3, <2>4, RegsNext
  <2>6. Behind(u, q + 2, i + 1)
    BY <1>8, <2>3, <2>4, <2>5 DEF Behind, Indexed
  <2> QED BY <1>3, <1>5, <1>7, <1>8, <2>1, <2>6
<1>10. CASE ~Indexed(u[q + 1])
  <2>1. Stride(q) = 1
    BY <1>4, <1>7, <1>10 DEF Stride, Indexed
  <2>2. Behind(u, q + 1, i + 1)
    BY <1>1, <1>3, <1>5, <1>8, <1>10 DEF Behind
  <2> QED BY <1>3, <1>5, <1>7, <1>8, <2>1, <2>2
<1> QED BY <1>9, <1>10

LEMMA BehindLast ==
    ASSUME NEW u \in Seq(Dwords), Laid(u), NEW q, Behind(u, q, Len(Regs(u)) + 1)
    PROVE  q = Len(u)
<1>0. Len(Regs(u)) \in Nat
  BY RegPiecesTyped
<1>1. Len(u) \in Nat /\ q \in 1..Len(u) /\ Len(RegsIn(u, q)) = Len(Regs(u))
      /\ ~Indexed(u[q])
  BY <1>0 DEF Behind
<1>2. SUFFICES ASSUME q # Len(u) PROVE FALSE
  OBVIOUS
<1>3. q \in Nat /\ q < Len(u) /\ q + 1 \in 2..Len(u) /\ (q + 1) - 1 = q
  BY <1>1, <1>2
<1>4. u[q + 1].is = "reg"
  <2> DEFINE j == q + 1
  <2> HIDE DEF j
  <2>1. j \in 2..Len(u) /\ j - 1 = q
    BY <1>3 DEF j
  <2>2. u[j].is \in {"reg", "rel"} /\ (u[j].is = "rel" <=> Indexed(u[j - 1]))
    BY <2>1, Zenon DEF Laid
  <2>3. u[j].is # "rel"
    BY <1>1, <2>1, <2>2, Zenon
  <2> QED BY <2>2, <2>3 DEF j
<1>5. Len(RegsIn(u, q)) + 1 <= Len(Regs(u))
  BY <1>3, <1>4, RegsNext
<1> QED BY <1>0, <1>1, <1>5

\* The parser finds the operands where they were written.
LEMMA OperandsFound ==
    ASSUME NEW u \in Seq(Dwords), Laid(u), Reads(u), NEW n, n = Len(Regs(u))
    PROVE  /\ n \in Nat /\ Places(n)[n + 1] = Len(u)
           /\ \A i \in 1..n : Register(Operand(Places(n)[i])) = Regs(u)[i]
<1> DEFINE f == Places(n)
           S == {m \in Nat : m + 1 \in 1..(n + 1) => Behind(u, f[m + 1], m + 1)}
<1>0. n \in Nat
  BY RegPiecesTyped
<1>f. \A i \in 1..(n + 1) : f[i] = IF i = 1 THEN 1 ELSE f[i - 1] + Stride(f[i - 1])
  <2>1. Follows(f, n)
    BY <1>0, PlacesFollow
  <2> HIDE DEF f
  <2> QED BY <2>1, Zenon DEF Follows
<1> HIDE DEF f
<1>1. 0 \in S
  <2>1. 0 \in Nat /\ 0 + 1 = 1 /\ 1 \in 1..(n + 1)
    BY <1>0
  <2>2. f[1] = 1
    BY <1>f, <2>1
  <2> QED BY <2>1, <2>2, FirstOperand
<1>2. ASSUME NEW m \in Nat, m \in S PROVE m + 1 \in S
  <2> SUFFICES ASSUME (m + 1) + 1 \in 1..(n + 1)
               PROVE  Behind(u, f[(m + 1) + 1], (m + 1) + 1)
    OBVIOUS
  <2>1. /\ m + 1 \in 1..(n + 1) /\ m + 1 \in Nat /\ m + 1 >= 1 /\ m + 1 <= n
        /\ (m + 1) + 1 # 1 /\ ((m + 1) + 1) - 1 = m + 1
    BY <1>0
  <2>2. Behind(u, f[m + 1], m + 1)
    BY <1>2, <2>1
  <2>3. f[(m + 1) + 1] = f[m + 1] + Stride(f[m + 1])
    BY <1>f, <2>1, Zenon
  <2> DEFINE q == f[m + 1]
             i == m + 1
  <2> HIDE DEF q, i
  <2>4. Behind(u, q + Stride(q), i + 1)
    <3>1. i \in Nat /\ i >= 1 /\ i <= Len(Regs(u)) /\ Behind(u, q, i)
      BY <2>1, <2>2 DEF q, i
    <3> QED BY <3>1, OperandRead
  <2> QED BY <2>3, <2>4 DEF q, i
<1>3. Nat \subseteq S
  <2> HIDE DEF S
  <2> QED BY <1>1, <1>2, SetInduction
<1>4. ASSUME NEW i \in 1..(n + 1) PROVE Behind(u, f[i], i)
  <2>1. i - 1 \in Nat /\ (i - 1) + 1 = i
    BY <1>0
  <2>2. i - 1 \in S
    BY <1>3, <2>1, Zenon
  <2> QED BY <2>1, <2>2
<1>5. ASSUME NEW i \in 1..n PROVE Register(Operand(f[i])) = Regs(u)[i]
  <2>1. i \in 1..(n + 1) /\ i \in Nat /\ i >= 1 /\ i <= Len(Regs(u))
    BY <1>0
  <2>2. Behind(u, f[i], i)
    BY <1>4, <2>1
  <2> QED BY <2>1, <2>2, OperandRead
<1>6. f[n + 1] = Len(u)
  <2>1. Behind(u, f[n + 1], n + 1)
    BY <1>0, <1>4
  <2> QED BY <2>1, BehindLast
<1> QED BY <1>0, <1>5, <1>6 DEF f

-----------------------------------------------------------------------------
\* What is written in one unit more.

\* What F makes of each element, put together.
OfEach(F, us) == FlattenSeq([i \in DOMAIN us |-> F[us[i]]])

LEMMA MapAppend ==
    ASSUME NEW V, NEW L, NEW F \in [V -> Seq(L)], NEW us \in Seq(V), NEW u \in V
    PROVE  OfEach(F, Append(us, u)) = OfEach(F, us) \o F[u]
<1> DEFINE T == Seq(L)
           ss == [i \in DOMAIN us |-> F[us[i]]]
           tt == [i \in DOMAIN Append(us, u) |-> F[Append(us, u)[i]]]
<1> HIDE DEF T
<1>1. /\ Len(us) \in Nat /\ DOMAIN us = 1..Len(us)
      /\ DOMAIN Append(us, u) = 1..(Len(us) + 1)
      /\ \A i \in 1..Len(us) : us[i] \in V /\ Append(us, u)[i] = us[i]
      /\ Append(us, u)[Len(us) + 1] = u
  OBVIOUS
<1>2. \A v \in V : F[v] \in T
  BY DEF T
<1>3. ss \in Seq(T) /\ Len(ss) = Len(us)
      /\ \A i \in 1..Len(us) : ss[i] = F[us[i]]
  BY <1>1, <1>2
<1>4. tt = Append(ss, F[u])
  <2>1. /\ tt \in Seq(T) /\ Len(tt) = Len(us) + 1 /\ tt[Len(us) + 1] = F[u]
        /\ \A i \in 1..Len(us) : tt[i] = F[us[i]]
    <3>1. \A i \in 1..(Len(us) + 1) : Append(us, u)[i] \in V
      BY <1>1
    <3>2. tt \in Seq(T) /\ Len(tt) = Len(us) + 1
      BY <1>1, <1>2, <3>1
    <3>3. \A i \in 1..(Len(us) + 1) : tt[i] = F[Append(us, u)[i]]
      BY <1>1
    <3> HIDE DEF tt
    <3> QED BY <1>1, <3>2, <3>3
  <2> DEFINE x == F[u]
  <2> HIDE DEF ss, tt, x
  <2>2. x \in T
    BY <1>2 DEF x
  <2>3. tt = Append(ss, x)
    BY <1>1, <1>3, <2>1, <2>2 DEF x
  <2> QED BY <2>3 DEF x
<1>5. ss \in Seq(Seq(L)) /\ F[u] \in Seq(L)
  BY <1>3 DEF T
<1> HIDE DEF ss, tt
<1>6. FlattenSeq(tt) = FlattenSeq(ss) \o F[u]
  BY <1>4, <1>5, FlattenAppend
<1> QED BY <1>6 DEF ss, tt, OfEach

Instructive == Arithmetic \cup Compares \cup Tests \cup Bare
DclWritten(u) == [usage |-> u[2].usage, index |-> u[2].index, reg |-> u[3].reg]
DefWritten(u) == <<DefType(Opcode(u[1])), u[2].reg.number>>

LEMMA WhenInSeq ==
    ASSUME NEW L, NEW x \in L, NEW c \in BOOLEAN
    PROVE  When(c, x) \in Seq(L)
BY DEF When

LEMMA InstsOneMore ==
    ASSUME NEW us \in Seq(Seq(Dwords)), NEW u \in Seq(Dwords)
    PROVE  WrittenInsts(Append(us, u)) =
             WrittenInsts(us) \o When(Opcode(u[1]) \in Instructive, AsWritten(u))
<1> DEFINE V == Seq(Dwords)
           Piece(v) == When(Opcode(v[1]) \in Instructive, AsWritten(v))
           L == {AsWritten(v) : v \in V}
           F == [v \in V |-> Piece(v)]
<1>1. F \in [V -> Seq(L)]
  <2>1. ASSUME NEW v \in V PROVE Piece(v) \in Seq(L)
    <3>1. AsWritten(v) \in L /\ (Opcode(v[1]) \in Instructive) \in BOOLEAN
      OBVIOUS
    <3> HIDE DEF L, V
    <3> QED BY <3>1, WhenInSeq
  <2> HIDE DEF L, Piece, V
  <2> QED BY <2>1
<1>2. \A v \in V : F[v] = Piece(v)
  OBVIOUS
<1>3. ASSUME NEW t \in Seq(V)
      PROVE  WrittenInsts(t) = OfEach(F, t)
  <2>1. WrittenInsts(t) = FlattenSeq([i \in DOMAIN t |-> Piece(t[i])])
    BY DEF WrittenInsts, Instructive
  <2>2. \A i \in DOMAIN t : t[i] \in V
    <3> HIDE DEF V
    <3> QED OBVIOUS
  <2> HIDE DEF F, Piece, V
  <2>3. [i \in DOMAIN t |-> Piece(t[i])] = [i \in DOMAIN t |-> F[t[i]]]
    BY <1>2, <2>2
  <2> QED BY <2>1, <2>3 DEF OfEach
<1>4. us \in Seq(V) /\ Append(us, u) \in Seq(V) /\ u \in V
  <2> HIDE DEF V
  <2>1. us \in Seq(V) /\ u \in V
    BY DEF V
  <2> QED BY <2>1
<1> HIDE DEF F, V, L
<1>5. OfEach(F, Append(us, u)) = OfEach(F, us) \o F[u]
  BY <1>1, <1>4, MapAppend
<1>6. WrittenInsts(Append(us, u)) = WrittenInsts(us) \o F[u]
  <2>1. WrittenInsts(us) = OfEach(F, us)
    BY <1>3, <1>4
  <2>2. WrittenInsts(Append(us, u)) = OfEach(F, Append(us, u))
    BY <1>3, <1>4
  <2> QED BY <1>5, <2>1, <2>2, Zenon
<1> QED BY <1>2, <1>4, <1>6

LEMMA DclsOneMore ==
    ASSUME NEW us \in Seq(Seq(Dwords)), NEW u \in Seq(Dwords)
    PROVE  WrittenDcls(Append(us, u)) =
             WrittenDcls(us) \o When(Opcode(u[1]) = "dcl", DclWritten(u))
<1> DEFINE V == Seq(Dwords)
           Piece(v) == When(Opcode(v[1]) = "dcl", DclWritten(v))
           L == {DclWritten(v) : v \in V}
           F == [v \in V |-> Piece(v)]
<1>1. F \in [V -> Seq(L)]
  <2>1. ASSUME NEW v \in V PROVE Piece(v) \in Seq(L)
    <3>1. DclWritten(v) \in L /\ (Opcode(v[1]) = "dcl") \in BOOLEAN
      OBVIOUS
    <3> HIDE DEF L, V
    <3> QED BY <3>1, WhenInSeq
  <2> HIDE DEF L, Piece, V
  <2> QED BY <2>1
<1>2. \A v \in V : F[v] = Piece(v)
  OBVIOUS
<1>3. ASSUME NEW t \in Seq(V)
      PROVE  WrittenDcls(t) = OfEach(F, t)
  <2>1. WrittenDcls(t) = FlattenSeq([i \in DOMAIN t |-> Piece(t[i])])
    BY DEF WrittenDcls, DclWritten
  <2>2. \A i \in DOMAIN t : t[i] \in V
    <3> HIDE DEF V
    <3> QED OBVIOUS
  <2> HIDE DEF F, Piece, V
  <2>3. [i \in DOMAIN t |-> Piece(t[i])] = [i \in DOMAIN t |-> F[t[i]]]
    BY <1>2, <2>2
  <2> QED BY <2>1, <2>3 DEF OfEach
<1>4. us \in Seq(V) /\ Append(us, u) \in Seq(V) /\ u \in V
  <2> HIDE DEF V
  <2>1. us \in Seq(V) /\ u \in V
    BY DEF V
  <2> QED BY <2>1
<1> HIDE DEF F, V, L
<1>5. OfEach(F, Append(us, u)) = OfEach(F, us) \o F[u]
  BY <1>1, <1>4, MapAppend
<1>6. WrittenDcls(Append(us, u)) = WrittenDcls(us) \o F[u]
  <2>1. WrittenDcls(us) = OfEach(F, us)
    BY <1>3, <1>4
  <2>2. WrittenDcls(Append(us, u)) = OfEach(F, Append(us, u))
    BY <1>3, <1>4
  <2> QED BY <1>5, <2>1, <2>2, Zenon
<1> QED BY <1>2, <1>4, <1>6

LEMMA DefsOneMore ==
    ASSUME NEW us \in Seq(Seq(Dwords)), NEW u \in Seq(Dwords)
    PROVE  WrittenDefs(Append(us, u)) =
             WrittenDefs(us) \cup
               (IF Opcode(u[1]) \in Defs THEN {DefWritten(u)} ELSE {})
<1> DEFINE V == Seq(Dwords)
<1>1. us \in Seq(V) /\ u \in V
  OBVIOUS
<1> HIDE DEF V
<1>2. ToSet(Append(us, u)) = ToSet(us) \cup {u}
  <2>1. /\ Len(us) \in Nat /\ DOMAIN us = 1..Len(us)
        /\ DOMAIN Append(us, u) = 1..(Len(us) + 1)
        /\ \A i \in 1..Len(us) : Append(us, u)[i] = us[i]
        /\ Append(us, u)[Len(us) + 1] = u
    BY <1>1
  <2> DEFINE t == Append(us, u)
  <2> HIDE DEF t
  <2>2. 1..(Len(us) + 1) = (1..Len(us)) \cup {Len(us) + 1}
    BY <2>1
  <2>3. ToSet(t) = {t[i] : i \in (1..Len(us)) \cup {Len(us) + 1}}
    BY <2>1, <2>2 DEF t, ToSet
  <2>4. ToSet(us) = {us[i] : i \in 1..Len(us)}
    BY <2>1 DEF ToSet
  <2>5. \A i \in 1..Len(us) : t[i] = us[i]
    BY <2>1 DEF t
  <2>6. t[Len(us) + 1] = u
    BY <2>1 DEF t
  <2>7. ToSet(t) = ToSet(us) \cup {u}
    BY <2>3, <2>4, <2>5, <2>6
  <2> QED BY <2>7 DEF t
<1>3. \A t : WrittenDefs(t) = {DefWritten(v) : v \in {w \in ToSet(t) : Opcode(w[1]) \in Defs}}
  BY DEF WrittenDefs, DefWritten
<1> DEFINE D(t) == {w \in t : Opcode(w[1]) \in Defs}
<1>4. D(ToSet(us) \cup {u}) = D(ToSet(us)) \cup (IF Opcode(u[1]) \in Defs THEN {u} ELSE {})
  OBVIOUS
<1> HIDE DEF D
<1>5. WrittenDefs(Append(us, u)) = {DefWritten(v) : v \in D(ToSet(us) \cup {u})}
  BY <1>2, <1>3 DEF D
<1>6. WrittenDefs(us) = {DefWritten(v) : v \in D(ToSet(us))}
  BY <1>3 DEF D
<1> QED BY <1>4, <1>5, <1>6

-----------------------------------------------------------------------------
\* The parser between two units.

\* It has taken the first k units and found in them what is written there.
Passed(p, q, units, k) ==
  /\ k \in Nat /\ k <= Len(units)
  /\ \A i \in 1..k : Opcode(units[i][1]) # "end"
  /\ q = 2 + Len(FlattenSeq(SubSeq(units, 1, k)))
  /\ p.insts = WrittenInsts(SubSeq(units, 1, k))
  /\ p.dcls = WrittenDcls(SubSeq(units, 1, k))
  /\ ToSet(p.defs) = WrittenDefs(SubSeq(units, 1, k))

\* The next unit is u, and it is what the parser reads.
NextUnit(u, k) ==
  /\ k \in Nat /\ k < Len(shader.units) /\ u = shader.units[k + 1]
  /\ u \in Seq(Dwords) /\ Len(u) \in Nat /\ WellFormed(u)
  /\ Current = u[1] /\ Reads(u)

LEMMA WellFormedUnits ==
    ASSUME WellFormedShaders, NEW s \in Shaders, NEW i \in 1..Len(s.units)
    PROVE  WellFormed(s.units[i]) /\ s.units[i] # <<>>
<1>1. s.units \in Seq(Seq(Dwords))
  BY ShadersTyped
<1>2. i \in DOMAIN s.units
  BY <1>1
<1>3. WellFormed(s.units[i])
  BY <1>2, Zenon DEF WellFormedShaders
<1> QED BY <1>3 DEF WellFormed

LEMMA UnitAt ==
    ASSUME ParseType, WellFormedShaders, NEW k, Passed(prog, pos, shader.units, k),
           NEW ops, At(ops)
    PROVE  NextUnit(shader.units[k + 1], k)
<1> DEFINE units == shader.units
           flat == FlattenSeq(units)
           before == FlattenSeq(SubSeq(units, 1, k))
           u == units[k + 1]
<1>1. /\ shader \in Shaders /\ pos <= shader.count
      /\ units \in Seq(Seq(Dwords)) /\ shader.count <= 1 + Len(flat)
      /\ flat \in Seq(Dwords) /\ shader.count \in Nat
  BY AtTyped, ShadersTyped DEF ParseType
<1>2. k \in Nat /\ k <= Len(units) /\ pos = 2 + Len(before)
  BY DEF Passed
<1>3. k < Len(units)
  <2> SUFFICES ASSUME k = Len(units) PROVE FALSE
    BY <1>1, <1>2
  <2>1. SubSeq(units, 1, k) = units
    BY <1>1
  <2>2. pos = 2 + Len(flat)
    BY <1>2, <2>1
  <2> QED BY <1>1, <2>2
<1> HIDE DEF units
<1>4. /\ before \in Seq(Dwords) /\ u \in Seq(Dwords)
      /\ Len(before) + Len(u) <= Len(flat)
      /\ \A j \in 1..Len(u) : flat[Len(before) + j] = u[j]
  BY <1>1, <1>2, <1>3, FlattenParts
<1>5. k + 1 \in 1..Len(units) /\ Len(before) \in Nat /\ Len(u) \in Nat /\ Len(flat) \in Nat
  BY <1>1, <1>2, <1>3, <1>4
<1>6. WellFormed(u) /\ u # <<>>
  BY <1>1, <1>5, WellFormedUnits DEF units
<1> HIDE DEF flat, before, u
<1>7. Len(u) >= 1
  BY <1>4, <1>5, <1>6
<1>8. ASSUME NEW j \in 1..Len(u)
      PROVE  Code[(2 + Len(before)) + (j - 1)] = u[j]
             /\ (2 + Len(before)) + (j - 1) <= Len(Code)
  <2> DEFINE version == [is |-> "version"]
             i == (2 + Len(before)) + (j - 1)
  <2>1. Code = <<version>> \o flat
    BY DEF Code, flat, units
  <2>2. i \in 2..(1 + Len(flat)) /\ i - 1 = Len(before) + j
    BY <1>4, <1>5
  <2> HIDE DEF version, i
  <2>3. (<<version>> \o flat)[i] = flat[i - 1] /\ Len(<<version>> \o flat) = 1 + Len(flat)
    BY <1>1, <2>2
  <2>4. flat[i - 1] = u[j]
    BY <1>4, <2>2
  <2> QED BY <2>1, <2>2, <2>3, <2>4 DEF i
<1>9. Current = u[1]
  <2>1. 1 \in 1..Len(u) /\ (2 + Len(before)) + (1 - 1) = pos
    BY <1>2, <1>5, <1>7
  <2> QED BY <1>8, <2>1 DEF Current
<1>10. Reads(u)
  <2>1. ASSUME NEW j \in 1..(Len(u) - 1) PROVE Operand(j) = u[j + 1]
    <3>1. j + 1 \in 1..Len(u) /\ (2 + Len(before)) + ((j + 1) - 1) = pos + j
      BY <1>2, <1>5
    <3>2. Code[pos + j] = u[j + 1] /\ pos + j <= Len(Code)
      BY <1>8, <3>1
    <3> QED BY <3>2 DEF Operand
  <2> QED BY <2>1 DEF Reads
<1> QED BY <1>2, <1>3, <1>4, <1>5, <1>6, <1>9, <1>10 DEF NextUnit, u, units

\* The next unit is passed when the program has what it says.
LEMMA PassedNext ==
    ASSUME NEW units \in Seq(Seq(Dwords)), NEW k, k < Len(units), NEW p, NEW q, NEW r,
           Passed(p, q, units, k), Opcode(units[k + 1][1]) # "end",
           r.insts = p.insts \o When(Opcode(units[k + 1][1]) \in Instructive,
                                     AsWritten(units[k + 1])),
           r.dcls = p.dcls \o When(Opcode(units[k + 1][1]) = "dcl",
                                   DclWritten(units[k + 1])),
           ToSet(r.defs) = ToSet(p.defs) \cup
             (IF Opcode(units[k + 1][1]) \in Defs THEN {DefWritten(units[k + 1])} ELSE {})
    PROVE  Passed(r, q + Len(units[k + 1]), units, k + 1)
<1> DEFINE u == units[k + 1]
           us == SubSeq(units, 1, k)
           vs == SubSeq(units, 1, k + 1)
<1>1. k \in Nat /\ q = 2 + Len(FlattenSeq(us))
      /\ p.insts = WrittenInsts(us) /\ p.dcls = WrittenDcls(us)
      /\ ToSet(p.defs) = WrittenDefs(us)
  BY DEF Passed
<1>2. us \in Seq(Seq(Dwords)) /\ u \in Seq(Dwords) /\ vs = Append(us, u)
  <2> DEFINE T == Seq(Dwords)
  <2> HIDE DEF T
  <2>1. units \in Seq(T)
    BY DEF T
  <2>2. us \in Seq(T) /\ u \in T /\ vs = Append(us, u)
    BY <1>1, <2>1, OneMore
  <2> QED BY <2>2 DEF T
<1>3. Len(FlattenSeq(vs)) = Len(FlattenSeq(us)) + Len(u)
      /\ Len(FlattenSeq(us)) \in Nat /\ Len(u) \in Nat
  <2>1. FlattenSeq(us) \in Seq(Dwords) /\ FlattenSeq(vs) = FlattenSeq(us) \o u
    BY <1>2, FlattenAppend
  <2> DEFINE a == FlattenSeq(us)
             b == FlattenSeq(vs)
             D == Dwords
  <2>2. a \in Seq(D) /\ u \in Seq(D) /\ b = a \o u
    BY <1>2, <2>1
  <2> HIDE DEF a, b, D, u
  <2>3. Len(b) = Len(a) + Len(u) /\ Len(a) \in Nat /\ Len(u) \in Nat
    BY <2>2
  <2> QED BY <2>3 DEF a, b
<1>4. k + 1 \in Nat /\ k + 1 <= Len(units)
      /\ \A i \in 1..(k + 1) : Opcode(units[i][1]) # "end"
  <2>1. \A i \in 1..k : Opcode(units[i][1]) # "end"
    BY Zenon DEF Passed
  <2>2. k + 1 \in Nat /\ k + 1 <= Len(units)
    BY <1>1
  <2>3. k \in Nat
    BY <1>1
  <2>4. \A i \in 1..(k + 1) : i \in 1..k \/ i = k + 1
    BY <2>3
  <2>5. Opcode(units[k + 1][1]) # "end"
    BY <1>1, Zenon
  <2>6. \A i \in 1..(k + 1) : Opcode(units[i][1]) # "end"
    BY <2>1, <2>4, <2>5, Zenon
  <2> QED BY <2>2, <2>6, Zenon
<1>5. WrittenInsts(vs) = WrittenInsts(us) \o When(Opcode(u[1]) \in Instructive, AsWritten(u))
  <2> HIDE DEF us, vs, u
  <2> QED BY <1>2, InstsOneMore, Zenon
<1>6. WrittenDcls(vs) = WrittenDcls(us) \o When(Opcode(u[1]) = "dcl", DclWritten(u))
  <2> HIDE DEF us, vs, u
  <2> QED BY <1>2, DclsOneMore, Zenon
<1>7. WrittenDefs(vs) = WrittenDefs(us) \cup
        (IF Opcode(u[1]) \in Defs THEN {DefWritten(u)} ELSE {})
  <2> HIDE DEF us, vs, u
  <2> QED BY <1>2, DefsOneMore, Zenon
<1>8. r.insts = WrittenInsts(vs) /\ r.dcls = WrittenDcls(vs)
      /\ ToSet(r.defs) = WrittenDefs(vs)
  <2> HIDE DEF us, vs
  <2> QED BY <1>1, <1>5, <1>6, <1>7, Zenon DEF u
<1>9. q + Len(u) = 2 + Len(FlattenSeq(vs))
  <2> HIDE DEF us, vs, u
  <2> QED BY <1>1, <1>3
<1> QED BY <1>4, <1>8, <1>9 DEF Passed

-----------------------------------------------------------------------------
\* Each turn of the loop takes one unit.

LEMMA WhenConcat ==
    ASSUME NEW X, NEW s \in Seq(X), NEW x
    PROVE  s \o When(FALSE, x) = s /\ s \o When(TRUE, x) = Append(s, x)
<1>1. s \o <<>> = s
  BY EmptySeq, ConcatProperties
<1>2. s \o <<x>> = Append(s, x)
  <2> DEFINE Y == X \cup {x}
  <2>1. s \in Seq(Y) /\ x \in Y
    BY SeqMonotonic
  <2> HIDE DEF Y
  <2> QED BY <2>1
<1> QED BY <1>1, <1>2 DEF When

LEMMA TablesTyped ==
    ASSUME ParseType
    PROVE  /\ prog \in Programs
           /\ prog.insts \in Seq(Instructions) /\ prog.dcls \in Seq(Dcls)
           /\ prog.defs \in Seq(DefTypes \X Nat)
BY DEF ParseType, Programs, InstSeqs, DclSeqs, DefSeqs

\* No opcode is of two kinds.
LEMMA Kinds ==
    /\ \A x \in Instructive : x # "dcl" /\ x \notin Defs /\ x # "end" /\ x # "comment"
    /\ \A x \in Defs : x # "dcl" /\ x \notin Instructive /\ x # "end"
    /\ "dcl" \notin Instructive /\ "dcl" \notin Defs
    /\ "comment" \notin Instructive /\ "comment" \notin Defs
    /\ "end" \notin Instructive /\ "end" \notin Defs
    /\ \A x \in Compares \cup Tests \cup Bare : x \notin Arithmetic
    /\ \A x \in Compares : x \notin Tests \cup Bare
    /\ \A x \in Tests : x \notin Compares \cup Bare
    /\ \A x \in Bare : x \notin Tests \cup Compares
BY DEF Instructive, Arithmetic, NoSource, OneSource, TwoSources, ThreeSources, Compares,
       Tests, Bare, Defs

\* What the program has after a unit that adds nothing, an instruction, a
\* declaration, or a constant.
Adds(u, p) ==
  LET op == Opcode(u[1]) IN
  /\ p.insts = IF op \in Instructive THEN Append(prog.insts, AsWritten(u))
                                     ELSE prog.insts
  /\ p.dcls = IF op = "dcl" THEN Append(prog.dcls, DclWritten(u)) ELSE prog.dcls
  /\ ToSet(p.defs) = ToSet(prog.defs) \cup
                       (IF op \in Defs THEN {DefWritten(u)} ELSE {})

\* The unit u was taken, or the parser gave up.
TakesUnit(u) ==
  \/ Fail
  \/ /\ UNCHANGED <<shader, status>>
     /\ pos' = pos + Len(u) /\ Adds(u, prog')

LEMMA TakenPassed ==
    ASSUME ParseType, NEW k, Passed(prog, pos, shader.units, k),
           NextUnit(shader.units[k + 1], k), Opcode(shader.units[k + 1][1]) # "end",
           TakesUnit(shader.units[k + 1]), ~Fail
    PROVE  shader' = shader /\ Passed(prog', pos', shader.units, k + 1)
<1> DEFINE units == shader.units
           u == units[k + 1]
           ii == When(Opcode(u[1]) \in Instructive, AsWritten(u))
           dd == When(Opcode(u[1]) = "dcl", DclWritten(u))
<1>1. units \in Seq(Seq(Dwords)) /\ k < Len(units)
  BY ShadersTyped DEF ParseType, NextUnit
<1>2. shader' = shader /\ pos' = pos + Len(u) /\ Adds(u, prog')
  BY DEF TakesUnit
<1>3. prog.insts \in Seq(Instructions) /\ prog.dcls \in Seq(Dcls)
  BY TablesTyped
<1>4. prog'.insts = prog.insts \o ii
  <2>1. CASE Opcode(u[1]) \in Instructive
    <3>1. (Opcode(u[1]) \in Instructive) = TRUE
      BY <2>1
    <3>2. prog'.insts = Append(prog.insts, AsWritten(u))
      BY <1>2, <2>1 DEF Adds
    <3>3. prog.insts \o When(TRUE, AsWritten(u)) = Append(prog.insts, AsWritten(u))
      BY <1>3, WhenConcat
    <3> QED BY <3>1, <3>2, <3>3
  <2>2. CASE Opcode(u[1]) \notin Instructive
    <3>1. (Opcode(u[1]) \in Instructive) = FALSE
      BY <2>2
    <3>2. prog'.insts = prog.insts
      BY <1>2, <2>2 DEF Adds
    <3>3. prog.insts \o When(FALSE, AsWritten(u)) = prog.insts
      BY <1>3, WhenConcat
    <3> QED BY <3>1, <3>2, <3>3
  <2> QED BY <2>1, <2>2
<1>5. prog'.dcls = prog.dcls \o dd
  <2>1. CASE Opcode(u[1]) = "dcl"
    <3>1. (Opcode(u[1]) = "dcl") = TRUE
      BY <2>1
    <3>2. prog'.dcls = Append(prog.dcls, DclWritten(u))
      BY <1>2, <2>1 DEF Adds
    <3>3. prog.dcls \o When(TRUE, DclWritten(u)) = Append(prog.dcls, DclWritten(u))
      BY <1>3, WhenConcat
    <3> QED BY <3>1, <3>2, <3>3
  <2>2. CASE Opcode(u[1]) # "dcl"
    <3>1. (Opcode(u[1]) = "dcl") = FALSE
      BY <2>2
    <3>2. prog'.dcls = prog.dcls
      BY <1>2, <2>2 DEF Adds
    <3>3. prog.dcls \o When(FALSE, DclWritten(u)) = prog.dcls
      BY <1>3, WhenConcat
    <3> QED BY <3>1, <3>2, <3>3
  <2> QED BY <2>1, <2>2
<1>6. ToSet(prog'.defs) = ToSet(prog.defs) \cup
        (IF Opcode(u[1]) \in Defs THEN {DefWritten(u)} ELSE {})
  BY <1>2, Zenon DEF Adds
<1>7. Opcode(u[1]) # "end" /\ Passed(prog, pos, units, k)
  OBVIOUS
<1>8. Passed(prog', pos + Len(u), units, k + 1)
  <2> HIDE DEF units
  <2> QED BY <1>1, <1>4, <1>5, <1>6, <1>7, PassedNext
<1> QED BY <1>2, <1>8

LEMMA CommentTaken ==
    ASSUME ParseType, WellFormedShaders, NEW k, Passed(prog, pos, shader.units, k), Comment
    PROVE  /\ NextUnit(shader.units[k + 1], k) /\ TakesUnit(shader.units[k + 1])
           /\ Opcode(shader.units[k + 1][1]) # "end"
<1> DEFINE u == shader.units[k + 1]
<1>1. At({"comment"}) /\ (Fail \/ Continue(prog, Current.len))
  BY DEF Comment
<1>2. NextUnit(u, k)
  BY <1>1, UnitAt
<1> HIDE DEF u
<1>3. Opcode(u[1]) = "comment" /\ u[1] = Current
  BY <1>1, <1>2 DEF At, NextUnit
<1>4. Len(u) = 1 + u[1].len
  BY <1>2, <1>3 DEF NextUnit, WellFormed
<1>5. u[1].len \in Nat /\ pos \in Nat
  <2>1. Current \in Dwords /\ pos \in Nat
    BY <1>1, AtTyped
  <2> QED BY <1>3, <2>1, OpcodeTyped
<1>6. "comment" \notin Instructive /\ "comment" # "dcl" /\ "comment" \notin Defs
      /\ "comment" # "end"
  BY Kinds
<1>7. Adds(u, prog)
  BY <1>3, <1>6 DEF Adds
<1>8. CASE Continue(prog, Current.len)
  <2>1. pos' = pos + Len(u)
    <3> DEFINE n == u[1].len
    <3>1. pos' = pos + 1 + n
      BY <1>3, <1>8 DEF Continue
    <3>2. n \in Nat /\ Len(u) = 1 + n
      BY <1>4, <1>5
    <3> HIDE DEF n
    <3> QED BY <1>5, <3>1, <3>2
  <2> QED BY <1>2, <1>3, <1>6, <1>7, <1>8, <2>1 DEF Continue, TakesUnit, u
<1>9. CASE Fail
  BY <1>2, <1>3, <1>6, <1>9 DEF TakesUnit, u
<1> QED BY <1>1, <1>8, <1>9

LEMMA DclTaken ==
    ASSUME ParseType, WellFormedShaders, NEW k, Passed(prog, pos, shader.units, k), Dcl
    PROVE  /\ NextUnit(shader.units[k + 1], k) /\ TakesUnit(shader.units[k + 1])
           /\ Opcode(shader.units[k + 1][1]) # "end"
<1> DEFINE u == shader.units[k + 1]
           reg == Register(Operand(2))
           sem == Operand(1)
           dcl == [usage |-> IF sem.is = "sem" THEN sem.usage ELSE "position",
                   index |-> IF sem.is = "sem" THEN sem.index ELSE 0, reg |-> reg]
           dcls == Append(prog.dcls, dcl)
           samplers == IF reg.type = "sampler" THEN prog.samplers \cup {reg.number}
                                               ELSE prog.samplers
           inputs == IF reg.type = "input" THEN prog.inputs \cup {reg.number}
                                           ELSE prog.inputs
           outputs == IF reg.type = "output" THEN prog.outputs \cup {reg.number}
                                             ELSE prog.outputs
           position == prog.position \/ /\ reg.type = "output"
                                        /\ dcl.usage = "position"
                                        /\ dcl.index = 0
           p == [prog EXCEPT !.dcls = dcls, !.samplers = samplers, !.inputs = inputs,
                             !.outputs = outputs, !.position = position]
<1>1. At({"dcl"}) /\ (Fail \/ Continue(p, 2))
  <2> HIDE DEF sem
  <2> QED BY Zenon DEF Dcl, sem
<1>2. NextUnit(u, k)
  BY <1>1, UnitAt
<1> HIDE DEF u
<1>3. Opcode(u[1]) = "dcl" /\ u[1] = Current
  BY <1>1, <1>2 DEF At, NextUnit
<1>4. Len(u) = 3 /\ u[2].is = "sem" /\ u[3].is = "reg"
  BY <1>2, <1>3 DEF NextUnit, WellFormed
<1>5. sem = u[2] /\ Operand(2) = u[3]
  <2>1. 1 \in 1..(Len(u) - 1) /\ 2 \in 1..(Len(u) - 1) /\ 1 + 1 = 2 /\ 2 + 1 = 3
    BY <1>4
  <2>2. \A j \in 1..(Len(u) - 1) : Operand(j) = u[j + 1]
    BY <1>2 DEF NextUnit, Reads
  <2> QED BY <2>1, <2>2
<1>6. reg = u[3].reg
  BY <1>4, <1>5, RegisterIn
<1>7. dcl = DclWritten(u)
  <2> HIDE DEF sem, reg
  <2> QED BY <1>4, <1>5, <1>6 DEF DclWritten
<1>8. p.insts = prog.insts /\ p.defs = prog.defs /\ p.dcls = dcls
  <2>1. prog \in Programs
    BY TablesTyped
  <2> HIDE DEF dcls, samplers, inputs, outputs, position
  <2> QED BY SMTT(30), <2>1 DEF Programs
<1>9. "dcl" \notin Instructive /\ "dcl" \notin Defs /\ "dcl" # "end"
  BY Kinds
<1> HIDE DEF p, dcl
<1>10. Adds(u, p)
  BY <1>3, <1>7, <1>8, <1>9 DEF Adds
<1>11. CASE Continue(p, 2)
  <2>1. pos \in Nat
    BY <1>1, AtTyped
  <2>2. pos' = pos + Len(u)
    BY <1>4, <1>11, <2>1 DEF Continue
  <2>3. prog' = p /\ UNCHANGED <<shader, status>>
    BY <1>11 DEF Continue
  <2> QED BY <1>2, <1>3, <1>9, <1>10, <2>2, <2>3 DEF TakesUnit, u
<1>12. CASE Fail
  BY <1>2, <1>3, <1>9, <1>12 DEF TakesUnit, u
<1> QED BY <1>1, <1>11, <1>12

LEMMA WithDefAdds ==
    ASSUME NEW X, NEW defs \in Seq(X), NEW e
    PROVE  ToSet(WithDef(defs, e)) = ToSet(defs) \cup {e}
<1>1. CASE e \in ToSet(defs)
  BY <1>1 DEF WithDef
<1>2. CASE e \notin ToSet(defs)
  <2>1. WithDef(defs, e) = defs \o <<e>>
    BY <1>2, WhenConcat DEF WithDef, When
  <2>2. IsSeq(defs)
    BY IsSeqIf
  <2> QED BY <2>1, <2>2, SingleIsSeq, ConcatIsSeq
<1> QED BY <1>1, <1>2

LEMMA DefTaken ==
    ASSUME ParseType, WellFormedShaders, NEW k, Passed(prog, pos, shader.units, k), Def
    PROVE  /\ NextUnit(shader.units[k + 1], k) /\ TakesUnit(shader.units[k + 1])
           /\ Opcode(shader.units[k + 1][1]) # "end"
<1> DEFINE u == shader.units[k + 1]
           op == Opcode(Current)
           size == IF op = "defb" THEN 2 ELSE 5
           entry == <<DefType(op), Register(Operand(1)).number>>
           defs == WithDef(prog.defs, entry)
           p == [prog EXCEPT !.defs = defs]
<1>1. At(Defs) /\ (Fail \/ Continue(p, size))
  BY Zenon DEF Def
<1>2. NextUnit(u, k)
  BY <1>1, UnitAt
<1> HIDE DEF u
<1>3. op \in Defs /\ u[1] = Current
  BY <1>1, <1>2 DEF At, NextUnit
<1>4. Len(u) = size + 1 /\ u[2].is = "reg" /\ size \in Nat /\ size >= 1
  BY <1>2, <1>3 DEF NextUnit, WellFormed
<1>5. Operand(1) = u[2]
  <2>1. 1 \in 1..(Len(u) - 1) /\ 1 + 1 = 2
    <3> HIDE DEF size
    <3> QED BY <1>4
  <2>2. \A j \in 1..(Len(u) - 1) : Operand(j) = u[j + 1]
    BY <1>2 DEF NextUnit, Reads
  <2> QED BY <2>1, <2>2
<1>6. entry = DefWritten(u)
  BY <1>3, <1>4, <1>5, RegisterIn DEF DefWritten
<1>7. ToSet(defs) = ToSet(prog.defs) \cup {entry}
  <2> HIDE DEF entry
  <2> QED BY TablesTyped, WithDefAdds
<1>8. p.insts = prog.insts /\ p.dcls = prog.dcls /\ p.defs = defs
  <2>1. prog \in Programs
    BY TablesTyped
  <2> HIDE DEF defs
  <2> QED BY SMTT(30), <2>1 DEF Programs
<1>9. op \notin Instructive /\ op # "dcl" /\ op # "end"
  <2> HIDE DEF op
  <2> QED BY <1>3, Kinds
<1> HIDE DEF p, entry, defs, size
<1>10. Adds(u, p)
  <2>1. Opcode(u[1]) = op
    BY <1>3
  <2> HIDE DEF op
  <2> QED BY <1>3, <1>6, <1>7, <1>8, <1>9, <2>1 DEF Adds
<1>o. Opcode(u[1]) # "end"
  BY <1>3, <1>9
<1>11. CASE Continue(p, size)
  <2>1. pos \in Nat
    BY <1>1, AtTyped
  <2>2. pos' = pos + Len(u)
    BY <1>4, <1>11, <2>1 DEF Continue
  <2>3. prog' = p /\ UNCHANGED <<shader, status>>
    BY <1>11 DEF Continue
  <2> QED BY <1>2, <1>o, <1>10, <2>2, <2>3 DEF TakesUnit, u
<1>12. CASE Fail
  BY <1>2, <1>o, <1>12 DEF TakesUnit, u
<1> QED BY <1>1, <1>11, <1>12

\* A unit of which every dword but the first is a register.
LEMMA RegsOfAll ==
    ASSUME NEW u \in Seq(Dwords), NEW n \in Nat, Len(u) = 1 + n, u[1].is # "reg",
           \A j \in 2..Len(u) : u[j].is = "reg"
    PROVE  Regs(u) = [i \in 1..n |-> u[i + 1].reg]
<1> DEFINE S == {m \in Nat : m <= n => Len(RegsIn(u, m + 1)) = m}
<1>t. /\ Regs(u) \in Seq(Registers) /\ RegsIn(u, Len(u)) = Regs(u)
      /\ Len(Regs(u)) \in Nat
  BY RegPiecesTyped
<1>1. 0 \in S
  <2>1. 0 \in Nat /\ 0 < Len(u) /\ 0 + 1 = 1
    OBVIOUS
  <2>2. Len(RegsIn(u, 0 + 1)) = Len(RegsIn(u, 0))
    BY <2>1, RegsNext
  <2>3. RegsIn(u, 0) = <<>>
    <3> DEFINE f == RegPieces(u)
    <3>1. f \in Seq(Seq(Registers))
      BY RegPiecesTyped
    <3> HIDE DEF f
    <3>2. SubSeq(f, 1, 0) = <<>>
      BY <3>1
    <3> QED BY <3>2, FlattenEmpty DEF RegsIn, f
  <2> QED BY <2>2, <2>3
<1>2. ASSUME NEW m \in Nat, m \in S PROVE m + 1 \in S
  <2> SUFFICES ASSUME m + 1 <= n PROVE Len(RegsIn(u, (m + 1) + 1)) = m + 1
    OBVIOUS
  <2>1. m + 1 \in Nat /\ m + 1 < Len(u) /\ (m + 1) + 1 \in 2..Len(u) /\ m <= n
    OBVIOUS
  <2>2. u[(m + 1) + 1].is = "reg"
    BY <2>1
  <2>3. Len(RegsIn(u, (m + 1) + 1)) = Len(RegsIn(u, m + 1)) + 1
    BY <2>1, <2>2, RegsNext
  <2>4. Len(RegsIn(u, m + 1)) = m
    BY <1>2, <2>1
  <2> QED BY <2>3, <2>4
<1>3. Nat \subseteq S
  <2> HIDE DEF S
  <2> QED BY <1>1, <1>2, SetInduction
<1>4. Len(Regs(u)) = n
  <2>1. n \in S
    BY <1>3
  <2>2. Len(RegsIn(u, n + 1)) = n /\ n + 1 = Len(u)
    BY <2>1
  <2> QED BY <1>t, <2>2
<1>5. ASSUME NEW i \in 1..n PROVE Regs(u)[i] = u[i + 1].reg
  <2>1. i - 1 \in Nat /\ (i - 1) + 1 = i /\ i - 1 <= n
    OBVIOUS
  <2>2. i - 1 \in S
    BY <1>3, <2>1, Zenon
  <2>3. Len(RegsIn(u, i)) = i - 1
    BY <2>1, <2>2
  <2>4. i \in Nat /\ i < Len(u) /\ i + 1 \in 2..Len(u)
    OBVIOUS
  <2>5. u[i + 1].is = "reg"
    BY <2>4
  <2>6. Regs(u)[Len(RegsIn(u, i)) + 1] = u[i + 1].reg
    BY <2>4, <2>5, RegsNext
  <2> QED BY <2>1, <2>3, <2>6
<1> DEFINE R == Registers
           r == Regs(u)
           s == [i \in 1..n |-> u[i + 1].reg]
<1>6. \A i \in 1..n : s[i] = r[i]
  BY <1>5
<1>7. s = [i \in 1..n |-> s[i]]
  OBVIOUS
<1>8. r \in Seq(R) /\ Len(r) = n
  BY <1>t, <1>4
<1> HIDE DEF r, s, R
<1>9. r = s
  BY <1>6, <1>7, <1>8
<1> QED BY <1>9 DEF r, s

\* Tracking registers leaves the tables alone.
LEMMA TrackedKeeps ==
    ASSUME NEW p, NEW inst, {"insts", "dcls", "defs"} \subseteq DOMAIN p
    PROVE  /\ Tracked(p, inst).insts = p.insts /\ Tracked(p, inst).dcls = p.dcls
           /\ Tracked(p, inst).defs = p.defs
BY DEF Tracked

LEMMA ControlTaken ==
    ASSUME ParseType, WellFormedShaders, NEW k, Passed(prog, pos, shader.units, k),
           NEW ops \in SUBSET (Compares \cup Tests \cup Bare), NEW n \in Nat,
           Control(ops, n),
           n = IF ops = Compares THEN 2 ELSE IF ops = Tests THEN 1 ELSE 0,
           ops \in {Compares, Tests, Bare}
    PROVE  /\ NextUnit(shader.units[k + 1], k) /\ TakesUnit(shader.units[k + 1])
           /\ Opcode(shader.units[k + 1][1]) # "end"
<1> DEFINE u == shader.units[k + 1]
           src == [i \in 1..n |-> Register(Operand(i))]
           inst == Instruction(Opcode(Current), NoRegister, src)
           p == [prog EXCEPT !.insts = Append(@, inst)]
           op == Opcode(Current)
<1>1. At(ops) /\ (Fail \/ Continue(p, n))
  BY Zenon DEF Control
<1>2. NextUnit(u, k)
  BY <1>1, UnitAt
<1> HIDE DEF u
<1>3. op \in ops /\ u[1] = Current
  BY <1>1, <1>2 DEF At, NextUnit
<1>4. /\ op \in Compares \cup Tests \cup Bare /\ op \in Instructive
      /\ op \notin Arithmetic /\ op # "dcl" /\ op \notin Defs /\ op # "end"
      /\ op \in Compares => n = 2
      /\ op \in Tests => n = 1
      /\ op \in Bare => n = 0
  <2> HIDE DEF op
  <2>1. op \in Compares \cup Tests \cup Bare
    BY <1>3
  <2>2. op \in Instructive
    BY <2>1 DEF Instructive
  <2>3. op \notin Arithmetic /\ op # "dcl" /\ op \notin Defs /\ op # "end"
    BY <2>1, <2>2, Kinds
  <2>4. /\ op \in Compares => op \notin Tests /\ op \notin Bare
        /\ op \in Tests => op \notin Compares /\ op \notin Bare
    BY Kinds
  <2>5. op \in ops
    BY <1>3
  <2>6. (op \in Compares => n = 2) /\ (op \in Tests => n = 1) /\ (op \in Bare => n = 0)
    <3>1. Tests # Compares /\ Bare # Compares /\ Bare # Tests
      <4>1. "ifc" \in Compares /\ "ifc" \notin Tests /\ "rep" \in Tests
            /\ "ifc" \notin Bare /\ "rep" \notin Bare
        BY DEF Compares, Tests, Bare
      <4> QED BY <4>1
    <3>2. CASE ops = Compares
      BY <2>4, <2>5, <3>2
    <3>3. CASE ops = Tests
      BY <2>4, <2>5, <3>1, <3>3
    <3>4. CASE ops = Bare
      BY <2>4, <2>5, <3>1, <3>4
    <3> QED BY <3>2, <3>3, <3>4
  <2> QED BY <2>1, <2>2, <2>3, <2>6
<1>5. Len(u) = 1 + n /\ \A j \in 2..Len(u) : u[j].is = "reg"
  BY <1>2, <1>3, <1>4 DEF NextUnit, WellFormed
<1>6. u \in Seq(Dwords) /\ u[1].is # "reg"
  BY <1>2 DEF NextUnit, WellFormed
<1>7. Regs(u) = src
  <2>1. Regs(u) = [i \in 1..n |-> u[i + 1].reg]
    BY <1>5, <1>6, RegsOfAll
  <2>2. ASSUME NEW i \in 1..n PROVE Register(Operand(i)) = u[i + 1].reg
    <3>1. i \in 1..(Len(u) - 1) /\ i + 1 \in 2..Len(u)
      BY <1>5
    <3>2. Operand(i) = u[i + 1]
      BY <1>2, <3>1 DEF NextUnit, Reads
    <3>3. u[i + 1].is = "reg"
      BY <1>5, <3>1
    <3> QED BY <3>2, <3>3, RegisterIn
  <2> QED BY <2>1, <2>2
<1>8. AsWritten(u) = inst
  <2>1. Opcode(u[1]) = op /\ op \notin Arithmetic \ {"nop"}
    BY <1>3, <1>4
  <2> HIDE DEF src, op
  <2>2. AsWritten(u) = Instruction(op, NoRegister, src)
    BY <1>7, <2>1 DEF AsWritten
  <2> QED BY <2>2 DEF op
<1>9. p.insts = Append(prog.insts, inst) /\ p.dcls = prog.dcls /\ p.defs = prog.defs
  <2>1. prog \in Programs
    BY TablesTyped
  <2> DEFINE insts == Append(prog.insts, inst)
  <2>2. p = [prog EXCEPT !.insts = insts]
    OBVIOUS
  <2> HIDE DEF p, insts
  <2>3. p.insts = insts /\ p.dcls = prog.dcls /\ p.defs = prog.defs
    BY SMTT(30), <2>1, <2>2 DEF Programs
  <2> QED BY <2>3 DEF insts
<1> HIDE DEF p, inst, src
<1>10. Adds(u, p)
  <2>1. Opcode(u[1]) = op
    BY <1>3
  <2> HIDE DEF op
  <2> QED BY <1>4, <1>8, <1>9, <2>1 DEF Adds
<1>o. Opcode(u[1]) # "end"
  BY <1>3, <1>4
<1>11. CASE Continue(p, n)
  <2>1. pos \in Nat
    BY <1>1, AtTyped
  <2>2. pos' = pos + Len(u)
    BY <1>5, <1>11, <2>1 DEF Continue
  <2>3. prog' = p /\ UNCHANGED <<shader, status>>
    BY <1>11 DEF Continue
  <2> QED BY <1>2, <1>o, <1>10, <2>2, <2>3 DEF TakesUnit, u
<1>12. CASE Fail
  BY <1>2, <1>o, <1>12 DEF TakesUnit, u
<1> QED BY <1>1, <1>11, <1>12

LEMMA RegularTaken ==
    ASSUME ParseType, WellFormedShaders, NEW k, Passed(prog, pos, shader.units, k), Regular
    PROVE  /\ NextUnit(shader.units[k + 1], k) /\ TakesUnit(shader.units[k + 1])
           /\ Opcode(shader.units[k + 1][1]) # "end"
<1> DEFINE u == shader.units[k + 1]
           op == Opcode(Current)
           dsts == IF HasDst(op) THEN 1 ELSE 0
           n == dsts + SrcCount(op)
           place == Places(n)
           reg == [i \in 1..n |-> Register(Operand(place[i]))]
           cut == \E i \in 1..n : reg[i].relative /\ ~Enough(place[i] + 1)
           inst == Instruction(op, IF HasDst(op) THEN reg[1] ELSE NoRegister,
                               SubSeq(reg, dsts + 1, n))
           p == [prog EXCEPT !.insts = Append(@, inst)]
<1>1. At(Arithmetic) /\ (Fail \/ Continue(Tracked(p, inst), place[n + 1] - 1))
  BY Zenon DEF Regular
<1>2. NextUnit(u, k)
  BY <1>1, UnitAt, SMTT(60)
<1> HIDE DEF u
<1>3. op \in Arithmetic /\ u[1] = Current /\ Opcode(u[1]) = op
  BY <1>1, <1>2 DEF At, NextUnit
<1>4. /\ op \in Instructive /\ op # "dcl" /\ op \notin Defs /\ op # "end"
      /\ SrcCount(op) \in 0..3 /\ dsts \in 0..1 /\ n = dsts + SrcCount(op)
      /\ HasDst(op) <=> op \in Arithmetic \ {"nop"}
  <2> HIDE DEF op
  <2>1. op \in Instructive
    BY <1>3 DEF Instructive
  <2> QED BY <1>3, <2>1, Kinds, SrcCountTyped DEF HasDst
<1>5. Laid(u) /\ Len(Regs(u)) = n /\ u \in Seq(Dwords) /\ Reads(u)
  <2>1. WellFormed(u) /\ u \in Seq(Dwords) /\ Reads(u)
    BY <1>2 DEF NextUnit
  <2>2. u # <<>> /\ u[1].is # "reg" /\ Len(u) >= 1
    BY <2>1 DEF WellFormed
  <2>3. /\ \A j \in 2..Len(u) :
             /\ u[j].is \in {"reg", "rel"}
             /\ u[j].is = "rel" <=> Indexed(u[j - 1])
        /\ ~Indexed(u[Len(u)])
        /\ Len(Regs(u)) = SrcCount(op) + (IF HasDst(op) THEN 1 ELSE 0)
    <3> HIDE DEF op
    <3> QED BY <1>3, <2>1, Zenon DEF WellFormed
  <2>4. Len(Regs(u)) = n
    <3> DEFINE c == SrcCount(op)
    <3>1. Len(Regs(u)) = c + dsts /\ c \in Nat /\ dsts \in Nat /\ n = dsts + c
      BY <1>4, <2>3
    <3> HIDE DEF c, dsts, n
    <3> QED BY <3>1
  <2>5. Laid(u)
    <3> HIDE DEF op
    <3> QED BY <2>2, <2>3, Zenon DEF Laid
  <2> HIDE DEF n, op
  <2> QED BY <2>1, <2>4, <2>5
<1> HIDE DEF n
<1>6. /\ n \in Nat /\ place[n + 1] = Len(u)
      /\ \A i \in 1..n : Register(Operand(place[i])) = Regs(u)[i]
  BY <1>5, OperandsFound
<1>7. reg = Regs(u) /\ Regs(u) \in Seq(Registers)
  <2> DEFINE R == Registers
             r == Regs(u)
  <2>1. r \in Seq(R) /\ Len(r) = n
    BY <1>5, RegPiecesTyped
  <2>2. \A i \in 1..n : reg[i] = r[i]
    BY <1>6
  <2>3. reg = [i \in 1..n |-> reg[i]]
    OBVIOUS
  <2> HIDE DEF reg, r, R
  <2>4. reg = r
    BY <2>1, <2>2, <2>3
  <2> QED BY <2>1, <2>4 DEF r, R
<1> HIDE DEF reg, place
<1>8. AsWritten(u) = inst
  <2> DEFINE c == SrcCount(op)
  <2>1. CASE HasDst(op)
    <3>1. dsts = 1 /\ n = Len(reg) /\ n >= 1 /\ reg \in Seq(Registers)
      <4>1. dsts = 1
        BY <2>1
      <4>2. c \in Nat /\ n = dsts + c
        BY <1>4
      <4> HIDE DEF dsts, c
      <4> QED BY <1>5, <1>7, <4>1, <4>2
    <3>2. Head(reg) = reg[1] /\ Tail(reg) = SubSeq(reg, dsts + 1, n)
      <4> HIDE DEF dsts
      <4>1. reg # <<>>
        BY <3>1
      <4> QED BY <3>1, <4>1
    <3>3. op \in Arithmetic \ {"nop"}
      <4> HIDE DEF op
      <4> QED BY <1>4, <2>1
    <3> HIDE DEF dsts, op
    <3>4. AsWritten(u) = Instruction(op, Head(reg), Tail(reg))
      BY <1>3, <1>7, <3>3 DEF AsWritten
    <3> QED BY <2>1, <3>2, <3>4
  <2>2. CASE ~HasDst(op)
    <3>1. dsts = 0 /\ n = Len(reg) /\ reg \in Seq(Registers)
      BY <1>5, <1>7, <2>2
    <3>2. SubSeq(reg, dsts + 1, n) = reg
      <4> HIDE DEF dsts
      <4>1. SubSeq(reg, 1, Len(reg)) = reg
        BY <3>1
      <4>2. dsts + 1 = 1
        BY <3>1
      <4> QED BY <3>1, <4>1, <4>2
    <3>3. op \notin Arithmetic \ {"nop"}
      <4> HIDE DEF op
      <4> QED BY <1>4, <2>2
    <3> HIDE DEF dsts, op
    <3>4. AsWritten(u) = Instruction(op, NoRegister, reg)
      BY <1>3, <1>7, <3>3 DEF AsWritten
    <3> QED BY <2>2, <3>2, <3>4
  <2> QED BY <2>1, <2>2
<1> HIDE DEF inst, dsts
<1>9. /\ Tracked(p, inst).insts = Append(prog.insts, inst)
      /\ Tracked(p, inst).dcls = prog.dcls /\ Tracked(p, inst).defs = prog.defs
  <2>1. prog \in Programs
    BY TablesTyped
  <2> DEFINE insts == Append(prog.insts, inst)
  <2>2. p = [prog EXCEPT !.insts = insts]
    OBVIOUS
  <2> HIDE DEF p, insts
  <2>3. p.insts = insts /\ p.dcls = prog.dcls /\ p.defs = prog.defs
    BY SMTT(30), <2>1, <2>2 DEF Programs
  <2>4. /\ Tracked(p, inst).insts = p.insts /\ Tracked(p, inst).dcls = p.dcls
        /\ Tracked(p, inst).defs = p.defs
    <3>1. {"insts", "dcls", "defs"} \subseteq DOMAIN prog
      BY <2>1 DEF Programs
    <3>2. DOMAIN p = DOMAIN prog
      BY <2>2
    <3> QED BY <3>1, <3>2, TrackedKeeps
  <2> QED BY <2>3, <2>4 DEF insts
<1> DEFINE t == Tracked(p, inst)
<1> HIDE DEF p, t
<1>10. Adds(u, t)
  <2> HIDE DEF op
  <2> QED BY <1>3, <1>4, <1>8, <1>9 DEF Adds, t
<1>o. Opcode(u[1]) # "end"
  BY <1>3, <1>4
<1>11. CASE Continue(t, place[n + 1] - 1)
  <2>1. pos \in Nat /\ Len(u) \in Nat
    BY <1>1, <1>2, AtTyped DEF NextUnit
  <2>2. pos' = pos + Len(u)
    BY <1>6, <1>11, <2>1 DEF Continue
  <2>3. prog' = t /\ UNCHANGED <<shader, status>>
    BY <1>11 DEF Continue
  <2> QED BY <1>2, <1>o, <1>10, <2>2, <2>3 DEF TakesUnit, u
<1>12. CASE Fail
  BY <1>2, <1>o, <1>12 DEF TakesUnit, u
<1> QED BY <1>1, <1>11, <1>12 DEF t

-----------------------------------------------------------------------------
\* The whole program is what was written.

Whole(p, q, s) ==
  \E n \in DOMAIN s.units :
    LET written == SubSeq(s.units, 1, n) IN
    /\ \A i \in 1..n : Opcode(s.units[i][1]) = "end" <=> i = n
    /\ q = 1 + Len(FlattenSeq(written)) /\ q <= s.count
    /\ p.insts = WrittenInsts(written)
    /\ p.dcls = WrittenDcls(written)
    /\ ToSet(p.defs) = WrittenDefs(written)

ReadSoFar == status = "parsing" => \E k \in Nat : Passed(prog, pos, shader.units, k)
FInv == ReadSoFar /\ Faithful

LEMMA FaithfulIs == Faithful <=> (Accepted => Whole(prog, pos, shader))
BY DEF Faithful, Whole

LEMMA NothingPassed ==
    ASSUME NEW units \in Seq(Seq(Dwords)), NEW type, NEW major
    PROVE  Passed(EmptyProgram(type, major), 2, units, 0)
<1>1. SubSeq(units, 1, 0) = <<>> /\ Len(units) \in Nat
  <2> DEFINE T == Seq(Dwords)
  <2> HIDE DEF T
  <2>1. units \in Seq(T)
    BY DEF T
  <2> QED BY <2>1
<1>2. FlattenSeq(<<>>) = <<>> /\ Len(<<>>) = 0
  BY FlattenEmpty
<1>3. WrittenInsts(<<>>) = <<>> /\ WrittenDcls(<<>>) = <<>>
  <2>1. WrittenInsts(<<>>) = FlattenSeq(<<>>)
    BY DEF WrittenInsts
  <2>2. WrittenDcls(<<>>) = FlattenSeq(<<>>)
    BY DEF WrittenDcls
  <2> QED BY <1>2, <2>1, <2>2
<1>4. WrittenDefs(<<>>) = {} /\ ToSet(<<>>) = {}
  BY EmptyIsSeq DEF WrittenDefs
<1>5. /\ EmptyProgram(type, major).insts = <<>>
      /\ EmptyProgram(type, major).dcls = <<>>
      /\ EmptyProgram(type, major).defs = <<>>
  BY DEF EmptyProgram
<1> DEFINE p == EmptyProgram(type, major)
<1> HIDE DEF p
<1>6. \A i \in 1..0 : Opcode(units[i][1]) # "end"
  <2>1. 1..0 = {}
    OBVIOUS
  <2> QED BY <2>1
<1>7. 0 \in Nat /\ 0 <= Len(units)
  BY <1>1
<1>8. 2 = 2 + Len(FlattenSeq(SubSeq(units, 1, 0)))
  <2>1. Len(FlattenSeq(SubSeq(units, 1, 0))) = 0
    BY <1>1, <1>2, Zenon
  <2> DEFINE l == Len(FlattenSeq(SubSeq(units, 1, 0)))
  <2>2. l = 0
    BY <2>1
  <2> HIDE DEF l
  <2>3. 2 = 2 + l
    BY <2>2
  <2> QED BY <2>3 DEF l
<1>9. p.insts = <<>> /\ p.dcls = <<>> /\ p.defs = <<>>
  BY <1>5 DEF p
<1>10. /\ p.insts = WrittenInsts(SubSeq(units, 1, 0))
       /\ p.dcls = WrittenDcls(SubSeq(units, 1, 0))
       /\ ToSet(p.defs) = WrittenDefs(SubSeq(units, 1, 0))
  BY <1>1, <1>3, <1>4, <1>9, Zenon
<1>11. Passed(p, 2, units, 0)
  BY <1>6, <1>7, <1>8, <1>10, Zenon DEF Passed
<1> QED BY <1>11 DEF p

\* At the end of the shader nothing is left to be found.
LEMMA EndPassed ==
    ASSUME ParseType, NEW k, Passed(prog, pos, shader.units, k),
           k < Len(shader.units), pos <= shader.count, NEW r,
           Opcode(shader.units[k + 1][1]) = "end", Len(shader.units[k + 1]) = 1,
           r.insts = prog.insts, r.dcls = prog.dcls, r.defs = prog.defs
    PROVE  Whole(r, pos, shader)
<1> DEFINE units == shader.units
           u == units[k + 1]
           us == SubSeq(units, 1, k)
           vs == SubSeq(units, 1, k + 1)
<1>0. units \in Seq(Seq(Dwords)) /\ Len(units) \in Nat /\ DOMAIN units = 1..Len(units)
  BY ShadersTyped DEF ParseType
<1>1. k \in Nat /\ pos = 2 + Len(FlattenSeq(us))
      /\ prog.insts = WrittenInsts(us) /\ prog.dcls = WrittenDcls(us)
      /\ ToSet(prog.defs) = WrittenDefs(us)
  BY DEF Passed
<1>2. us \in Seq(Seq(Dwords)) /\ u \in Seq(Dwords) /\ vs = Append(us, u)
  <2> DEFINE T == Seq(Dwords)
  <2> HIDE DEF T, units
  <2>1. units \in Seq(T) /\ k < Len(units)
    BY <1>0 DEF T, units
  <2>2. us \in Seq(T) /\ u \in T /\ vs = Append(us, u)
    BY <1>1, <2>1, OneMore
  <2> QED BY <2>2 DEF T
<1>3. pos = 1 + Len(FlattenSeq(vs))
  <2> DEFINE a == FlattenSeq(us)
             b == FlattenSeq(vs)
             D == Dwords
  <2>1. a \in Seq(D) /\ u \in Seq(D) /\ b = a \o u
    BY <1>2, FlattenAppend
  <2>2. Len(u) = 1 /\ pos = 2 + Len(a)
    BY <1>1
  <2> HIDE DEF a, b, D, u
  <2>3. Len(b) = Len(a) + Len(u)
    BY <2>1
  <2>4. Len(a) \in Nat
    BY <2>1
  <2> DEFINE m == Len(a)
             l == Len(b)
             w == Len(u)
  <2>5. l = m + w /\ m \in Nat /\ w = 1 /\ pos = 2 + m
    BY <2>2, <2>3, <2>4
  <2> HIDE DEF m, l, w
  <2>6. pos = 1 + l
    BY <2>5
  <2> QED BY <2>6 DEF b, l
<1>4. \A i \in 1..(k + 1) : Opcode(units[i][1]) = "end" <=> i = k + 1
  <2>1. \A i \in 1..k : Opcode(units[i][1]) # "end"
    BY DEF Passed
  <2>2. \A i \in 1..(k + 1) : i \in 1..k \/ i = k + 1
    BY <1>1
  <2>3. \A i \in 1..k : i # k + 1
    BY <1>1
  <2> QED BY <2>1, <2>2, <2>3
<1>4a. "end" \notin Instructive /\ "end" # "dcl" /\ "end" \notin Defs
  BY Kinds
<1>5. WrittenInsts(vs) = WrittenInsts(us)
  <2>1. WrittenInsts(vs) = WrittenInsts(us) \o When("end" \in Instructive, AsWritten(u))
    BY <1>2, InstsOneMore
  <2>2. ("end" \in Instructive) = FALSE
    BY <1>4a
  <2>3. When(FALSE, AsWritten(u)) = <<>>
    BY DEF When
  <2>4. WrittenInsts(vs) = WrittenInsts(us) \o <<>>
    BY <2>1, <2>2, <2>3
  <2>5. WrittenInsts(us) \in Seq(Instructions)
    BY <1>1, TablesTyped
  <2> DEFINE w == WrittenInsts(us)
  <2> HIDE DEF w
  <2>6. w \o <<>> = w
    BY <2>5, EmptySeq, ConcatProperties DEF w
  <2> QED BY <2>4, <2>6 DEF w
<1>6. WrittenDcls(vs) = WrittenDcls(us)
  <2>1. WrittenDcls(vs) = WrittenDcls(us) \o When("end" = "dcl", DclWritten(u))
    BY <1>2, DclsOneMore
  <2>2. ("end" = "dcl") = FALSE
    BY <1>4a
  <2>3. When(FALSE, DclWritten(u)) = <<>>
    BY DEF When
  <2>4. WrittenDcls(vs) = WrittenDcls(us) \o <<>>
    BY <2>1, <2>2, <2>3
  <2>5. WrittenDcls(us) \in Seq(Dcls)
    BY <1>1, TablesTyped
  <2> DEFINE w == WrittenDcls(us)
  <2> HIDE DEF w
  <2>6. w \o <<>> = w
    BY <2>5, EmptySeq, ConcatProperties DEF w
  <2> QED BY <2>4, <2>6 DEF w
<1>7. WrittenDefs(vs) = WrittenDefs(us)
  <2>1. WrittenDefs(vs) = WrittenDefs(us) \cup
          (IF Opcode(u[1]) \in Defs THEN {DefWritten(u)} ELSE {})
    BY <1>2, DefsOneMore
  <2> QED BY <1>4a, <2>1
<1>8. k + 1 \in DOMAIN units /\ pos <= shader.count
  <2> HIDE DEF units
  <2>1. k < Len(units)
    BY DEF units
  <2> QED BY <1>0, <1>1, <2>1
<1>9. r.insts = WrittenInsts(vs) /\ r.dcls = WrittenDcls(vs)
      /\ ToSet(r.defs) = WrittenDefs(vs)
  <2> HIDE DEF us, vs
  <2> QED BY <1>1, <1>5, <1>6, <1>7, Zenon
<1> HIDE DEF vs
<1>10. \E n \in DOMAIN units :
         LET written == SubSeq(units, 1, n) IN
         /\ \A i \in 1..n : Opcode(units[i][1]) = "end" <=> i = n
         /\ pos = 1 + Len(FlattenSeq(written)) /\ pos <= shader.count
         /\ r.insts = WrittenInsts(written)
         /\ r.dcls = WrittenDcls(written)
         /\ ToSet(r.defs) = WrittenDefs(written)
  <2> HIDE DEF units
  <2>1. k + 1 \in DOMAIN units
    BY <1>8
  <2> WITNESS k + 1 \in DOMAIN units
  <2> QED BY <1>3, <1>4, <1>8, <1>9, Zenon DEF vs
<1> QED BY <1>10 DEF Whole

LEMMA FInit == Init => FInv
BY DEF Init, ParseInit, FInv, ReadSoFar, Faithful, Accepted

\* As long as a shader is parsed, unit after unit is taken.
LEMMA UnitsTaken ==
    ASSUME ParseType, WellFormedShaders, NEW k \in Nat,
           Passed(prog, pos, shader.units, k),
           Comment \/ Dcl \/ Def \/ Compare \/ Test \/ Mark \/ Regular
    PROVE  /\ NextUnit(shader.units[k + 1], k) /\ TakesUnit(shader.units[k + 1])
           /\ Opcode(shader.units[k + 1][1]) # "end"
<1>1. CASE Comment
  BY <1>1, CommentTaken
<1>2. CASE Dcl
  BY <1>2, DclTaken
<1>3. CASE Def
  BY <1>3, DefTaken
<1>4. CASE Compare
  <2>1. Control(Compares, 2)
    BY <1>4 DEF Compare
  <2> QED BY <2>1, ControlTaken
<1>5. CASE Test
  <2>1. Control(Tests, 1) /\ Tests # Compares
    <3>1. "rep" \in Tests /\ "rep" \notin Compares
      BY DEF Tests, Compares
    <3> QED BY <1>5, <3>1 DEF Test
  <2> QED BY <2>1, ControlTaken
<1>6. CASE Mark
  <2>1. Control(Bare, 0) /\ Bare # Compares /\ Bare # Tests
    <3>1. "else" \in Bare /\ "else" \notin Compares /\ "else" \notin Tests
      BY DEF Bare, Tests, Compares
    <3> QED BY <1>6, <3>1 DEF Mark
  <2> QED BY <2>1, ControlTaken
<1>7. CASE Regular
  BY <1>7, RegularTaken
<1> QED BY <1>1, <1>2, <1>3, <1>4, <1>5, <1>6, <1>7

LEMMA FailedFaithful ==
    ASSUME Fail
    PROVE  FInv'
BY DEF Fail, FInv, ReadSoFar, Faithful, Accepted

LEMMA ParsingFaithful ==
    ASSUME ParseType, FInv, WellFormedShaders, Parse
    PROVE  FInv'
<1>1. CASE ReadVersion
  <2>1. CASE Fail
    BY <2>1, FailedFaithful
  <2>2. CASE /\ prog' = EmptyProgram(shader.type, shader.major)
             /\ pos' = 2 /\ status' = "parsing" /\ UNCHANGED shader
    <3>1. shader.units \in Seq(Seq(Dwords))
      BY ShadersTyped DEF ParseType
    <3>2. Passed(prog', pos', shader'.units, 0)
      BY <2>2, <3>1, NothingPassed
    <3>3. 0 \in Nat
      OBVIOUS
    <3> QED BY <2>2, <3>2, <3>3 DEF FInv, ReadSoFar, Faithful, Accepted
  <2> QED BY <1>1, <2>1, <2>2 DEF ReadVersion
<1>2. CASE Comment \/ Dcl \/ Def \/ Compare \/ Test \/ Mark \/ Regular
  <2>1. status = "parsing"
    BY <1>2 DEF Comment, Dcl, Def, Compare, Test, Mark, Control, Regular, At
  <2>2. PICK k \in Nat : Passed(prog, pos, shader.units, k)
    BY <2>1 DEF FInv, ReadSoFar
  <2>3. /\ NextUnit(shader.units[k + 1], k) /\ TakesUnit(shader.units[k + 1])
        /\ Opcode(shader.units[k + 1][1]) # "end"
    BY <1>2, <2>2, UnitsTaken
  <2>4. CASE Fail
    BY <2>4, FailedFaithful
  <2>5. CASE ~Fail
    <3>1. shader' = shader /\ Passed(prog', pos', shader.units, k + 1)
      BY <2>2, <2>3, <2>5, TakenPassed
    <3>2. status' = "parsing"
      BY <2>1, <2>3, <2>5 DEF TakesUnit
    <3>3. k + 1 \in Nat
      OBVIOUS
    <3> QED BY <3>1, <3>2, <3>3 DEF FInv, ReadSoFar, Faithful, Accepted
  <2> QED BY <2>4, <2>5
<1>3. CASE Unknown \/ MissingEnd
  BY <1>3, FailedFaithful DEF Unknown, MissingEnd
<1>4. CASE End
  <2>1. At({"end"}) /\ status = "parsing" /\ pos <= shader.count
    BY <1>4 DEF End, At
  <2>2. PICK k \in Nat : Passed(prog, pos, shader.units, k)
    BY <2>1 DEF FInv, ReadSoFar
  <2> DEFINE u == shader.units[k + 1]
  <2>3. NextUnit(u, k)
    BY <2>1, <2>2, UnitAt
  <2>4. Opcode(u[1]) = "end" /\ Len(u) = 1 /\ k < Len(shader.units)
    <3> HIDE DEF u
    <3>1. Opcode(u[1]) = "end"
      BY <2>1, <2>3 DEF At, NextUnit
    <3> QED BY <2>3, <3>1 DEF NextUnit, WellFormed
  <2>5. prog'.insts = prog.insts /\ prog'.dcls = prog.dcls /\ prog'.defs = prog.defs
    <3> DEFINE colors == IF prog.type = "ps" /\ prog.colors = 0 THEN 1 ELSE prog.colors
    <3>1. prog \in Programs
      BY TablesTyped
    <3>2. prog' = [prog EXCEPT !.colors = colors]
      BY <1>4 DEF End
    <3> HIDE DEF colors
    <3> QED BY SMTT(30), <3>1, <3>2 DEF Programs
  <2>6. Whole(prog', pos, shader)
    BY <2>1, <2>2, <2>4, <2>5, EndPassed
  <2>7. shader' = shader /\ pos' = pos /\ status' = "parsed"
    BY <1>4 DEF End
  <2>8. Faithful' <=> (Accepted' => Whole(prog', pos', shader'))
    BY DEF Faithful, Whole, Accepted
  <2>9. Faithful'
    BY <2>6, <2>7, <2>8, Zenon
  <2> QED BY <2>7, <2>9 DEF FInv, ReadSoFar
<1> QED BY <1>1, <1>2, <1>3, <1>4 DEF Parse

LEMMA FStep ==
    ASSUME TInv, FInv, WellFormedShaders, [Next]_vars
    PROVE  FInv'
<1>1. CASE Parse
  BY <1>1, ParsingFaithful DEF TInv
<1>2. ASSUME UNCHANGED <<shader, pos, prog>>,
             \/ status' = status
             \/ Accepted /\ status' \in {"emitting", "translated", "failed"}
      PROVE  FInv'
  <2>1. Accepted' => Accepted
    BY <1>2 DEF Accepted
  <2>2. status' = "parsing" => status = "parsing"
    BY <1>2 DEF Accepted
  <2>3. Whole(prog, pos, shader) = Whole(prog', pos', shader')
    BY <1>2
  <2>4. Faithful' <=> (Accepted' => Whole(prog', pos', shader'))
    BY DEF Faithful, Whole, Accepted
  <2>5. Faithful'
    BY <2>1, <2>3, <2>4, FaithfulIs DEF FInv
  <2>6. ReadSoFar'
    BY <1>2, <2>2 DEF FInv, ReadSoFar
  <2> QED BY <2>5, <2>6 DEF FInv
<1>3. CASE Declare
  BY <1>2, <1>3 DEF Declare, Accepted
<1>4. CASE EmitInstruction
  BY <1>2, <1>4 DEF EmitInstruction, parseVars
<1>5. CASE Finish
  BY <1>2, <1>5 DEF Finish, Accepted
<1>6. CASE UNCHANGED vars
  BY <1>2, <1>6 DEF vars, parseVars
<1> QED BY <1>1, <1>3, <1>4, <1>5, <1>6 DEF Next

\* An accepted program is the one that was written, for every shader of which
\* the units are as the parser takes them and which may be cut off anywhere:
\* dx9mt_sm_parse takes neither a dword too few nor one too many.
THEOREM ParsedAsWritten ==
  ASSUME WellFormedShaders
  PROVE  Spec => []Faithful
<1>1. Init => FInv
  BY FInit
<1>2. WellFormedShaders
  OBVIOUS
<1>3. TInv /\ FInv /\ [Next]_vars => FInv'
  BY <1>2, FStep
<1>4. FInv => Faithful
  BY DEF FInv
<1> QED BY <1>1, <1>3, <1>4, Invariant, PTL DEF Spec

-----------------------------------------------------------------------------
\* What the parser keeps of the registers it has seen.

\* A register that is only read, and one that is written or meant to be.
Seen(p, r) ==
  /\ r.type = "temp" => r.number <= p.maxTemp
  /\ r.type = "output" => r.number \in p.outputs
Counted(p, r) ==
  /\ Seen(p, r)
  /\ r.type = "attrout" => r.number \in p.attrouts
  /\ r.type = "rastout" /\ r.number = 1 => p.fog
  /\ r.type = "depthout" => p.depth

InstCounted(p, inst) ==
  /\ Counted(p, inst.dst)
  /\ inst.op \in Arithmetic => \A r \in ToSet(inst.src) : Seen(p, r)
AllCounted(p) == \A inst \in ToSet(p.insts) : InstCounted(p, inst)

\* q has seen whatever p has.
Beyond(q, p) ==
  /\ p.maxTemp <= q.maxTemp /\ p.outputs \subseteq q.outputs
  /\ p.attrouts \subseteq q.attrouts
  /\ p.fog => q.fog
  /\ p.depth => q.depth

LEMMA ProgramFields ==
    ASSUME NEW p \in Programs
    PROVE  /\ p.maxTemp \in 0..255 /\ p.insts \in Seq(Instructions)
           /\ p.major \in Nat /\ p.colors \in 0..32
           /\ p.outputs \in BitSets /\ p.attrouts \in BitSets
           /\ p.fog \in BOOLEAN /\ p.depth \in BOOLEAN
BY SMTT(30) DEF Programs, InstSeqs

LEMMA SeenBeyond ==
    ASSUME NEW p \in Programs, NEW q \in Programs, Beyond(q, p),
           NEW r \in Registers
    PROVE  /\ Seen(p, r) => Seen(q, r)
           /\ Counted(p, r) => Counted(q, r)
<1>1. p.maxTemp \in 0..255 /\ q.maxTemp \in 0..255
  BY DEF Programs
<1>2. r.number \in Nat
  BY RegisterFields
<1> DEFINE a == p.maxTemp
           b == q.maxTemp
           k == r.number
<1>3. a \in 0..255 /\ b \in 0..255 /\ k \in Nat /\ a <= b
  <2>1. a <= b
    BY Zenon DEF Beyond
  <2> QED BY <1>1, <1>2, <2>1
<1> HIDE DEF a, b, k
<1>4. k <= a => k <= b
  BY <1>3
<1>5. Seen(p, r) => Seen(q, r)
  BY <1>4 DEF Seen, Beyond, a, b, k
<1> QED BY <1>5 DEF Counted, Beyond

LEMMA InstsCounted ==
    ASSUME NEW p \in Programs, NEW q \in Programs, Beyond(q, p), AllCounted(p)
    PROVE  \A inst \in ToSet(p.insts) : InstCounted(q, inst)
<1> SUFFICES ASSUME NEW inst \in ToSet(p.insts) PROVE InstCounted(q, inst)
  OBVIOUS
<1>1. p.insts \in Seq(Instructions)
  BY ProgramFields
<1>2. inst \in Instructions
  BY <1>1, IsSeqIf
<1>3. inst.dst \in Registers /\ inst.src \in Seq(Registers)
  BY <1>2 DEF Instructions
<1>4. ToSet(inst.src) \subseteq Registers
  BY <1>3, IsSeqIf
<1>5. InstCounted(p, inst)
  BY DEF AllCounted
<1> QED BY <1>3, <1>4, <1>5, SeenBeyond DEF InstCounted

\* No instruction more.
LEMMA SameCounted ==
    ASSUME NEW p \in Programs, NEW q \in Programs, Beyond(q, p), AllCounted(p),
           q.insts = p.insts
    PROVE  AllCounted(q)
BY InstsCounted DEF AllCounted

\* One instruction more.
LEMMA OneMoreCounted ==
    ASSUME NEW p \in Programs, NEW q \in Programs, Beyond(q, p), AllCounted(p),
           NEW inst, q.insts = Append(p.insts, inst), InstCounted(q, inst),
           inst \in Instructions
    PROVE  AllCounted(q)
<1>1. p.insts \in Seq(Instructions)
  BY ProgramFields
<1>2. ToSet(Append(p.insts, inst)) = ToSet(p.insts) \cup {inst}
  <2> DEFINE s == p.insts
  <2> HIDE DEF s
  <2>1. s \in Seq(Instructions)
    BY <1>1 DEF s
  <2>2. Append(s, inst) = s \o <<inst>>
    BY <2>1
  <2>3. IsSeq(s) /\ IsSeq(<<inst>>) /\ ToSet(<<inst>>) = {inst}
    BY <2>1, IsSeqIf, SingleIsSeq
  <2>4. ToSet(s \o <<inst>>) = ToSet(s) \cup {inst}
    BY <2>3, ConcatIsSeq
  <2> QED BY <2>2, <2>4 DEF s
<1> QED BY <1>2, InstsCounted DEF AllCounted

LEMMA AppendedIn ==
    ASSUME NEW S, NEW T, NEW s \in Seq(S), NEW x, Append(s, x) \in Seq(T)
    PROVE  x \in T
<1> DEFINE n == Len(s) + 1
<1>1. Append(s, x)[n] = x /\ n \in 1..n /\ Len(Append(s, x)) = n
  <2> DEFINE X == S \cup {x}
  <2>1. s \in Seq(X) /\ x \in X
    BY SeqMonotonic
  <2> HIDE DEF X
  <2> QED BY <2>1
<1> HIDE DEF n
<1> QED BY <1>1, ElementOfSeq

LEMMA RegularCounted ==
    ASSUME NEW p \in Programs, NEW inst \in Instructions, Made(inst)
    PROVE  Beyond(Tracked(p, inst), p) /\ InstCounted(Tracked(p, inst), inst)
<1> DEFINE dst == {inst.dst}
           regs == dst \cup ToSet(inst.src)
           T == {p.maxTemp} \cup Numbers(regs, "temp")
           q == Tracked(p, inst)
<1>1. /\ q.maxTemp = Max(T)
      /\ q.outputs = p.outputs \cup Numbers(regs, "output")
      /\ q.attrouts = p.attrouts \cup Numbers(dst, "attrout")
      /\ q.fog = (p.fog \/ 1 \in Numbers(dst, "rastout"))
      /\ q.depth = (p.depth \/ inst.dst.type = "depthout")
  BY SMTT(60) DEF Tracked, Programs
<1>2. regs \in SUBSET Registers /\ \A r \in regs : InRange(r)
  BY DEF Instructions, ToSet, Made
<1> HIDE DEF q
<1>3. T \in SUBSET (0..255) /\ T # {}
  <2>1. Numbers(regs, "temp") \in SUBSET (0..255)
    BY <1>2, NumbersInRange
  <2>2. p.maxTemp \in 0..255
    BY ProgramFields
  <2> HIDE DEF regs
  <2> QED BY <2>1, <2>2
<1>4. \A y \in T : q.maxTemp >= y
  <2> HIDE DEF T
  <2>1. 255 \in Nat
    OBVIOUS
  <2> QED BY <1>1, <1>3, <2>1, MaxIn
<1>5. \A r \in regs : r.type = "temp" => r.number \in T
  BY DEF Numbers
<1>6. q.maxTemp \in 0..255 /\ \A y \in T : y <= q.maxTemp
  <2> DEFINE m == q.maxTemp
  <2>1. m \in T
    <3> HIDE DEF T
    <3>1. 255 \in Nat
      OBVIOUS
    <3> QED BY <1>1, <1>3, <3>1, MaxIn, ZenonT(60)
  <2> HIDE DEF m, T
  <2>2. m \in 0..255
    BY <1>3, <2>1
  <2>3. \A y \in T : m >= y
    BY <1>4 DEF m
  <2>4. \A y \in T : y \in 0..255
    BY <1>3
  <2>5. \A y \in T : y <= m
    BY <2>2, <2>3, <2>4
  <2> QED BY <2>2, <2>5 DEF m
<1>7. p.maxTemp \in T
  OBVIOUS
<1>8. Beyond(q, p)
  <2> HIDE DEF T, regs, dst
  <2> QED BY <1>1, <1>6, <1>7 DEF Beyond
<1>9. \A r \in regs : Seen(q, r)
  <2>1. \A r \in regs : r.type = "output" => r.number \in Numbers(regs, "output")
    BY DEF Numbers
  <2> HIDE DEF T, regs, dst
  <2> QED BY <1>1, <1>5, <1>6, <2>1 DEF Seen
<1>10. Counted(q, inst.dst)
  <2>1. /\ inst.dst.type = "attrout" => inst.dst.number \in Numbers(dst, "attrout")
        /\ inst.dst.type = "rastout" => inst.dst.number \in Numbers(dst, "rastout")
    BY DEF Numbers
  <2>2. inst.dst \in regs
    OBVIOUS
  <2> HIDE DEF T, regs, dst
  <2>3. inst.dst.type = "rastout" /\ inst.dst.number = 1 => q.fog
    BY <1>1, <2>1
  <2> QED BY <1>1, <1>9, <2>1, <2>2, <2>3 DEF Counted
<1>11. ToSet(inst.src) \subseteq regs
  OBVIOUS
<1> HIDE DEF regs
<1> QED BY <1>8, <1>9, <1>10, <1>11 DEF InstCounted, q

\* As long as a shader is parsed.
LEMMA ParseCounted ==
    ASSUME ParseType, ParseType', Parse, AllCounted(prog)
    PROVE  AllCounted(prog')
<1>0. prog \in Programs /\ prog' \in Programs /\ prog.maxTemp \in 0..255
  <2>1. prog \in Programs /\ prog' \in Programs
    BY DEF ParseType
  <2> QED BY <2>1, ProgramFields
<1>1. ASSUME Fail PROVE AllCounted(prog')
  BY <1>1 DEF Fail
<1>2. Beyond(prog, prog)
  <2> DEFINE m == prog.maxTemp
  <2>1. m \in 0..255
    BY <1>0
  <2> HIDE DEF m
  <2>2. m <= m
    BY <2>1
  <2> QED BY <2>2 DEF Beyond, m
<1>3. CASE ReadVersion
  <2>1. CASE prog' = EmptyProgram(shader.type, shader.major)
    <3>1. prog'.insts = <<>>
      BY <2>1 DEF EmptyProgram
    <3> QED BY <3>1, EmptyIsSeq DEF AllCounted
  <2> QED BY <1>1, <1>3, <2>1 DEF ReadVersion
<1>4. CASE Comment
  BY <1>1, <1>4 DEF Comment, Continue
<1>5. CASE Dcl
  <2> DEFINE reg == Register(Operand(2))
             sem == Operand(1)
             dcl == [usage |-> IF sem.is = "sem" THEN sem.usage ELSE "position",
                     index |-> IF sem.is = "sem" THEN sem.index ELSE 0, reg |-> reg]
             dcls == Append(prog.dcls, dcl)
             samplers == IF reg.type = "sampler"
                           THEN prog.samplers \cup {reg.number} ELSE prog.samplers
             inputs == IF reg.type = "input"
                         THEN prog.inputs \cup {reg.number} ELSE prog.inputs
             outputs == IF reg.type = "output"
                          THEN prog.outputs \cup {reg.number} ELSE prog.outputs
             position == prog.position \/ /\ reg.type = "output"
                                          /\ dcl.usage = "position"
                                          /\ dcl.index = 0
  <2>1. \/ Fail
        \/ prog' = [prog EXCEPT !.dcls = dcls, !.samplers = samplers,
                      !.inputs = inputs, !.outputs = outputs, !.position = position]
    BY <1>5, Zenon DEF Dcl, Continue
  <2>2. prog.outputs \subseteq outputs
    <3> HIDE DEF reg
    <3> QED OBVIOUS
  <2> HIDE DEF reg, sem, dcl, dcls, samplers, inputs, outputs, position
  <2>3. CASE prog' = [prog EXCEPT !.dcls = dcls, !.samplers = samplers,
                        !.inputs = inputs, !.outputs = outputs, !.position = position]
    <3>1. /\ prog'.insts = prog.insts /\ prog'.maxTemp = prog.maxTemp
          /\ prog'.outputs = outputs /\ prog'.attrouts = prog.attrouts
          /\ prog'.fog = prog.fog /\ prog'.depth = prog.depth
      BY SMTT(30), <1>0, <2>3 DEF Programs
    <3>2. Beyond(prog', prog)
      BY <1>2, <2>2, <3>1 DEF Beyond
    <3> QED BY <1>0, <3>1, <3>2, SameCounted
  <2> QED BY <1>1, <2>1, <2>3
<1>6. CASE Def
  <2> DEFINE defs == WithDef(prog.defs, <<DefType(Opcode(Current)),
                                          Register(Operand(1)).number>>)
  <2>1. Fail \/ prog' = [prog EXCEPT !.defs = defs]
    BY <1>6, Zenon DEF Def, Continue
  <2> HIDE DEF defs
  <2>2. CASE prog' = [prog EXCEPT !.defs = defs]
    <3>1. /\ prog'.insts = prog.insts /\ prog'.maxTemp = prog.maxTemp
          /\ prog'.outputs = prog.outputs /\ prog'.attrouts = prog.attrouts
          /\ prog'.fog = prog.fog /\ prog'.depth = prog.depth
      BY SMTT(30), <1>0, <2>2 DEF Programs
    <3>2. Beyond(prog', prog)
      BY <1>2, <3>1 DEF Beyond
    <3> QED BY <1>0, <3>1, <3>2, SameCounted
  <2> QED BY <1>1, <2>1, <2>2
<1>7. ASSUME NEW ops \in SUBSET (Compares \cup Tests \cup Bare), NEW n, Control(ops, n)
      PROVE  AllCounted(prog')
  <2> DEFINE op == Opcode(Current)
             src == [i \in 1..n |-> Register(Operand(i))]
             inst == Instruction(op, NoRegister, src)
             insts == Append(prog.insts, inst)
  <2>1. Fail \/ prog' = [prog EXCEPT !.insts = insts]
    BY <1>7, Zenon DEF Control, Continue
  <2>2. op \in Compares \cup Tests \cup Bare
    BY <1>7 DEF Control, At
  <2>3. inst.op = op /\ inst.dst = NoRegister
    BY Zenon DEF Instruction
  <2>4. op \notin Arithmetic
    <3> HIDE DEF op
    <3> QED BY <2>2, Kinds
  <2> HIDE DEF inst, op, src
  <2>5. CASE prog' = [prog EXCEPT !.insts = insts]
    <3> HIDE DEF insts
    <3>1. /\ prog'.insts = insts /\ prog'.maxTemp = prog.maxTemp
          /\ prog'.outputs = prog.outputs /\ prog'.attrouts = prog.attrouts
          /\ prog'.fog = prog.fog /\ prog'.depth = prog.depth
      BY SMTT(30), <1>0, <2>5 DEF Programs
    <3>2. Beyond(prog', prog)
      BY <1>2, <3>1 DEF Beyond
    <3>3. InstCounted(prog', inst)
      <4>1. NoRegister.type = "temp" /\ NoRegister.number = 0 % 2048
        BY NoRegisterIs
      <4> DEFINE k == NoRegister.number
                 m == prog'.maxTemp
      <4>2. k = 0 % 2048 /\ m \in 0..255
        BY <1>0, <3>1, <4>1
      <4> HIDE DEF k, m
      <4>3. k <= m
        BY <4>2
      <4>4. Counted(prog', NoRegister)
        BY <4>1, <4>3 DEF Counted, Seen, k, m
      <4> QED BY <2>3, <2>4, <4>4 DEF InstCounted
    <3>4. inst \in Instructions
      <4>1. prog'.insts \in Seq(Instructions)
        BY <1>0, ProgramFields
      <4>2. prog.insts \in Seq(Instructions)
        BY <1>0, ProgramFields
      <4> DEFINE s == prog.insts
      <4>3. s \in Seq(Instructions) /\ Append(s, inst) \in Seq(Instructions)
        BY <3>1, <4>1, <4>2 DEF insts
      <4> HIDE DEF s
      <4> QED BY <4>3, AppendedIn
    <3>5. prog'.insts = Append(prog.insts, inst)
      BY <3>1 DEF insts
    <3> QED BY <1>0, <3>2, <3>3, <3>4, <3>5, OneMoreCounted
  <2> QED BY <1>1, <2>1, <2>5
<1>8. CASE Compare \/ Test \/ Mark
  BY <1>7, <1>8 DEF Compare, Test, Mark
<1>9. CASE Regular
  <2>1. \/ Fail
        \/ \E inst : \E n \in Nat :
             Made(inst) /\ Continue(Tracked(WithInst(inst), inst), n)
    BY <1>9, RegularMakes
  <2>2. ASSUME NEW inst, Made(inst), prog' = Tracked(WithInst(inst), inst)
        PROVE  AllCounted(prog')
    <3>1. inst \in Instructions /\ InRange(inst.dst)
          /\ \A i \in DOMAIN inst.src : InRange(inst.src[i])
      BY <2>2 DEF Made
    <3> DEFINE p == WithInst(inst)
               insts == Append(prog.insts, inst)
    <3>2. p \in Programs /\ p.insts = insts
      BY <3>1, WithInstTyped
    <3>3. p = [prog EXCEPT !.insts = insts]
      BY Zenon DEF WithInst
    <3>4. prog' = Tracked(p, inst)
      BY <2>2
    <3> HIDE DEF p, insts
    <3>5. Tracked(p, inst).insts = p.insts
      BY <3>1, <3>2, TrackedTyped
    <3>6. Beyond(prog', p) /\ InstCounted(prog', inst)
      BY <2>2, <3>1, <3>2, <3>4, RegularCounted
    <3>7. /\ p.maxTemp = prog.maxTemp
          /\ p.outputs = prog.outputs /\ p.attrouts = prog.attrouts
          /\ p.fog = prog.fog /\ p.depth = prog.depth
      BY SMTT(30), <1>0, <3>3 DEF Programs
    <3>8. Beyond(prog', prog)
      BY <3>6, <3>7 DEF Beyond
    <3>9. prog'.insts = Append(prog.insts, inst)
      BY <3>2, <3>4, <3>5 DEF insts
    <3> QED BY <1>0, <3>1, <3>6, <3>8, <3>9, OneMoreCounted
  <2> QED BY <1>1, <2>1, <2>2 DEF Continue
<1>10. CASE Unknown \/ MissingEnd
  BY <1>1, <1>10 DEF Unknown, MissingEnd
<1>11. CASE End
  <2> DEFINE colors == IF prog.type = "ps" /\ prog.colors = 0 THEN 1 ELSE prog.colors
  <2>1. prog' = [prog EXCEPT !.colors = colors]
    BY <1>11 DEF End
  <2> HIDE DEF colors
  <2>2. /\ prog'.insts = prog.insts /\ prog'.maxTemp = prog.maxTemp
        /\ prog'.outputs = prog.outputs /\ prog'.attrouts = prog.attrouts
        /\ prog'.fog = prog.fog /\ prog'.depth = prog.depth
    BY SMTT(30), <1>0, <2>1 DEF Programs
  <2>3. Beyond(prog', prog)
    BY <1>2, <2>2 DEF Beyond
  <2> QED BY <1>0, <2>2, <2>3, SameCounted
<1> QED BY <1>3, <1>4, <1>5, <1>6, <1>8, <1>9, <1>10, <1>11 DEF Parse

LEMMA NextCounted ==
    ASSUME TInv, TInv', AllCounted(prog), [Next]_vars
    PROVE  AllCounted(prog)'
<1>1. CASE Parse
  BY <1>1, ParseCounted DEF TInv
<1>2. CASE UNCHANGED prog
  BY <1>2 DEF AllCounted
<1> QED BY <1>1, <1>2 DEF Next, Declare, EmitInstruction, Finish, parseVars, vars

LEMMA AlwaysCounted == Spec => [](TInv /\ AllCounted(prog))
<1>1. Init => TInv /\ AllCounted(prog)
  <2>1. Init => prog.insts = <<>>
    BY DEF Init, ParseInit, EmptyProgram
  <2> QED BY <2>1, InitTInv, EmptyIsSeq DEF AllCounted
<1>2. TInv /\ AllCounted(prog) /\ [Next]_vars => (TInv /\ AllCounted(prog))'
  BY NextTInv, NextCounted
<1> QED BY <1>1, <1>2, PTL DEF Spec

-----------------------------------------------------------------------------
\* What a program's declarations have.

Has(s, name) == IsSeq(s) /\ \E l \in ToSet(s) : l.text = "declare" /\ l.dst = name

LEMMA HasConcat ==
    ASSUME NEW s, NEW t, IsSeq(s), IsSeq(t)
    PROVE  IsSeq(s \o t) /\ \A name : Has(s, name) \/ Has(t, name) => Has(s \o t, name)
BY ConcatIsSeq DEF Has

LEMMA LocalHas ==
    ASSUME NEW name
    PROVE  IsSeq(<<Local(name)>>) /\ Has(<<Local(name)>>, name)
<1> DEFINE x == Local(name)
<1>1. x.text = "declare" /\ x.dst = name
  BY DEF Local, Declared
<1> HIDE DEF x
<1>2. IsSeq(<<x>>) /\ Has(<<x>>, name)
  BY <1>1, SingleIsSeq DEF Has
<1> QED BY <1>2 DEF x

LEMMA LocalIfHas ==
    ASSUME NEW c \in BOOLEAN, NEW name
    PROVE  /\ IsSeq(IF c THEN <<Local(name)>> ELSE <<>>)
           /\ c => Has(IF c THEN <<Local(name)>> ELSE <<>>, name)
BY LocalHas, EmptyIsSeq

\* Declarations of one kind.
LEMMA DclHas ==
    ASSUME NEW p \in Programs, NEW type, NEW test \in [Dcls -> BOOLEAN], NEW base,
           NEW link, NEW s, DeclaredAs(s, p.dcls, type, test, base, link)
    PROVE  /\ IsSeq(s)
           /\ \A d \in ToSet(p.dcls) :
                d.reg.type = type /\ test[d] => Has(s, <<base, d.reg.number>>)
<1> DEFINE c == [d \in Dcls |-> d.reg.type = type /\ test[d]]
           x == [d \in Dcls |-> Declared(<<base, d.reg.number>>, link[d])]
           q == p.dcls
<1>1. c \in [Dcls -> BOOLEAN]
  OBVIOUS
<1>2. q \in Seq(Dcls) /\ \A i \in DOMAIN q : q[i] \in Dcls
  BY DEF Programs, DclSeqs
<1>3. \A i \in DOMAIN q :
        /\ c[q[i]] = (q[i].reg.type = type /\ test[q[i]])
        /\ x[q[i]] = Declared(<<base, q[i].reg.number>>, link[q[i]])
  BY <1>2, Zenon
<1>4. \A d \in Dcls : /\ c[d] = (d.reg.type = type /\ test[d])
                      /\ x[d].text = "declare" /\ x[d].dst = <<base, d.reg.number>>
  BY DEF Declared
<1>5. ToSet(q) \subseteq Dcls
  <2> HIDE DEF q
  <2> QED BY <1>2, IsSeqIf
<1> HIDE DEF c, x, q
<1>6. Selected(s, q, c, x)
  BY <1>3 DEF Selected, DeclaredAs, q
<1>7. IsSeq(s) /\ ToSet(s) = {x[d] : d \in {e \in ToSet(q) : c[e]}}
  BY <1>1, <1>2, <1>6, SelectedRange
<1>8. ASSUME NEW d \in ToSet(q), d.reg.type = type, test[d]
      PROVE  Has(s, <<base, d.reg.number>>)
  <2>1. d \in Dcls /\ c[d]
    BY <1>4, <1>5, <1>8
  <2>2. x[d] \in ToSet(s)
    BY <1>7, <2>1
  <2> QED BY <1>4, <1>7, <2>1, <2>2, Zenon DEF Has
<1> QED BY <1>7, <1>8 DEF q

\* Numbers of one kind.
LEMMA NumberedHas ==
    ASSUME NEW base, NEW n \in Nat, NEW numbers, NEW x, NEW s, Numbered(s, n, numbers, x),
           \A k \in Nat : x[k].text = "declare" /\ x[k].dst = <<base, k>>
    PROVE  IsSeq(s) /\ \A k \in 0..(n - 1) : k \in numbers => Has(s, <<base, k>>)
<1>1. IsSeq(s) /\ ToSet(s) = {x[k] : k \in {m \in 0..(n - 1) : m \in numbers}}
  BY NumberedRange
<1>2. ASSUME NEW k \in 0..(n - 1), k \in numbers
      PROVE  Has(s, <<base, k>>)
  <2>1. x[k] \in ToSet(s)
    BY <1>1, <1>2
  <2>2. x[k].text = "declare" /\ x[k].dst = <<base, k>>
    OBVIOUS
  <2> QED BY <1>1, <2>1, <2>2, Zenon DEF Has
<1> QED BY <1>1, <1>2

LEMMA PlainHas ==
    ASSUME NEW base, NEW limit, limit + 1 \in Nat
    PROVE  /\ IsSeq(DeclareEach(base, limit, Nat, NoLink))
           /\ \A k \in 0..((limit + 1) - 1) :
                Has(DeclareEach(base, limit, Nat, NoLink), <<base, k>>)
<1> DEFINE x == [k \in Nat |-> Declared(<<base, k>>, <<>>)]
           n == limit + 1
           s == DeclareEach(base, limit, Nat, NoLink)
<1>1. \A k \in Nat : x[k].text = "declare" /\ x[k].dst = <<base, k>>
  BY DEF Declared
<1>2. s = FlattenSeq([i \in 1..n |-> When(i - 1 \in Nat, Declared(<<base, i - 1>>, <<>>))])
  BY DEF DeclareEach, NoLink
<1>3. \A i \in 1..n : i - 1 \in Nat /\ Declared(<<base, i - 1>>, <<>>) = x[i - 1]
  BY n \in Nat
<1> HIDE DEF x, n, s
<1>4. Numbered(s, n, Nat, x)
  BY <1>2, <1>3 DEF Numbered
<1>5. n \in Nat
  BY DEF n
<1>6. IsSeq(s) /\ \A k \in 0..(n - 1) : k \in Nat => Has(s, <<base, k>>)
  BY <1>1, <1>4, <1>5, NumberedHas
<1>7. \A k \in 0..(n - 1) : k \in Nat
  BY <1>5
<1> QED BY <1>6, <1>7 DEF s, n

LEMMA LinkedHas ==
    ASSUME NEW base, NEW usage, NEW limit \in Nat, NEW numbers
    PROVE  /\ IsSeq(Linked(base, usage, limit, numbers))
           /\ \A k \in 0..limit :
                k \in numbers => Has(Linked(base, usage, limit, numbers), <<base, k>>)
<1> DEFINE x == [k \in Nat |-> Declared(<<base, k>>, <<usage, k>>)]
           n == limit + 1
           s == Linked(base, usage, limit, numbers)
<1>0. n \in Nat /\ n - 1 = limit
  OBVIOUS
<1>1. \A k \in Nat : x[k].text = "declare" /\ x[k].dst = <<base, k>>
  BY DEF Declared
<1>2. s = FlattenSeq([i \in 1..n |-> When(i - 1 \in numbers,
                                     Declared(<<base, i - 1>>, <<usage, i - 1>>))])
  BY DEF DeclareEach, Linked
<1>3. \A i \in 1..n : Declared(<<base, i - 1>>, <<usage, i - 1>>) = x[i - 1]
  <2>1. \A i \in 1..n : i - 1 \in Nat
    BY <1>0
  <2> HIDE DEF n
  <2> QED BY <2>1
<1> HIDE DEF x, n, s
<1>4. Numbered(s, n, numbers, x)
  BY <1>2, <1>3 DEF Numbered
<1>5. IsSeq(s) /\ \A k \in 0..(n - 1) : k \in numbers => Has(s, <<base, k>>)
  BY <1>0, <1>1, <1>4, NumberedHas
<1> QED BY <1>0, <1>5 DEF s

LEMMA VariablesHave ==
    ASSUME NEW p \in Programs
    PROVE  /\ IsSeq(Variables(p))
           /\ \A k \in 0..p.maxTemp : Has(Variables(p), <<"r", k>>)
           /\ \A n : <<"const", n>> \in ToSet(p.defs) => Has(Variables(p), <<"c_def", n>>)
<1> DEFINE base(d) == CASE d[1] = "const" -> "c_def" [] d[1] = "constint" -> "i"
                        [] d[1] = "constbool" -> "b"
           s == [i \in DOMAIN p.defs |-> Local(<<base(p.defs[i]), p.defs[i][2]>>)]
           d == DeclareEach("r", p.maxTemp, Nat, NoLink)
<1>1. IsSeq(Variables(p))
  BY VariablesNames DEF DeclaresOnly
<1>2. Variables(p) = d \o s
  BY DEF Variables
<1>3. IsSeq(d) /\ \A k \in 0..p.maxTemp : Has(d, <<"r", k>>)
  <2> DEFINE m == p.maxTemp
  <2>1. m \in 0..255
    BY ProgramFields
  <2> HIDE DEF m
  <2>2. m + 1 \in Nat /\ (m + 1) - 1 = m
    BY <2>1
  <2>3. /\ IsSeq(DeclareEach("r", m, Nat, NoLink))
        /\ \A k \in 0..((m + 1) - 1) : Has(DeclareEach("r", m, Nat, NoLink), <<"r", k>>)
    BY <2>2, PlainHas
  <2> QED BY <2>2, <2>3 DEF m
<1>4. p.defs \in Seq(DefTypes \X Nat)
  BY DEF Programs, DefSeqs
<1>5. IsSeq(s)
  <2> DEFINE m == Len(p.defs)
             S == {s[i] : i \in DOMAIN s}
  <2>1. m \in Nat /\ DOMAIN p.defs = 1..m
    BY <1>4
  <2>2. s \in [1..m -> S]
    BY <2>1, Zenon
  <2>3. S = ToSet(s)
    BY Zenon DEF ToSet
  <2> HIDE DEF s, m, S
  <2>4. s \in Seq(S)
    BY <2>1, <2>2
  <2> QED BY <2>3, <2>4 DEF IsSeq
<1>6. ASSUME NEW n, <<"const", n>> \in ToSet(p.defs)
      PROVE  Has(s, <<"c_def", n>>)
  <2>1. PICK i \in DOMAIN p.defs : p.defs[i] = <<"const", n>>
    BY <1>6 DEF ToSet
  <2> DEFINE e == p.defs[i]
  <2>2. e[1] = "const" /\ e[2] = n
    BY <2>1
  <2>3. s[i] = Local(<<base(e), e[2]>>) /\ i \in DOMAIN s
    BY Zenon
  <2>4. base(e) = "c_def"
    <3> HIDE DEF e
    <3> QED BY <2>2
  <2> HIDE DEF s, e
  <2>5. s[i] = Local(<<"c_def", n>>)
    BY <2>2, <2>3, <2>4
  <2>6. s[i].text = "declare" /\ s[i].dst = <<"c_def", n>>
    BY <2>5 DEF Local, Declared
  <2>7. s[i] \in ToSet(s)
    BY <2>3, Zenon DEF ToSet
  <2> QED BY <1>5, <2>6, <2>7, Zenon DEF Has
<1> HIDE DEF s, d
<1>7. \A name : Has(d, name) \/ Has(s, name) => Has(d \o s, name)
  BY <1>3, <1>5, HasConcat
<1> QED BY <1>1, <1>2, <1>3, <1>6, <1>7

Outputs(p, s) ==
  /\ Has(s, <<"out.position", 0>>)
  /\ p.fog => Has(s, <<"out.fog", 0>>)
  /\ p.major < 3 =>
       /\ \A k \in 0..1 : k \in p.attrouts => Has(s, <<"out.oD", k>>)
       /\ \A k \in 0..7 : k \in p.outputs => Has(s, <<"out.oT", k>>)
  /\ p.major >= 3 =>
       \A d \in ToSet(p.dcls) :
         d.reg.type = "output" /\ ~IsPosition(d) => Has(s, <<"out.o", d.reg.number>>)

LEMMA OutputsHave ==
    ASSUME NEW p \in Programs
    PROVE  IsSeq(VsOutputs(p)) /\ Outputs(p, VsOutputs(p))
<1> DEFINE first == <<Local(<<"out.position", 0>>)>>
           last == IF p.fog THEN <<Local(<<"out.fog", 0>>)>> ELSE <<>>
           new == DeclareDcls(p, "output", LAMBDA d : ~IsPosition(d), "out.o", UserName)
           colors == Linked("out.oD", "color", 1, p.attrouts)
           coords == Linked("out.oT", "texcoord", 7, p.outputs)
           middle == IF p.major >= 3 THEN new ELSE colors \o coords
           s == VsOutputs(p)
<1>1. s = first \o middle \o last
  BY DEF VsOutputs, Linked
<1>2. IsSeq(first) /\ Has(first, <<"out.position", 0>>)
  BY LocalHas
<1>3. IsSeq(last) /\ (p.fog => Has(last, <<"out.fog", 0>>))
  <2>1. p.fog \in BOOLEAN
    BY ProgramFields
  <2> QED BY <2>1, LocalIfHas
<1>4. /\ IsSeq(new)
      /\ \A d \in ToSet(p.dcls) :
           d.reg.type = "output" /\ ~IsPosition(d) => Has(new, <<"out.o", d.reg.number>>)
  <2> DEFINE test == [d \in Dcls |-> ~IsPosition(d)]
             link == [d \in Dcls |-> UserName(d)]
             q == p.dcls
  <2>1. test \in [Dcls -> BOOLEAN]
    BY DEF IsPosition
  <2>2. q \in Seq(Dcls) /\ \A i \in DOMAIN q : q[i] \in Dcls
    BY DEF Programs, DclSeqs
  <2>3. \A i \in DOMAIN q : test[q[i]] = ~IsPosition(q[i]) /\ link[q[i]] = UserName(q[i])
    BY <2>2, Zenon
  <2>4. new = FlattenSeq([i \in DOMAIN q |->
           When(q[i].reg.type = "output" /\ ~IsPosition(q[i]),
                Declared(<<"out.o", q[i].reg.number>>, UserName(q[i])))])
    BY Zenon DEF DeclareDcls
  <2>5. ToSet(q) \subseteq Dcls
    BY <2>2, IsSeqIf
  <2>6. \A d \in ToSet(q) : test[d] = ~IsPosition(d)
    BY <2>5
  <2> HIDE DEF new, test, link, q
  <2>7. DeclaredAs(new, q, "output", test, "out.o", link)
    BY <2>3, <2>4 DEF DeclaredAs
  <2>8. IsSeq(new) /\ \A d \in ToSet(q) :
          d.reg.type = "output" /\ test[d] => Has(new, <<"out.o", d.reg.number>>)
    BY <2>1, <2>7, DclHas DEF q
  <2> QED BY <2>6, <2>8 DEF q
<1>5. /\ IsSeq(colors) /\ \A k \in 0..1 : k \in p.attrouts => Has(colors, <<"out.oD", k>>)
      /\ IsSeq(coords) /\ \A k \in 0..7 : k \in p.outputs => Has(coords, <<"out.oT", k>>)
  BY LinkedHas
<1> HIDE DEF first, last, new, colors, coords
<1>6. /\ IsSeq(colors \o coords)
      /\ \A name : Has(colors, name) \/ Has(coords, name) => Has(colors \o coords, name)
  BY <1>5, HasConcat
<1>7. p.major \in Nat
  BY DEF Programs
<1>8. IsSeq(middle)
  BY <1>4, <1>6
<1> DEFINE m == p.major
<1>9. (m >= 3 => middle = new) /\ (m < 3 => middle = colors \o coords)
  <2> DEFINE old == colors \o coords
  <2>1. m \in Nat /\ middle = IF m >= 3 THEN new ELSE old
    BY <1>7
  <2> HIDE DEF m, middle, old
  <2>2. m < 3 => ~(m >= 3)
    BY <2>1
  <2>3. (m >= 3 => middle = new) /\ (m < 3 => middle = old)
    BY <2>1, <2>2, Zenon
  <2> QED BY <2>3 DEF old
<1> HIDE DEF middle, m
<1>10. /\ IsSeq(first \o middle)
       /\ \A name : Has(first, name) \/ Has(middle, name) => Has(first \o middle, name)
  BY <1>2, <1>8, HasConcat
<1>11. /\ IsSeq(first \o middle \o last)
       /\ \A name : Has(first \o middle, name) \/ Has(last, name)
                      => Has(first \o middle \o last, name)
  BY <1>3, <1>10, HasConcat
<1> HIDE DEF s
<1>12. IsSeq(s) /\ \A name : Has(first, name) \/ Has(middle, name) \/ Has(last, name)
                               => Has(s, name)
  BY <1>1, <1>10, <1>11
<1>13. Has(s, <<"out.position", 0>>) /\ (p.fog => Has(s, <<"out.fog", 0>>))
  BY <1>2, <1>3, <1>12
<1>14. ASSUME m < 3
       PROVE  /\ \A k \in 0..1 : k \in p.attrouts => Has(s, <<"out.oD", k>>)
              /\ \A k \in 0..7 : k \in p.outputs => Has(s, <<"out.oT", k>>)
  BY <1>5, <1>6, <1>9, <1>12, <1>14, Zenon
<1>15. ASSUME m >= 3
       PROVE  \A d \in ToSet(p.dcls) :
                d.reg.type = "output" /\ ~IsPosition(d) => Has(s, <<"out.o", d.reg.number>>)
  BY <1>4, <1>9, <1>12, <1>15, Zenon
<1> QED BY <1>12, <1>13, <1>14, <1>15, Zenon DEF Outputs, s, m

VsHave(p, s) ==
  /\ \A k \in 0..p.maxTemp : Has(s, <<"r", k>>)
  /\ \A n : <<"const", n>> \in ToSet(p.defs) => Has(s, <<"c_def", n>>)
  /\ Outputs(p, s)
  /\ UsesAddress(p) => Has(s, <<"a", 0>>)
  /\ \A d \in ToSet(p.dcls) :
       d.reg.type = "input" /\ Mapped(d) => Has(s, <<"in.v", d.reg.number>>)

LEMMA VsHas ==
    ASSUME NEW p \in Programs, IsVs(p)
    PROVE  VsHave(p, Declarations(p))
<1> DEFINE uses == UsesAddress(p)
           a == IF uses THEN <<Local(<<"a", 0>>)>> ELSE <<>>
           v == Variables(p)
           o == VsOutputs(p)
           in == VsInputs(p)
           s == Declarations(p)
<1>1. s = in \o o \o v \o a
  BY DEF Declarations, VsDeclarations
<1>2. IsSeq(in) /\ \A d \in ToSet(p.dcls) :
                     d.reg.type = "input" /\ Mapped(d) => Has(in, <<"in.v", d.reg.number>>)
  <2>1. IsSeq(in) /\ ToSet(in) = {Attribute(d) : d \in {e \in ToSet(p.dcls) :
                                                  e.reg.type = "input" /\ Mapped(e)}}
    BY VsInputsAre
  <2>2. ASSUME NEW d \in ToSet(p.dcls), d.reg.type = "input", Mapped(d)
        PROVE  Has(in, <<"in.v", d.reg.number>>)
    <3>1. Attribute(d) \in ToSet(in)
      BY <2>1, <2>2
    <3>2. Attribute(d).text = "declare" /\ Attribute(d).dst = <<"in.v", d.reg.number>>
      BY DEF Attribute, Declared
    <3> HIDE DEF in
    <3> QED BY <2>1, <3>1, <3>2, Zenon DEF Has
  <2> QED BY <2>1, <2>2
<1>3. IsSeq(o) /\ Outputs(p, o)
  BY OutputsHave
<1>4. /\ IsSeq(v)
      /\ \A k \in 0..p.maxTemp : Has(v, <<"r", k>>)
      /\ \A n : <<"const", n>> \in ToSet(p.defs) => Has(v, <<"c_def", n>>)
  BY VariablesHave
<1>5. IsSeq(a) /\ (uses => Has(a, <<"a", 0>>))
  <2>1. uses \in BOOLEAN
    BY DEF UsesAddress
  <2> HIDE DEF uses
  <2> QED BY <2>1, LocalIfHas
<1> HIDE DEF in, o, v, a, s
<1>6. IsSeq(in \o o) /\ \A name : Has(in, name) \/ Has(o, name) => Has(in \o o, name)
  BY <1>2, <1>3, HasConcat
<1>7. /\ IsSeq(in \o o \o v)
      /\ \A name : Has(in \o o, name) \/ Has(v, name) => Has(in \o o \o v, name)
  BY <1>4, <1>6, HasConcat
<1>8. \A name : Has(in \o o \o v, name) \/ Has(a, name) => Has(in \o o \o v \o a, name)
  BY <1>5, <1>7, HasConcat
<1>9. \A name : Has(in, name) \/ Has(o, name) \/ Has(v, name) \/ Has(a, name) => Has(s, name)
  BY <1>1, <1>6, <1>7, <1>8
<1>10. Outputs(p, s)
  BY <1>3, <1>9, Zenon DEF Outputs
<1>11. uses => Has(s, <<"a", 0>>)
  BY <1>5, <1>9
<1>12. \A d \in ToSet(p.dcls) :
         d.reg.type = "input" /\ Mapped(d) => Has(s, <<"in.v", d.reg.number>>)
  BY <1>2, <1>9
<1>13. /\ \A k \in 0..p.maxTemp : Has(s, <<"r", k>>)
       /\ \A n : <<"const", n>> \in ToSet(p.defs) => Has(s, <<"c_def", n>>)
  BY <1>4, <1>9, Zenon
<1> QED BY <1>10, <1>11, <1>12, <1>13, Zenon DEF VsHave, s

PsHave(p, s) ==
  /\ \A k \in 0..p.maxTemp : Has(s, <<"r", k>>)
  /\ \A n : <<"const", n>> \in ToSet(p.defs) => Has(s, <<"c_def", n>>)
  /\ \A k \in 0..(p.colors - 1) : Has(s, <<"oC", k>>)
  /\ p.depth => Has(s, <<"oDepth", 0>>)
  /\ Has(s, <<"in.position", 0>>)
  /\ \A d \in ToSet(p.dcls) :
       /\ d.reg.type = "input" => Has(s, <<"in.v", d.reg.number>>)
       /\ d.reg.type = "addr" /\ p.major < 3 => Has(s, <<"in.t", d.reg.number>>)
       /\ d.reg.type = "sampler" => Has(s, <<"tex", d.reg.number>>)
       /\ d.reg.type = "misctype" /\ d.reg.number = 1 => Has(s, <<"in.front_facing", 0>>)

LEMMA PsDclsHave ==
    ASSUME NEW p \in Programs, NEW d \in ToSet(p.dcls)
    PROVE  /\ d.reg.type = "input" =>
                /\ Has(DeclareDcls(p, "input", Every, "in.v", UserName),
                       <<"in.v", d.reg.number>>)
                /\ Has(DeclareDcls(p, "input", Every, "in.v",
                                   LAMBDA e : <<"color", e.reg.number>>),
                       <<"in.v", d.reg.number>>)
           /\ d.reg.type = "addr" =>
                Has(DeclareDcls(p, "addr", Every, "in.t",
                                LAMBDA e : <<"texcoord", e.reg.number>>),
                    <<"in.t", d.reg.number>>)
           /\ d.reg.type = "sampler" =>
                Has(DeclareDcls(p, "sampler", Every, "tex", NoLink),
                    <<"tex", d.reg.number>>)
<1> DEFINE test == [e \in Dcls |-> TRUE]
           user == [e \in Dcls |-> UserName(e)]
           color == [e \in Dcls |-> <<"color", e.reg.number>>]
           coord == [e \in Dcls |-> <<"texcoord", e.reg.number>>]
           none == [e \in Dcls |-> <<>>]
           q == p.dcls
           a == DeclareDcls(p, "input", Every, "in.v", UserName)
           b == DeclareDcls(p, "input", Every, "in.v",
                            LAMBDA e : <<"color", e.reg.number>>)
           c == DeclareDcls(p, "addr", Every, "in.t",
                            LAMBDA e : <<"texcoord", e.reg.number>>)
           f == DeclareDcls(p, "sampler", Every, "tex", NoLink)
<1>1. q \in Seq(Dcls) /\ \A i \in DOMAIN q : q[i] \in Dcls
  BY DEF Programs, DclSeqs
<1>2. \A i \in DOMAIN q : /\ test[q[i]] = TRUE /\ user[q[i]] = UserName(q[i])
                          /\ color[q[i]] = <<"color", q[i].reg.number>>
                          /\ coord[q[i]] = <<"texcoord", q[i].reg.number>>
                          /\ none[q[i]] = <<>>
  BY <1>1, Zenon
<1>3. /\ a = FlattenSeq([i \in DOMAIN q |->
               When(q[i].reg.type = "input" /\ TRUE,
                    Declared(<<"in.v", q[i].reg.number>>, UserName(q[i])))])
      /\ b = FlattenSeq([i \in DOMAIN q |->
               When(q[i].reg.type = "input" /\ TRUE,
                    Declared(<<"in.v", q[i].reg.number>>, <<"color", q[i].reg.number>>))])
      /\ c = FlattenSeq([i \in DOMAIN q |->
               When(q[i].reg.type = "addr" /\ TRUE,
                    Declared(<<"in.t", q[i].reg.number>>, <<"texcoord", q[i].reg.number>>))])
      /\ f = FlattenSeq([i \in DOMAIN q |->
               When(q[i].reg.type = "sampler" /\ TRUE,
                    Declared(<<"tex", q[i].reg.number>>, <<>>))])
  BY Zenon DEF DeclareDcls, Every, NoLink
<1>d. d \in ToSet(q) /\ test[d] = TRUE
  <2>1. ToSet(q) \subseteq Dcls
    <3> HIDE DEF q
    <3> QED BY <1>1, IsSeqIf
  <2> QED BY <2>1
<1> HIDE DEF a, b, c, f, test, user, color, coord, none, q
<1>4. DeclaredAs(a, q, "input", test, "in.v", user)
  BY <1>2, <1>3 DEF DeclaredAs
<1>5. DeclaredAs(b, q, "input", test, "in.v", color)
  BY <1>2, <1>3 DEF DeclaredAs
<1>6. DeclaredAs(c, q, "addr", test, "in.t", coord)
  BY <1>2, <1>3 DEF DeclaredAs
<1>7. DeclaredAs(f, q, "sampler", test, "tex", none)
  BY <1>2, <1>3 DEF DeclaredAs
<1>8. test \in [Dcls -> BOOLEAN]
  BY DEF test
<1> DEFINE n == d.reg.number
           t == d.reg.type
<1>9. t = "input" => Has(a, <<"in.v", n>>)
  BY <1>d, <1>4, <1>8, DclHas DEF q
<1>10. t = "input" => Has(b, <<"in.v", n>>)
  BY <1>d, <1>5, <1>8, DclHas DEF q
<1>11. t = "addr" => Has(c, <<"in.t", n>>)
  BY <1>d, <1>6, <1>8, DclHas DEF q
<1>12. t = "sampler" => Has(f, <<"tex", n>>)
  BY <1>d, <1>7, <1>8, DclHas DEF q
<1> QED BY <1>9, <1>10, <1>11, <1>12 DEF a, b, c, f

LEMMA PsHas ==
    ASSUME NEW p \in Programs, ~IsVs(p)
    PROVE  PsHave(p, Declarations(p))
<1> DEFINE front == \E i \in DOMAIN p.dcls : /\ p.dcls[i].reg.type = "misctype"
                                            /\ p.dcls[i].reg.number = 1
           s1 == <<Local(<<"in.position", 0>>)>>
           s2 == DeclareDcls(p, "input", Every, "in.v", UserName)
           s3 == DeclareDcls(p, "input", Every, "in.v",
                             LAMBDA d : <<"color", d.reg.number>>)
           s4 == DeclareDcls(p, "addr", Every, "in.t",
                             LAMBDA d : <<"texcoord", d.reg.number>>)
           s34 == s3 \o s4
           m == p.major
           s5 == IF m >= 3 THEN s2 ELSE s34
           s6 == IF front THEN <<Local(<<"in.front_facing", 0>>)>> ELSE <<>>
           s7 == DeclareDcls(p, "sampler", Every, "tex", NoLink)
           v == Variables(p)
           s8 == DeclareEach("oC", p.colors - 1, Nat, NoLink)
           s9 == IF p.depth THEN <<Local(<<"oDepth", 0>>)>> ELSE <<>>
           s == Declarations(p)
<1>1. s = s1 \o s5 \o s6 \o s7 \o v \o s8 \o s9
  BY Zenon DEF Declarations, PsDeclarations, PsInputs
<1>2. IsSeq(s1) /\ Has(s1, <<"in.position", 0>>)
  BY LocalHas
<1>3. IsSeq(s2) /\ IsSeq(s3) /\ IsSeq(s4) /\ IsSeq(s7)
  BY PsDclsNames DEF DeclaresOnly
<1>4. \A d \in ToSet(p.dcls) :
        /\ d.reg.type = "input" =>
             Has(s2, <<"in.v", d.reg.number>>) /\ Has(s3, <<"in.v", d.reg.number>>)
        /\ d.reg.type = "addr" => Has(s4, <<"in.t", d.reg.number>>)
        /\ d.reg.type = "sampler" => Has(s7, <<"tex", d.reg.number>>)
  BY PsDclsHave
<1>5. IsSeq(s6) /\ (front => Has(s6, <<"in.front_facing", 0>>))
  <2>1. front \in BOOLEAN
    OBVIOUS
  <2> HIDE DEF front
  <2> QED BY <2>1, LocalIfHas
<1>6. \A d \in ToSet(p.dcls) : d.reg.type = "misctype" /\ d.reg.number = 1 => front
  BY DEF ToSet
<1>7. /\ IsSeq(v)
      /\ \A k \in 0..p.maxTemp : Has(v, <<"r", k>>)
      /\ \A n : <<"const", n>> \in ToSet(p.defs) => Has(v, <<"c_def", n>>)
  BY VariablesHave
<1>8. IsSeq(s8) /\ \A k \in 0..(p.colors - 1) : Has(s8, <<"oC", k>>)
  <2> DEFINE c == p.colors
  <2>1. c \in 0..32
    BY DEF Programs
  <2> HIDE DEF c
  <2> DEFINE l == c - 1
  <2>2. l + 1 \in Nat /\ (l + 1) - 1 = l
    BY <2>1
  <2> HIDE DEF l
  <2>3. /\ IsSeq(DeclareEach("oC", l, Nat, NoLink))
        /\ \A k \in 0..((l + 1) - 1) : Has(DeclareEach("oC", l, Nat, NoLink), <<"oC", k>>)
    BY <2>2, PlainHas
  <2> QED BY <2>2, <2>3 DEF l, c
<1>9. IsSeq(s9) /\ (p.depth => Has(s9, <<"oDepth", 0>>))
  <2>1. p.depth \in BOOLEAN
    BY ProgramFields
  <2> QED BY <2>1, LocalIfHas
<1>10. m \in Nat
  BY DEF Programs
<1> HIDE DEF front, s1, s2, s3, s4, s6, s7, v, s8, s9, m, s
<1>11. IsSeq(s34) /\ \A name : Has(s3, name) \/ Has(s4, name) => Has(s34, name)
  BY <1>3, HasConcat
<1> HIDE DEF s34
<1>12. (m >= 3 => s5 = s2) /\ (m < 3 => s5 = s34)
  <2> HIDE DEF s5
  <2>1. m < 3 => ~(m >= 3)
    BY <1>10
  <2>2. s5 = IF m >= 3 THEN s2 ELSE s34
    BY DEF s5
  <2> QED BY <2>1, <2>2, Zenon
<1>13. IsSeq(s5)
  BY <1>3, <1>11
<1>14. m >= 3 \/ m < 3
  BY <1>10
<1> HIDE DEF s5
<1>15. IsSeq(s1 \o s5) /\ \A name : Has(s1, name) \/ Has(s5, name) => Has(s1 \o s5, name)
  BY <1>2, <1>13, HasConcat
<1> DEFINE t5 == s1 \o s5
           t6 == t5 \o s6
           t7 == t6 \o s7
           t8 == t7 \o v
           t9 == t8 \o s8
<1>16. s = t9 \o s9
  BY <1>1
<1>17. IsSeq(t5) /\ \A name : Has(s1, name) \/ Has(s5, name) => Has(t5, name)
  BY <1>15
<1> HIDE DEF t5
<1>18. IsSeq(t6) /\ \A name : Has(t5, name) \/ Has(s6, name) => Has(t6, name)
  BY <1>5, <1>17, HasConcat
<1> HIDE DEF t6
<1>19. IsSeq(t7) /\ \A name : Has(t6, name) \/ Has(s7, name) => Has(t7, name)
  BY <1>3, <1>18, HasConcat
<1> HIDE DEF t7
<1>20. IsSeq(t8) /\ \A name : Has(t7, name) \/ Has(v, name) => Has(t8, name)
  BY <1>7, <1>19, HasConcat
<1> HIDE DEF t8
<1>21. IsSeq(t9) /\ \A name : Has(t8, name) \/ Has(s8, name) => Has(t9, name)
  BY <1>8, <1>20, HasConcat
<1> HIDE DEF t9
<1>22. \A name : Has(t9, name) \/ Has(s9, name) => Has(s, name)
  BY <1>9, <1>16, <1>21, HasConcat
<1>23. \A name : \/ Has(s1, name) \/ Has(s5, name) \/ Has(s6, name) \/ Has(s7, name)
                 \/ Has(v, name) \/ Has(s8, name) \/ Has(s9, name)
                 => Has(s, name)
  BY <1>17, <1>18, <1>19, <1>20, <1>21, <1>22
<1>24. ASSUME NEW d \in ToSet(p.dcls)
       PROVE  /\ d.reg.type = "input" => Has(s, <<"in.v", d.reg.number>>)
              /\ d.reg.type = "addr" /\ m < 3 => Has(s, <<"in.t", d.reg.number>>)
              /\ d.reg.type = "sampler" => Has(s, <<"tex", d.reg.number>>)
              /\ d.reg.type = "misctype" /\ d.reg.number = 1
                   => Has(s, <<"in.front_facing", 0>>)
  <2> DEFINE n == d.reg.number
             t == d.reg.type
  <2>1. /\ t = "input" => Has(s2, <<"in.v", n>>) /\ Has(s3, <<"in.v", n>>)
        /\ t = "addr" => Has(s4, <<"in.t", n>>)
        /\ t = "sampler" => Has(s7, <<"tex", n>>)
    BY <1>4
  <2>2. t = "misctype" /\ n = 1 => front
    BY <1>6
  <2> HIDE DEF t, n
  <2>3. t = "input" => Has(s5, <<"in.v", n>>)
    BY <1>11, <1>12, <1>14, <2>1
  <2>4. t = "addr" /\ m < 3 => Has(s5, <<"in.t", n>>)
    BY <1>11, <1>12, <2>1
  <2>5. t = "misctype" /\ n = 1 => Has(s6, <<"in.front_facing", 0>>)
    BY <1>5, <2>2
  <2>6. /\ t = "input" => Has(s, <<"in.v", n>>)
        /\ t = "addr" /\ m < 3 => Has(s, <<"in.t", n>>)
        /\ t = "sampler" => Has(s, <<"tex", n>>)
        /\ t = "misctype" /\ n = 1 => Has(s, <<"in.front_facing", 0>>)
    BY <1>23, <2>1, <2>3, <2>4, <2>5
  <2> QED BY <2>6 DEF t, n
<1>25. /\ \A k \in 0..p.maxTemp : Has(s, <<"r", k>>)
       /\ \A n : <<"const", n>> \in ToSet(p.defs) => Has(s, <<"c_def", n>>)
  BY <1>7, <1>23, Zenon
<1>26. \A k \in 0..(p.colors - 1) : Has(s, <<"oC", k>>)
  BY <1>8, <1>23, Zenon
<1>27. (p.depth => Has(s, <<"oDepth", 0>>)) /\ Has(s, <<"in.position", 0>>)
  BY <1>2, <1>9, <1>23
<1> QED BY <1>24, <1>25, <1>26, <1>27, Zenon DEF PsHave, s, m

-----------------------------------------------------------------------------
\* The names in the statements of an instruction.

\* The operands other than a texture, and all the names.
Plain(inst) == {j \in DOMAIN inst.src : ~(inst.op \in Sampled /\ j = 2)}
RegsOf(inst) == {inst.dst} \cup {inst.src[j] : j \in Plain(inst)}
NamesOf(p, inst) ==
  (UNION {NamesIn(p, r) : r \in RegsOf(inst)}) \cup
  (IF inst.op \in Sampled THEN {<<"tex", inst.src[2].number>>} ELSE {})
NamesFrom(s, names) == \A l \in ToSet(s) : l.names \subseteq names

LEMMA ConditionNames ==
    ASSUME NEW p, NEW inst \in Instructions, inst.op \notin Sampled, NEW text
    PROVE  Condition(p, inst, text).names \subseteq NamesOf(p, inst)
<1> DEFINE names == UNION {NamesIn(p, inst.src[i]) : i \in DOMAIN inst.src}
<1>1. Condition(p, inst, text) = [Line(text) EXCEPT !.names = names]
  BY DEF Condition
<1>2. Condition(p, inst, text).names = names
  <2> HIDE DEF names
  <2> QED BY <1>1 DEF Line
<1>3. names \subseteq NamesOf(p, inst)
  BY DEF NamesOf, RegsOf, Plain
<1> QED BY <1>2, <1>3

LEMMA AssignmentNames ==
    ASSUME NEW p, NEW inst \in Instructions, NEW value
    PROVE  Assignment(p, inst, value).names \subseteq NamesOf(p, inst)
<1> DEFINE read == UNION {NamesRead(p, inst, j) : j \in DOMAIN Operands(inst)}
<1>1. Assignment(p, inst, value).names = {Name(p, inst.dst)} \cup read
  BY Zenon DEF Assignment
<1>2. ASSUME NEW j \in DOMAIN Operands(inst)
      PROVE  NamesRead(p, inst, j) \subseteq NamesOf(p, inst)
  <2>1. j \in DOMAIN inst.src
    BY OperandsAre
  <2>2. CASE inst.op \in Sampled /\ j = 2
    BY <2>2 DEF NamesRead, NamesOf
  <2>3. CASE ~(inst.op \in Sampled /\ j = 2)
    <3>1. NamesRead(p, inst, j) = NamesIn(p, inst.src[j])
      BY <2>3 DEF NamesRead
    <3>2. inst.src[j] \in RegsOf(inst)
      BY <2>1, <2>3, Zenon DEF RegsOf, Plain
    <3> QED BY <3>1, <3>2 DEF NamesOf
  <2> QED BY <2>2, <2>3
<1>3. Name(p, inst.dst) \in NamesOf(p, inst)
  BY DEF NamesOf, RegsOf, NamesIn
<1> QED BY <1>1, <1>2, <1>3

LEMMA BlockNames ==
    ASSUME NEW p, NEW inst \in Instructions
    PROVE  InBlock(p, inst).names \subseteq NamesOf(p, inst)
<1> DEFINE names == {Name(p, inst.dst)}
           a == Assignment(p, inst, Assigned(p, inst))
           b == [a EXCEPT !.names = names]
<1>1. "names" \in DOMAIN a
  BY Zenon DEF Assignment
<1>2. b.names = names
  <2> HIDE DEF a, names
  <2> QED BY <1>1
<1>3. InBlock(p, inst) = b
  BY DEF InBlock
<1>4. names \subseteq NamesOf(p, inst)
  BY DEF NamesOf, RegsOf, NamesIn
<1> HIDE DEF b, names
<1> QED BY <1>2, <1>3, <1>4

LEMMA KeptNames ==
    ASSUME NEW p, NEW inst \in Instructions, inst.op \in Matrices \cup {"lit"}
    PROVE  Kept(p, inst.src[1]).names \subseteq NamesOf(p, inst)
<1>1. Kept(p, inst.src[1]).names = NamesIn(p, inst.src[1])
  BY Zenon DEF Kept
<1>2. 1 \in DOMAIN inst.src
  <2>1. inst.op \in Arithmetic /\ SrcCount(inst.op) \in {1, 2}
    <3>1. \A op \in Matrices \cup {"lit"} : op \in Arithmetic /\ SrcCount(op) \in {1, 2}
      BY DEF Arithmetic, SrcCount, Matrices, ThreeSources, NoSource, OneSource, TwoSources
    <3> QED BY <3>1
  <2>2. inst.src \in Seq(Registers) /\ Len(inst.src) \in {1, 2}
    BY <2>1 DEF Instructions
  <2> QED BY <2>2
<1>3. inst.src[1] \in RegsOf(inst)
  BY <1>2 DEF RegsOf, Plain
<1> QED BY <1>1, <1>3 DEF NamesOf

\* A texture is the second of two operands.
LEMMA SampledOperands ==
    ASSUME NEW p \in Programs, NEW inst \in ToSet(p.insts), inst.op \in Sampled
    PROVE  2 \in DOMAIN inst.src
<1>1. inst \in Instructions
  <2>1. p.insts \in Seq(Instructions)
    BY ProgramFields
  <2> QED BY <2>1, IsSeqIf
<1>2. inst.op \in Arithmetic /\ SrcCount(inst.op) = 2
  <2>1. \A op \in Sampled : op \in Arithmetic /\ SrcCount(op) = 2
    BY DEF Arithmetic, SrcCount, Sampled, ThreeSources, NoSource, OneSource, TwoSources
  <2> QED BY <2>1
<1>3. inst.src \in Seq(Registers) /\ Len(inst.src) = 2
  BY <1>1, <1>2 DEF Instructions
<1> QED BY <1>3

LEMMA OneNames ==
    ASSUME NEW names, NEW a, a.names \subseteq names
    PROVE  NamesFrom(<<a>>, names)
BY SingleIsSeq DEF NamesFrom

LEMMA FourNames ==
    ASSUME NEW names, NEW a, NEW b, NEW c, NEW d,
           a.names \subseteq names, b.names \subseteq names, c.names \subseteq names,
           d.names \subseteq names
    PROVE  NamesFrom(<<a, b, c, d>>, names)
<1> DEFINE L == {a, b, c, d}
<1>1. <<a, b, c, d>> \in Seq(L)
  OBVIOUS
<1>2. \A x \in L : x.names \subseteq names
  OBVIOUS
<1> HIDE DEF L
<1> QED BY <1>1, <1>2, IsSeqIf DEF NamesFrom

LEMMA SixNames ==
    ASSUME NEW names, NEW a, NEW b, NEW c, NEW d, NEW e, NEW f,
           a.names \subseteq names, b.names \subseteq names, c.names \subseteq names,
           d.names \subseteq names, e.names \subseteq names, f.names \subseteq names
    PROVE  NamesFrom(<<a, b, c, d, e, f>>, names)
<1> DEFINE L == {a, b, c, d, e, f}
<1>1. <<a, b, c, d, e, f>> \in Seq(L)
  OBVIOUS
<1>2. \A x \in L : x.names \subseteq names
  OBVIOUS
<1> HIDE DEF L
<1> QED BY <1>1, <1>2, IsSeqIf DEF NamesFrom

LEMMA RepeatedNames ==
    ASSUME NEW n \in Nat, NEW a, NEW names, a.names \subseteq names
    PROVE  NamesFrom([i \in 1..n |-> a], names)
<1> DEFINE s == [i \in 1..n |-> a]
<1>1. s \in Seq({a})
  OBVIOUS
<1> HIDE DEF s
<1>2. ToSet(s) \subseteq {a}
  BY <1>1, IsSeqIf
<1> QED BY <1>2 DEF NamesFrom, s

\* A statement names registers of its instruction only.
LEMMA LinesNames ==
    ASSUME NEW p, NEW inst \in Instructions
    PROVE  NamesFrom(Lines(p, inst), NamesOf(p, inst))
<1> DEFINE op == inst.op
           a == Assignment(p, inst, Assigned(p, inst))
           N == NamesOf(p, inst)
<1>1. a.names \subseteq N
  BY AssignmentNames
<1>t. \A text : Line(text).names \subseteq N
  BY DEF Line
<1>c. op \notin Sampled => \A text : Condition(p, inst, text).names \subseteq N
  BY ConditionNames
<1>b. InBlock(p, inst).names \subseteq N
  BY BlockNames
<1>k. op \in Matrices \cup {"lit"} => Kept(p, inst.src[1]).names \subseteq N
  BY KeptNames
<1> HIDE DEF N
<1>2. CASE op = "nop"
  <2>1. Lines(p, inst) = <<>>
    BY <1>2 DEF Lines, Matrices
  <2> QED BY <2>1, EmptyIsSeq DEF NamesFrom, N
<1>3. CASE op = "sincos"
  <2> DEFINE b == Assignment(p, inst, SinCos(p, inst))
             n == Cardinality(inst.dst.mask)
  <2>1. n \in Nat
    <3>1. inst.dst.mask \in SUBSET Components
      <4>1. inst.dst \in Registers
        BY DEF Instructions
      <4> QED BY <4>1, RegisterFields
    <3> QED BY <3>1, MaskFinite
  <2>2. Lines(p, inst) = [i \in 1..n |-> b]
    <3> HIDE DEF b
    <3> QED BY <1>3 DEF Lines, Matrices, b
  <2>3. b.names \subseteq N
    BY AssignmentNames DEF N
  <2> HIDE DEF b, n, op
  <2>4. NamesFrom([i \in 1..n |-> b], N)
    BY <2>1, <2>3, RepeatedNames
  <2> QED BY <2>2, <2>4 DEF N
<1>4. CASE op = "lit"
  <2> DEFINE k == Kept(p, inst.src[1])
             b == InBlock(p, inst)
  <2>1. Lines(p, inst) = <<Line("{"), k, Line("_d"), Line("_s"), b, Line("}")>>
    BY <1>4 DEF Lines, Matrices
  <2>2. k.names \subseteq N /\ b.names \subseteq N
    BY <1>4, <1>b, <1>k
  <2> HIDE DEF k, b
  <2>3. NamesFrom(<<Line("{"), k, Line("_d"), Line("_s"), b, Line("}")>>, N)
    BY <1>t, <2>2, SixNames
  <2> QED BY <2>1, <2>3 DEF N
<1>5. CASE op \in Matrices
  <2> DEFINE k == Kept(p, inst.src[1])
             b == InBlock(p, inst)
  <2>1. Lines(p, inst) = <<Line("{"), k, b, Line("}")>>
    BY <1>5 DEF Lines, Matrices
  <2>2. k.names \subseteq N /\ b.names \subseteq N
    BY <1>5, <1>b, <1>k
  <2> HIDE DEF k, b
  <2> QED BY <1>t, <2>1, <2>2, FourNames, ZenonT(60) DEF N
<1>6. CASE op = "texkill"
  <2> DEFINE names == {Name(p, inst.dst)}
             b == [Line("discard") EXCEPT !.names = names]
  <2>1. Lines(p, inst) = <<b>>
    BY <1>6 DEF Lines, Matrices
  <2>2. b.names = names
    <3> HIDE DEF names
    <3> QED BY DEF Line
  <2>3. names \subseteq N
    BY DEF N, NamesOf, RegsOf, NamesIn
  <2> HIDE DEF b
  <2> QED BY <2>1, <2>2, <2>3, OneNames DEF N
<1>7. CASE op \in {"ifc", "if", "rep"}
  <2>1. Lines(p, inst) = <<Condition(p, inst, "{")>>
    BY <1>7 DEF Lines, Matrices
  <2>2. op \notin Sampled
    BY <1>7 DEF Sampled
  <2> QED BY <1>c, <2>1, <2>2, OneNames DEF N
<1>8. CASE op \in {"breakc", "break"}
  <2>1. Lines(p, inst) \in {<<Condition(p, inst, "break")>>, <<Line("break")>>}
    BY <1>8 DEF Lines, Matrices
  <2>2. op \notin Sampled
    BY <1>8 DEF Sampled
  <2> QED BY <1>t, <1>c, <2>1, <2>2, OneNames DEF N
<1>9. CASE op \in {"else", "endif", "endrep"}
  <2>1. Lines(p, inst) \in {<<Line("} else {")>>, <<Line("}")>>}
    BY <1>9 DEF Lines, Matrices
  <2> QED BY <1>t, <2>1, OneNames DEF N
<1>10. CASE op \notin {"nop", "sincos", "lit", "texkill", "ifc", "if", "rep", "breakc",
                       "break", "else", "endif", "endrep"} \cup Matrices
  <2> HIDE DEF a
  <2>1. Lines(p, inst) = <<a>>
    BY <1>10 DEF Lines, a
  <2> QED BY <1>1, <2>1, OneNames DEF N
<1> QED BY <1>2, <1>3, <1>4, <1>5, <1>6, <1>7, <1>8, <1>9, <1>10

\* The names in the text up to an instruction.
LEMMA BodyNames ==
    ASSUME NEW p \in Programs, NEW n \in Nat, n <= Len(p.insts),
           NEW l \in ToSet(Body(p, n)), NEW name \in l.names
    PROVE  \E inst \in ToSet(p.insts) : name \in NamesOf(p, inst)
<1> DEFINE L == UNION {ToSet(Lines(p, inst)) : inst \in Instructions}
           K == UNION {ToSet(Lines(p, inst)) : inst \in ToSet(p.insts)}
           ss == [i \in 1..n |-> Lines(p, p.insts[i])]
<1>0. p.insts \in Seq(Instructions) /\ ToSet(p.insts) \subseteq Instructions
  <2>1. p.insts \in Seq(Instructions)
    BY ProgramFields
  <2> QED BY <2>1, IsSeqIf
<1>1. \A i \in 1..n : Lines(p, p.insts[i]) \in Seq(K)
  <2> SUFFICES ASSUME NEW i \in 1..n PROVE Lines(p, p.insts[i]) \in Seq(K)
    OBVIOUS
  <2>1. p.insts[i] \in ToSet(p.insts)
    <3>1. i \in DOMAIN p.insts
      BY <1>0
    <3> QED BY <3>1 DEF ToSet
  <2> DEFINE s == Lines(p, p.insts[i])
  <2>2. s \in Seq(ToSet(s))
    BY <1>0, <2>1, LinesAre DEF StatesOnly, IsSeq
  <2>3. ToSet(s) \subseteq K
    BY <2>1
  <2> HIDE DEF s, K
  <2>4. s \in Seq(K)
    BY <2>2, <2>3, SeqMonotonic
  <2> QED BY <2>4 DEF s
<1> DEFINE T == Seq(K)
<1>2. ss \in Seq(T)
  <2> HIDE DEF T
  <2>1. \A i \in 1..n : Lines(p, p.insts[i]) \in T
    BY <1>1 DEF T
  <2> QED BY <2>1
<1>3. FlattenSeq(ss) \in Seq(K)
  <2>1. ss \in Seq(Seq(K))
    BY <1>2
  <2> HIDE DEF K, ss
  <2> QED BY <2>1, FlattenRange
<1>4. ToSet(Body(p, n)) \subseteq K
  <2>1. Body(p, n) = FlattenSeq(ss)
    BY DEF Body
  <2> HIDE DEF K, ss
  <2> QED BY <1>3, <2>1, IsSeqIf
<1>5. PICK inst \in ToSet(p.insts) : l \in ToSet(Lines(p, inst))
  BY <1>4
<1>6. name \in NamesOf(p, inst)
  BY <1>0, <1>5, LinesNames DEF NamesFrom
<1> QED BY <1>5, <1>6

-----------------------------------------------------------------------------
\* The names of a program's registers.

\* Declarations of a register, in their order.
LEMMA DclsOfAre ==
    ASSUME NEW p \in Programs, NEW type, NEW number
    PROVE  /\ IsSeq(DclsOf(p, type, number))
           /\ ToSet(DclsOf(p, type, number))
                = {d \in ToSet(p.dcls) : d.reg.type = type /\ d.reg.number = number}
<1> DEFINE c == [d \in Dcls |-> d.reg.type = type /\ d.reg.number = number]
           x == [d \in Dcls |-> d]
           q == p.dcls
           s == DclsOf(p, type, number)
<1>1. q \in Seq(Dcls) /\ \A i \in DOMAIN q : q[i] \in Dcls
  BY DEF Programs, DclSeqs
<1>2. s = FlattenSeq([i \in DOMAIN q |->
            When(q[i].reg.type = type /\ q[i].reg.number = number, q[i])])
  BY Zenon DEF DclsOf
<1>3. \A d \in Dcls : /\ c[d] = (d.reg.type = type /\ d.reg.number = number)
                      /\ x[d] = d
  BY Zenon
<1>4. c \in [Dcls -> BOOLEAN]
  OBVIOUS
<1>5. ToSet(q) \subseteq Dcls
  <2> HIDE DEF q
  <2> QED BY <1>1, IsSeqIf
<1> HIDE DEF c, x, q, s
<1>6. Selected(s, q, c, x)
  BY <1>1, <1>2, <1>3 DEF Selected
<1>7. IsSeq(s) /\ ToSet(s) = {x[d] : d \in {e \in ToSet(q) : c[e]}}
  BY <1>1, <1>4, <1>6, SelectedRange
<1>8. {x[d] : d \in {e \in ToSet(q) : c[e]}}
        = {d \in ToSet(q) : d.reg.type = type /\ d.reg.number = number}
  BY <1>3, <1>5
<1> QED BY <1>7, <1>8 DEF s, q

LEMMA HeadIn ==
    ASSUME NEW s, IsSeq(s), s # <<>>
    PROVE  Head(s) \in ToSet(s)
<1>1. s \in Seq(ToSet(s))
  BY DEF IsSeq
<1> DEFINE S == ToSet(s)
<1>2. s \in Seq(S)
  BY <1>1
<1> HIDE DEF S
<1> QED BY <1>2 DEF S

LEMMA NoDclIn == ASSUME NEW x PROVE x \notin ToSet(<<>>)
BY EmptyIsSeq

\* What the name of a register is, by its type.
LEMMA NameIs ==
    ASSUME NEW p, NEW r
    PROVE  /\ r.type = "temp" => Name(p, r) = <<"r", r.number>>
           /\ r.type = "input" => Name(p, r) = <<"in.v", r.number>>
           /\ r.type = "const" /\ r.relative => Name(p, r) = <<"c[a0]", r.number>>
           /\ r.type = "const" /\ ~r.relative =>
                \/ Name(p, r) = <<"c", r.number>>
                \/ /\ Name(p, r) = <<"c_def", r.number>>
                   /\ <<"const", r.number>> \in ToSet(p.defs)
           /\ r.type = "addr" =>
                Name(p, r) = IF IsVs(p) THEN <<"a", r.number>> ELSE <<"in.t", r.number>>
           /\ r.type = "rastout" =>
                Name(p, r) \in {<<"out.pointsize", 0>>}
                               \cup (IF r.number = 0 THEN {<<"out.position", 0>>} ELSE {})
                               \cup (IF r.number = 1 THEN {<<"out.fog", 0>>} ELSE {})
           /\ r.type = "attrout" => Name(p, r) = <<"out.oD", r.number>>
           /\ r.type = "colorout" => Name(p, r) = <<"oC", r.number>>
           /\ r.type = "depthout" => Name(p, r) = <<"oDepth", 0>>
           /\ r.type = "sampler" => Name(p, r) = <<"s", r.number>>
           /\ r.type = "constint" => Name(p, r) = <<"i", r.number>>
           /\ r.type = "constbool" => Name(p, r) = <<"b", r.number>>
           /\ r.type = "misctype" =>
                Name(p, r) = <<IF r.number = 0 THEN "in.position" ELSE "in.front_facing", 0>>
<1>1. r.type = "temp" => Name(p, r) = <<"r", r.number>>
  BY DEF Name
<1>2. r.type = "input" => Name(p, r) = <<"in.v", r.number>>
  BY DEF Name
<1>3. r.type = "const" /\ r.relative => Name(p, r) = <<"c[a0]", r.number>>
  BY DEF Name
<1>4. r.type = "const" /\ ~r.relative =>
        \/ Name(p, r) = <<"c", r.number>>
        \/ /\ Name(p, r) = <<"c_def", r.number>>
           /\ <<"const", r.number>> \in ToSet(p.defs)
  BY DEF Name
<1>5. r.type = "addr" =>
        Name(p, r) = IF IsVs(p) THEN <<"a", r.number>> ELSE <<"in.t", r.number>>
  BY DEF Name
<1>6. r.type = "rastout" =>
        Name(p, r) \in {<<"out.pointsize", 0>>}
                       \cup (IF r.number = 0 THEN {<<"out.position", 0>>} ELSE {})
                       \cup (IF r.number = 1 THEN {<<"out.fog", 0>>} ELSE {})
  BY DEF Name
<1>7. /\ r.type = "attrout" => Name(p, r) = <<"out.oD", r.number>>
      /\ r.type = "colorout" => Name(p, r) = <<"oC", r.number>>
      /\ r.type = "depthout" => Name(p, r) = <<"oDepth", 0>>
      /\ r.type = "sampler" => Name(p, r) = <<"s", r.number>>
  BY DEF Name
<1>8. /\ r.type = "constint" => Name(p, r) = <<"i", r.number>>
      /\ r.type = "constbool" => Name(p, r) = <<"b", r.number>>
      /\ r.type = "misctype" =>
           Name(p, r) = <<IF r.number = 0 THEN "in.position" ELSE "in.front_facing", 0>>
  BY DEF Name
<1> QED BY <1>1, <1>2, <1>3, <1>4, <1>5, <1>6, <1>7, <1>8

LEMMA OutputIs ==
    ASSUME NEW p \in Programs, IsVs(p), NEW r \in Registers, r.type = "output"
    PROVE  /\ p.major < 3 => Name(p, r) = <<"out.oT", r.number>>
           /\ p.major >= 3 =>
                \/ Name(p, r) = <<"out.position", 0>>
                \/ /\ Name(p, r) = <<"out.o", r.number>>
                   /\ (\E d \in ToSet(p.dcls) :
                         d.reg.type = "output" /\ d.reg.number = r.number)
                      => \E d \in ToSet(p.dcls) :
                           /\ d.reg.type = "output" /\ d.reg.number = r.number
                           /\ ~IsPosition(d)
<1> DEFINE n == r.number
           dcls == DclsOf(p, "output", n)
           m == p.major
           old == m < 3
<1>1. Name(p, r) = IF old THEN <<"out.oT", n>>
                   ELSE IF dcls # <<>> /\ IsPosition(Head(dcls)) THEN <<"out.position", 0>>
                   ELSE <<"out.o", n>>
  <2> HIDE DEF dcls, n, old
  <2>1. Name(p, r) = IF IsVs(p) /\ old THEN <<"out.oT", n>>
                     ELSE IF IsVs(p) /\ dcls # <<>> /\ IsPosition(Head(dcls))
                       THEN <<"out.position", 0>>
                     ELSE <<"out.o", n>>
    BY DEF Name, dcls, n, old
  <2> QED BY <2>1
<1>2. m \in Nat
  BY DEF Programs
<1>3. m >= 3 => ~old
  <2> HIDE DEF m
  <2> QED BY <1>2
<1>4. IsSeq(dcls) /\ ToSet(dcls) = {d \in ToSet(p.dcls) :
                                     d.reg.type = "output" /\ d.reg.number = n}
  BY DclsOfAre
<1> HIDE DEF dcls, n
<1>5. ASSUME NEW d \in ToSet(p.dcls), d.reg.type = "output", d.reg.number = n,
             ~(dcls # <<>> /\ IsPosition(Head(dcls)))
      PROVE  \E e \in ToSet(p.dcls) :
               e.reg.type = "output" /\ e.reg.number = n /\ ~IsPosition(e)
  <2>1. d \in ToSet(dcls)
    BY <1>4, <1>5
  <2>2. dcls # <<>>
    BY <2>1, NoDclIn
  <2>3. Head(dcls) \in ToSet(dcls) /\ ~IsPosition(Head(dcls))
    BY <1>4, <1>5, <2>2, HeadIn
  <2> QED BY <1>4, <2>3
<1> HIDE DEF old, m
<1>6. old => Name(p, r) = <<"out.oT", n>>
  BY <1>1
<1>7. ASSUME ~old
      PROVE  \/ Name(p, r) = <<"out.position", 0>>
             \/ /\ Name(p, r) = <<"out.o", n>>
                /\ (\E d \in ToSet(p.dcls) : d.reg.type = "output" /\ d.reg.number = n)
                   => \E d \in ToSet(p.dcls) :
                        /\ d.reg.type = "output" /\ d.reg.number = n
                        /\ ~IsPosition(d)
  BY <1>1, <1>5, <1>7, Zenon
<1> QED BY <1>3, <1>6, <1>7, Zenon DEF n, m, old

\* A register of a program that declares what it uses has been counted.
LEMMA UsesCounted ==
    ASSUME NEW p \in Programs, AllCounted(p), DeclaresWhatItUses(p),
           NEW inst \in ToSet(p.insts), NEW r \in RegsOf(inst)
    PROVE  r \in Registers /\ Provided(p, r) /\ Counted(p, r)
<1>1. ToSet(p.insts) \subseteq Instructions
  <2>1. p.insts \in Seq(Instructions)
    BY ProgramFields
  <2> QED BY <2>1, IsSeqIf
<1>2. inst.dst \in Registers /\ ToSet(inst.src) \subseteq Registers
  <2>1. inst.dst \in Registers /\ inst.src \in Seq(Registers)
    BY <1>1 DEF Instructions
  <2> QED BY <2>1, IsSeqIf
<1>3. InstCounted(p, inst)
  BY DEF AllCounted
<1>4. CASE r = inst.dst
  BY <1>2, <1>3, <1>4 DEF InstCounted, DeclaresWhatItUses
<1>5. CASE r \in {inst.src[j] : j \in Plain(inst)}
  <2> DEFINE types == {"rastout", "attrout", "depthout"}
             more == types \cup (IF inst.op \in Arithmetic THEN {} ELSE {"temp", "output"})
  <2>0. PICK j \in DOMAIN inst.src : r = inst.src[j] /\ ~(inst.op \in Sampled /\ j = 2)
    BY <1>5 DEF Plain
  <2>1. Provided(p, r) /\ (r.type \in more => Writes(p, r.type, r.number))
    BY <2>0, Zenon DEF DeclaresWhatItUses
  <2>4. r \in ToSet(inst.src)
    BY <2>0 DEF ToSet
  <2>2. ASSUME Writes(p, r.type, r.number)
        PROVE  Counted(p, r)
    <3>1. PICK other \in ToSet(p.insts) : /\ other.dst.type = r.type
                                          /\ other.dst.number = r.number
      BY <2>2 DEF Writes
    <3>2. Counted(p, other.dst)
      BY DEF AllCounted, InstCounted
    <3> QED BY <3>1, <3>2 DEF Counted, Seen
  <2>3. ASSUME r.type \notin more
        PROVE  Counted(p, r)
    <3>1. inst.op \in Arithmetic => Seen(p, r)
      BY <1>3, <2>4 DEF InstCounted
    <3>2. inst.op \notin Arithmetic => r.type \notin {"temp", "output"}
      BY <2>3
    <3>3. r.type \notin types
      BY <2>3
    <3> HIDE DEF more
    <3> QED BY <3>1, <3>2, <3>3 DEF Counted, Seen
  <2> HIDE DEF more
  <2> QED BY <1>2, <2>1, <2>2, <2>3, <2>4
<1> QED BY <1>4, <1>5 DEF RegsOf

\* Names for which there is no declaration.
Excused(name) == name[1] \in {"c", "c[a0]"} \/ KnownGap(name)
Covered(name) == Has(Declarations(prog), name) \/ Excused(name)

LEMMA WritesAddress ==
    ASSUME NEW p, Writes(p, "addr", 0)
    PROVE  UsesAddress(p)
BY DEF Writes, UsesAddress, ToSet

LEMMA NumberTyped ==
    ASSUME NEW r \in Registers
    PROVE  r.number \in Nat
BY RegisterFields

LEMMA CommonCovered ==
    ASSUME prog \in Programs, NEW r \in Registers, Provided(prog, r), Counted(prog, r),
           r.type \in {"temp", "constint", "constbool", "const"}
    PROVE  Covered(Name(prog, r))
<1> DEFINE k == r.number
           s == Declarations(prog)
           m == prog.maxTemp
<1>1. /\ \A j \in 0..prog.maxTemp : Has(s, <<"r", j>>)
      /\ \A n : <<"const", n>> \in ToSet(prog.defs) => Has(s, <<"c_def", n>>)
  <2> HIDE DEF s
  <2>1. CASE IsVs(prog)
    BY <2>1, VsHas, Zenon DEF VsHave, s
  <2>2. CASE ~IsVs(prog)
    BY <2>2, PsHas, Zenon DEF PsHave, s
  <2> QED BY <2>1, <2>2
<1>2. k \in Nat /\ m \in 0..255
  <2>1. k \in Nat
    BY NumberTyped
  <2>2. m \in 0..255
    BY ProgramFields
  <2> QED BY <2>1, <2>2
<1> HIDE DEF s
<1>3. CASE r.type = "temp"
  <2>1. k <= m /\ Name(prog, r) = <<"r", k>>
    BY <1>3, NameIs DEF Counted, Seen
  <2> HIDE DEF k
  <2>2. k \in 0..m
    <3> HIDE DEF m
    <3> QED BY <1>2, <2>1
  <2>3. Has(s, <<"r", k>>)
    BY <1>1, <2>2
  <2> QED BY <2>1, <2>3 DEF Covered, s
<1>4. CASE r.type \in {"constint", "constbool"}
  <2>1. Name(prog, r) \in {<<"i", k>>, <<"b", k>>}
    BY <1>4, NameIs
  <2>2. Name(prog, r)[1] \in {"i", "b"}
    BY <2>1
  <2> QED BY <2>2 DEF Covered, Excused, KnownGap
<1>5. CASE r.type = "const"
  <2>1. CASE Name(prog, r)[1] \in {"c", "c[a0]"}
    BY <2>1 DEF Covered, Excused
  <2>2. CASE Name(prog, r) = <<"c_def", k>> /\ <<"const", k>> \in ToSet(prog.defs)
    BY <1>1, <2>2 DEF Covered, s
  <2>3. r.relative => Name(prog, r)[1] = "c[a0]"
    <3>1. r.relative => Name(prog, r) = <<"c[a0]", k>>
      BY <1>5, NameIs
    <3> QED BY <3>1
  <2>4. ~r.relative => \/ Name(prog, r)[1] = "c"
                       \/ /\ Name(prog, r) = <<"c_def", k>>
                          /\ <<"const", k>> \in ToSet(prog.defs)
    BY <1>5, NameIs
  <2> QED BY <2>1, <2>2, <2>3, <2>4
<1> QED BY <1>3, <1>4, <1>5

\* A vertex shader.
LEMMA VsOutputCovered ==
    ASSUME prog \in Programs, IsVs(prog), NEW r \in Registers, Provided(prog, r),
           Counted(prog, r), r.type = "output"
    PROVE  Covered(Name(prog, r))
<1> DEFINE k == r.number
           s == Declarations(prog)
           m == prog.major
           declared == \E d \in ToSet(prog.dcls) :
                         d.reg.type = "output" /\ d.reg.number = k
<1>1. Outputs(prog, s)
  BY VsHas DEF VsHave
<1>2. m \in Nat
  BY ProgramFields, Zenon
<1>3. k \in Nat
  BY NumberTyped
<1>4. k \in prog.outputs
  BY DEF Counted, Seen
<1>5. IF m < 3 THEN k <= 7 ELSE declared
  BY DEF Provided
<1> HIDE DEF s
<1>6. CASE m < 3
  <2>1. Name(prog, r) = <<"out.oT", k>>
    BY <1>6, OutputIs
  <2>2. k \in 0..7
    <3> HIDE DEF k, m
    <3> QED BY <1>3, <1>5, <1>6
  <2>3. Has(s, <<"out.oT", k>>)
    BY <1>1, <1>4, <1>6, <2>2, Zenon DEF Outputs
  <2> QED BY <2>1, <2>3 DEF Covered, s
<1>7. CASE ~(m < 3)
  <2>1. m >= 3
    <3> HIDE DEF m
    <3> QED BY <1>2, <1>7
  <2>2. declared
    BY <1>5, <1>7
  <2>3. CASE Name(prog, r) = <<"out.position", 0>>
    BY <1>1, <2>3 DEF Covered, Outputs, s
  <2>4. CASE /\ Name(prog, r) = <<"out.o", k>>
             /\ \E d \in ToSet(prog.dcls) :
                  d.reg.type = "output" /\ d.reg.number = k /\ ~IsPosition(d)
    <3>1. PICK d \in ToSet(prog.dcls) :
                 d.reg.type = "output" /\ d.reg.number = k /\ ~IsPosition(d)
      BY <2>4
    <3>2. Has(s, <<"out.o", d.reg.number>>)
      BY <1>1, <2>1, <3>1, Zenon DEF Outputs
    <3> QED BY <2>4, <3>1, <3>2 DEF Covered, s
  <2>5. \/ Name(prog, r) = <<"out.position", 0>>
        \/ /\ Name(prog, r) = <<"out.o", k>>
           /\ declared => \E d \in ToSet(prog.dcls) :
                d.reg.type = "output" /\ d.reg.number = k /\ ~IsPosition(d)
    BY <2>1, OutputIs
  <2> QED BY <2>2, <2>3, <2>4, <2>5
<1> QED BY <1>6, <1>7

LEMMA VsInputCovered ==
    ASSUME prog \in Programs, IsVs(prog), NEW r \in Registers, Provided(prog, r),
           r.type = "input"
    PROVE  Covered(Name(prog, r))
<1> DEFINE k == r.number
           s == Declarations(prog)
<1>1. PICK d \in ToSet(prog.dcls) : d.reg.type = "input" /\ d.reg.number = k
  BY DEF Provided
<1>2. Name(prog, r) = <<"in.v", k>>
  BY NameIs
<1>3. CASE Mapped(d)
  <2>1. Has(s, <<"in.v", d.reg.number>>)
    BY <1>1, <1>3, VsHas, Zenon DEF VsHave
  <2> HIDE DEF s
  <2> QED BY <1>1, <1>2, <2>1 DEF Covered, s
<1>4. CASE ~Mapped(d)
  <2>1. Name(prog, r)[1] = "in.v" /\ Name(prog, r)[2] = k
    BY <1>2
  <2>2. AttributeIndex(d.usage, d.index) = Unmapped
    BY <1>4 DEF Mapped
  <2> DEFINE name == Name(prog, r)
  <2> HIDE DEF name, k
  <2>3. KnownGap(name)
    BY <1>1, <2>1, <2>2, Zenon DEF KnownGap, name
  <2> QED BY <2>3 DEF Covered, Excused, name
<1> QED BY <1>3, <1>4

LEMMA VsCovered ==
    ASSUME prog \in Programs, IsVs(prog), NEW r \in Registers, Provided(prog, r),
           Counted(prog, r)
    PROVE  Covered(Name(prog, r))
<1> DEFINE k == r.number
           s == Declarations(prog)
           m == prog.major
<1>1. Outputs(prog, s) /\ (UsesAddress(prog) => Has(s, <<"a", 0>>))
  BY VsHas DEF VsHave
<1>2. k \in Nat /\ m \in Nat
  <2>1. m \in Nat
    BY ProgramFields, Zenon
  <2>2. k \in Nat
    BY NumberTyped
  <2> QED BY <2>1, <2>2
<1> HIDE DEF s
<1>3. CASE r.type \in {"temp", "constint", "constbool", "const"}
  BY <1>3, CommonCovered
<1>4. CASE r.type = "rastout"
  <2>1. Name(prog, r) \in {<<"out.pointsize", 0>>}
                          \cup (IF k = 0 THEN {<<"out.position", 0>>} ELSE {})
                          \cup (IF k = 1 THEN {<<"out.fog", 0>>} ELSE {})
    BY <1>4, NameIs
  <2>2. k = 1 => prog.fog
    BY <1>4 DEF Counted
  <2>3. CASE Name(prog, r) = <<"out.pointsize", 0>>
    BY <2>3 DEF Covered, Excused, KnownGap
  <2>4. CASE Name(prog, r) = <<"out.position", 0>>
    BY <1>1, <2>4 DEF Covered, Outputs, s
  <2>5. CASE Name(prog, r) = <<"out.fog", 0>> /\ k = 1
    BY <1>1, <2>2, <2>5 DEF Covered, Outputs, s
  <2> HIDE DEF k
  <2> QED BY <2>1, <2>3, <2>4, <2>5
<1>6. CASE r.type = "input"
  BY <1>6, VsInputCovered
<1>7. CASE r.type = "output"
  BY <1>7, VsOutputCovered
<1>8. CASE r.type = "attrout" /\ m < 3 /\ k <= 1
  <2>1. Name(prog, r) = <<"out.oD", k>> /\ k \in prog.attrouts
    BY <1>8, NameIs DEF Counted
  <2>2. k \in 0..1
    <3> HIDE DEF k, m
    <3> QED BY <1>2, <1>8
  <2>3. Has(s, <<"out.oD", k>>)
    BY <1>1, <1>8, <2>1, <2>2, Zenon DEF Outputs
  <2> QED BY <2>1, <2>3 DEF Covered, s
<1>9. CASE r.type = "addr" /\ k = 0 /\ Writes(prog, "addr", 0)
  <2>1. Name(prog, r) = <<"a", 0>>
    BY <1>9, NameIs
  <2> QED BY <1>1, <1>9, <2>1, WritesAddress DEF Covered, s
<1>10. \/ r.type \in {"temp", "constint", "constbool", "const", "rastout",
                      "input", "output"}
       \/ r.type = "attrout" /\ m < 3 /\ k <= 1
       \/ r.type = "addr" /\ k = 0 /\ Writes(prog, "addr", 0)
  BY DEF Provided
<1> HIDE DEF k, m
<1> QED BY <1>3, <1>4, <1>6, <1>7, <1>8, <1>9, <1>10

\* A pixel shader.
LEMMA PsCovered ==
    ASSUME prog \in Programs, ~IsVs(prog), NEW r \in Registers, Provided(prog, r),
           Counted(prog, r)
    PROVE  Covered(Name(prog, r))
<1> DEFINE k == r.number
           s == Declarations(prog)
           m == prog.major
           c == prog.colors
           declared == \E d \in ToSet(prog.dcls) : d.reg.type = r.type /\ d.reg.number = k
<1>1. PsHave(prog, s)
  BY PsHas
<1>2. k \in Nat /\ c \in 0..32
  <2>1. c \in 0..32
    BY ProgramFields
  <2>2. k \in Nat
    BY NumberTyped
  <2> QED BY <2>1, <2>2
<1> HIDE DEF s
<1>3. CASE r.type \in {"temp", "constint", "constbool", "const"}
  BY <1>3, CommonCovered
<1>4. CASE r.type = "colorout"
  <2>1. Name(prog, r) = <<"oC", k>>
    BY <1>4, NameIs
  <2>2. CASE k >= c
    <3>1. Name(prog, r)[1] = "oC" /\ Name(prog, r)[2] = k
      BY <2>1
    <3> HIDE DEF k
    <3> QED BY <2>2, <3>1 DEF Covered, Excused, KnownGap
  <2>3. CASE ~(k >= c)
    <3>1. k \in 0..(c - 1)
      <4> HIDE DEF k, c
      <4> QED BY <1>2, <2>3
    <3>2. Has(s, <<"oC", k>>)
      BY <1>1, <3>1, Zenon DEF PsHave
    <3> QED BY <2>1, <3>2 DEF Covered, s
  <2> QED BY <2>2, <2>3
<1>5. CASE r.type = "depthout"
  <2>1. Name(prog, r) = <<"oDepth", 0>> /\ prog.depth
    BY <1>5, NameIs DEF Counted
  <2> QED BY <1>1, <2>1 DEF Covered, PsHave, s
<1>6. CASE r.type = "input" /\ declared
  <2>1. PICK d \in ToSet(prog.dcls) : d.reg.type = r.type /\ d.reg.number = k
    BY <1>6
  <2>2. Has(s, <<"in.v", d.reg.number>>)
    BY <1>1, <1>6, <2>1, ZenonT(40) DEF PsHave
  <2>3. Name(prog, r) = <<"in.v", k>>
    BY <1>6, NameIs
  <2> QED BY <1>6, <2>1, <2>2, <2>3 DEF Covered, s
<1>7. CASE r.type = "addr" /\ m < 3 /\ declared
  <2>1. PICK d \in ToSet(prog.dcls) : d.reg.type = r.type /\ d.reg.number = k
    BY <1>7
  <2>2. Has(s, <<"in.t", d.reg.number>>)
    BY <1>1, <1>7, <2>1, Zenon DEF PsHave
  <2>3. Name(prog, r) = <<"in.t", k>>
    BY <1>7, NameIs, ZenonT(60)
  <2> QED BY <2>1, <2>2, <2>3 DEF Covered, s
<1>8. CASE r.type = "misctype" /\ k \in 0..1 /\ (k = 1 => declared)
  <2>1. Name(prog, r) = <<IF k = 0 THEN "in.position" ELSE "in.front_facing", 0>>
    BY <1>8, NameIs
  <2>2. CASE k = 0
    BY <1>1, <2>1, <2>2 DEF Covered, PsHave, s
  <2>3. CASE k = 1
    <3>1. PICK d \in ToSet(prog.dcls) : d.reg.type = r.type /\ d.reg.number = k
      BY <1>8, <2>3
    <3>2. Has(s, <<"in.front_facing", 0>>)
      BY <1>1, <1>8, <2>3, <3>1, Zenon DEF PsHave
    <3>3. Name(prog, r) = <<"in.front_facing", 0>>
      BY <2>1, <2>3
    <3> QED BY <3>2, <3>3 DEF Covered, s
  <2>4. k = 0 \/ k = 1
    <3> HIDE DEF k
    <3> QED BY <1>8
  <2> QED BY <2>2, <2>3, <2>4
<1>9. \/ r.type \in {"temp", "constint", "constbool", "const", "colorout", "depthout"}
      \/ r.type = "input" /\ declared
      \/ r.type = "addr" /\ m < 3 /\ declared
      \/ r.type = "misctype" /\ k \in 0..1 /\ (k = 1 => declared)
  BY DEF Provided
<1> HIDE DEF k, m, c, declared
<1> QED BY <1>3, <1>4, <1>5, <1>6, <1>7, <1>8, <1>9

\* Only an indexed constant is written with the address register.
LEMMA NamedIndexed ==
    ASSUME NEW p, NEW r \in Registers, Name(p, r)[1] = "c[a0]"
    PROVE  r.type = "const" /\ r.relative
<1>1. r.type \in RegisterTypes /\ r.relative \in BOOLEAN
  BY RegisterFields
<1> DEFINE dcls == DclsOf(p, "output", r.number)
           old == IsVs(p) /\ p.major < 3
<1>2. r.type = "output" => Name(p, r) \in {<<"out.oT", r.number>>, <<"out.position", 0>>,
                                           <<"out.o", r.number>>}
  <2> HIDE DEF dcls, old
  <2>1. r.type = "output" =>
          Name(p, r) = IF old THEN <<"out.oT", r.number>>
                       ELSE IF IsVs(p) /\ dcls # <<>> /\ IsPosition(Head(dcls))
                         THEN <<"out.position", 0>>
                       ELSE <<"out.o", r.number>>
    BY DEF Name, dcls, old
  <2> QED BY <2>1
<1>3. r.type # "output"
  BY <1>2
<1>4. r.type = "other" => Name(p, r)[1] = "UNKNOWN"
  BY DEF Name
<1> DEFINE k == r.number
           t == r.type
<1>5. /\ t = "temp" => Name(p, r) = <<"r", k>>
      /\ t = "input" => Name(p, r) = <<"in.v", k>>
      /\ t = "addr" => Name(p, r) \in {<<"a", k>>, <<"in.t", k>>}
      /\ t = "rastout" => Name(p, r) \in {<<"out.pointsize", 0>>, <<"out.position", 0>>,
                                           <<"out.fog", 0>>}
      /\ t = "attrout" => Name(p, r) = <<"out.oD", k>>
      /\ t = "colorout" => Name(p, r) = <<"oC", k>>
  <2>1. t = "addr" => Name(p, r) \in {<<"a", k>>, <<"in.t", k>>}
    <3>1. t = "addr" =>
            Name(p, r) = IF IsVs(p) THEN <<"a", r.number>> ELSE <<"in.t", r.number>>
      BY NameIs, Zenon
    <3> QED BY <3>1
  <2>2. t = "rastout" => Name(p, r) \in {<<"out.pointsize", 0>>, <<"out.position", 0>>,
                                          <<"out.fog", 0>>}
    <3>1. t = "rastout" =>
            Name(p, r) \in {<<"out.pointsize", 0>>}
                            \cup (IF r.number = 0 THEN {<<"out.position", 0>>} ELSE {})
                            \cup (IF r.number = 1 THEN {<<"out.fog", 0>>} ELSE {})
      BY NameIs, Zenon
    <3> DEFINE n == Name(p, r)
    <3>2. t = "rastout" =>
            n \in {<<"out.pointsize", 0>>}
                   \cup (IF k = 0 THEN {<<"out.position", 0>>} ELSE {})
                   \cup (IF k = 1 THEN {<<"out.fog", 0>>} ELSE {})
      BY <3>1, Zenon
    <3> HIDE DEF n, k, t
    <3>3. t = "rastout" => n \in {<<"out.pointsize", 0>>, <<"out.position", 0>>,
                                   <<"out.fog", 0>>}
      BY <3>2
    <3> QED BY <3>3 DEF n
  <2>3. /\ t = "temp" => Name(p, r) = <<"r", k>>
        /\ t = "input" => Name(p, r) = <<"in.v", k>>
        /\ t = "attrout" => Name(p, r) = <<"out.oD", k>>
        /\ t = "colorout" => Name(p, r) = <<"oC", k>>
    BY NameIs, Zenon
  <2> QED BY <2>1, <2>2, <2>3
<1>6. /\ t = "depthout" => Name(p, r) = <<"oDepth", 0>>
      /\ t = "sampler" => Name(p, r) = <<"s", k>>
      /\ t = "constint" => Name(p, r) = <<"i", k>>
      /\ t = "constbool" => Name(p, r) = <<"b", k>>
      /\ t = "misctype" => Name(p, r) \in {<<"in.position", 0>>, <<"in.front_facing", 0>>}
  BY NameIs
<1>7. t = "const" /\ ~r.relative => Name(p, r) \in {<<"c", k>>, <<"c_def", k>>}
  BY NameIs
<1> DEFINE name == Name(p, r)
<1>8. t \in RegisterTypes /\ name[1] = "c[a0]"
  BY <1>1
<1> HIDE DEF t, k, name
<1>9. t \notin {"temp", "input", "addr", "rastout", "attrout", "colorout"}
  BY <1>5, <1>8 DEF name
<1>10. t \notin {"depthout", "sampler", "constint", "constbool", "misctype", "other",
                 "output"}
  BY <1>3, <1>4, <1>6, <1>8 DEF name, t
<1>11. t = "const"
  BY <1>8, <1>9, <1>10 DEF RegisterTypes, LowTypes
<1>12. t = "const" => r.relative
  BY <1>1, <1>7, <1>8 DEF name
<1> QED BY <1>11, <1>12 DEF t

\* Whatever a register's name stands for.
LEMMA NamesCovered ==
    ASSUME prog \in Programs, NEW r \in Registers, Provided(prog, r), Counted(prog, r),
           NEW name \in NamesIn(prog, r)
    PROVE  Covered(name)
<1>1. Covered(Name(prog, r))
  BY VsCovered, PsCovered
<1>2. CASE name = Name(prog, r)
  BY <1>1, <1>2
<1>3. CASE name = <<"a", 0>> /\ Name(prog, r)[1] = "c[a0]"
  <2>1. r.type = "const" /\ r.relative
    BY <1>3, NamedIndexed
  <2>2. IsVs(prog) /\ Writes(prog, "addr", 0)
    BY <2>1 DEF Provided
  <2>3. Has(Declarations(prog), <<"a", 0>>)
    BY <2>2, VsHas, WritesAddress, Zenon DEF VsHave
  <2> QED BY <1>3, <2>3 DEF Covered
<1> QED BY <1>2, <1>3 DEF NamesIn

\* The texture that an instruction reads.
LEMMA TextureCovered ==
    ASSUME prog \in Programs, NEW n, HasTexture(prog, n)
    PROVE  Covered(<<"tex", n>>)
<1> DEFINE name == <<"tex", n>>
<1>1. name[1] = "tex"
  OBVIOUS
<1>2. CASE IsVs(prog)
  <2> HIDE DEF name
  <2>1. KnownGap(name)
    BY <1>1, <1>2 DEF KnownGap
  <2> QED BY <2>1 DEF Covered, Excused, name
<1>3. CASE ~IsVs(prog)
  <2>1. PICK d \in ToSet(prog.dcls) : d.reg.type = "sampler" /\ d.reg.number = n
    BY <1>3 DEF HasTexture
  <2>2. Has(Declarations(prog), <<"tex", d.reg.number>>)
    BY <1>3, <2>1, PsHas, Zenon DEF PsHave
  <2> QED BY <2>1, <2>2 DEF Covered
<1> QED BY <1>2, <1>3

LEMMA NoNames ==
    ASSUME NEW p \in Programs
    PROVE  \A l \in ToSet(Declarations(p)) : l.names = {}
<1>1. CASE IsVs(p)
  <2>1. ToSet(Declarations(p)) = ToSet(VsInputs(p)) \cup ToSet(VsRest(p))
    BY <1>1, DeclarationsAre
  <2>2. \A l \in ToSet(VsRest(p)) : l.names = {}
    BY VsRestNames DEF DeclaresOnly
  <2>3. ASSUME NEW l \in ToSet(VsInputs(p)) PROVE l.names = {}
    <3>1. PICK d : l = Attribute(d)
      BY <2>3, VsInputsAre
    <3> QED BY <3>1 DEF Attribute, Declared
  <2> QED BY <2>1, <2>2, <2>3
<1>2. CASE ~IsVs(p)
  <2>1. Declarations(p) = PsDeclarations(p)
    BY <1>2 DEF Declarations
  <2> QED BY <1>2, <2>1, PsDeclarationsNames DEF DeclaresOnly
<1> QED BY <1>1, <1>2

\* In the text of a shader that declares what it uses, and an instruction of
\* which writes the outputs that are read, each name that a statement uses is
\* declared, apart from the constants of the game and the names that the emitter
\* leaves out for any shader.
THEOREM UsesAreDeclared == Spec => [](DeclaresWhatItUses(prog) => UsedIsDeclared)
<1>1. ASSUME TInv, AllCounted(prog), DeclaresWhatItUses(prog), status = "translated"
      PROVE  \A name \in UsedNames \ DeclaredNames :
               name[1] \in {"c", "c[a0]"} \/ KnownGap(name)
  <2> DEFINE n == Len(prog.insts)
             s == Declarations(prog)
             b == Body(prog, n)
  <2>1. prog \in Programs
    BY <1>1 DEF TInv, ParseType
  <2>2. n \in Nat /\ n <= n
    <3>1. n \in Nat
      BY <2>1, ProgramFields
    <3> HIDE DEF n
    <3> QED BY <3>1
  <2>3. msl = s \o b
    BY <1>1 DEF TInv, Finished, AllWritten
  <2>4. IsSeq(s) /\ IsSeq(b)
    BY <2>1, <2>2, DeclarationsAre, BodyStates DEF StatesOnly
  <2>5. IsSeq(msl) /\ ToSet(msl) = ToSet(s) \cup ToSet(b)
    <3> HIDE DEF s, b
    <3> QED BY <2>3, <2>4, ConcatIsSeq
  <2> SUFFICES ASSUME NEW name \in UsedNames \ DeclaredNames
               PROVE  Excused(name)
    BY Zenon DEF Excused
  <2>6. PICK i \in DOMAIN msl : name \in msl[i].names
    BY DEF UsedNames
  <2> DEFINE l == msl[i]
  <2>7. l \in ToSet(msl) /\ name \in l.names
    BY <2>6 DEF ToSet
  <2> HIDE DEF l
  <2>8. l \in ToSet(b)
    BY <2>1, <2>5, <2>7, NoNames
  <2>9. PICK inst \in ToSet(prog.insts) : name \in NamesOf(prog, inst)
    BY <2>1, <2>2, <2>7, <2>8, BodyNames
  <2>10. ASSUME NEW r \in RegsOf(inst), name \in NamesIn(prog, r)
         PROVE  Covered(name)
    <3>1. r \in Registers /\ Provided(prog, r) /\ Counted(prog, r)
      BY <1>1, <2>1, UsesCounted
    <3> QED BY <2>1, <2>10, <3>1, NamesCovered
  <2>11. ASSUME inst.op \in Sampled, name = <<"tex", inst.src[2].number>>
         PROVE  Covered(name)
    <3>1. 2 \in DOMAIN inst.src
      BY <2>1, <2>11, SampledOperands
    <3>2. HasTexture(prog, inst.src[2].number)
      BY <1>1, <2>11, <3>1, Zenon DEF DeclaresWhatItUses
    <3> QED BY <2>1, <2>11, <3>2, TextureCovered
  <2>12. Covered(name)
    BY <2>9, <2>10, <2>11, Zenon DEF NamesOf
  <2>13. ~Has(s, name)
    <3> SUFFICES ASSUME Has(s, name) PROVE FALSE
      OBVIOUS
    <3>1. PICK d \in ToSet(s) : d.text = "declare" /\ d.dst = name
      BY Zenon DEF Has
    <3>2. d \in ToSet(msl)
      BY <2>5
    <3>3. PICK j \in DOMAIN msl : msl[j] = d
      BY <3>2 DEF ToSet
    <3>4. msl[j].text = "declare" /\ msl[j].dst = name
      BY <3>1, <3>3
    <3>5. name \in DeclaredNames
      BY <3>4 DEF DeclaredNames
    <3> QED BY <3>5
  <2> QED BY <2>12, <2>13 DEF Covered
<1>2. TInv /\ AllCounted(prog) => (DeclaresWhatItUses(prog) => UsedIsDeclared)
  BY <1>1 DEF UsedIsDeclared
<1> QED BY <1>2, AlwaysCounted, PTL
-----------------------------------------------------------------------------
\* A translation ends: no turn of the parser or of the emitter is in vain.

\* The dwords that the parser has not passed.
Ahead == IF pos <= shader.count THEN shader.count + 1 - pos ELSE 0

\* A bound of the steps that are left: one for each dword not passed, one for
\* each instruction there is room for or that is not yet written, and those
\* between the phases.
StepsLeft ==
  CASE status = "version" -> shader.count + MaxInstructions + 4
    [] status = "parsing" -> Ahead + MaxInstructions + 3
    [] status = "parsed" -> MaxInstructions + 2
    [] status = "emitting" -> Len(prog.insts) - done + 1
    [] OTHER -> 0

\* What a turn of the loop does: it gives the shader up or passes a dword that
\* belongs to the shader.
TurnPasses ==
  \/ Fail
  \/ /\ pos <= shader.count /\ status' = "parsing" /\ shader' = shader
     /\ pos' \in Nat /\ pos' > pos

LEMMA ContinuePasses ==
    ASSUME ParseType, NEW ops, At(ops), NEW p, NEW n \in Nat, Continue(p, n)
    PROVE  TurnPasses
<1>1. pos \in Nat /\ pos <= shader.count /\ status = "parsing"
  BY AtTyped
<1>2. pos' = pos + 1 + n /\ shader' = shader /\ status' = status
  BY DEF Continue
<1>3. pos' \in Nat /\ pos' > pos
  BY <1>1, <1>2
<1> QED BY <1>1, <1>2, <1>3 DEF TurnPasses

\* Every step of the parser reads the version, ends the parsing or passes a dword.
LEMMA ParsePasses ==
    ASSUME ParseType, Parse
    PROVE  \/ ReadVersion
           \/ status = "parsing" /\ TurnPasses
           \/ status = "parsing" /\ status' = "parsed" /\ shader' = shader
<1>1. CASE Comment
  <2>1. At({"comment"})
    BY <1>1 DEF Comment
  <2>2. Current.len \in Nat /\ status = "parsing"
    BY <2>1, AtTyped, OpcodeTyped
  <2>3. Fail \/ Continue(prog, Current.len)
    BY <1>1 DEF Comment
  <2> QED BY <2>1, <2>2, <2>3, ContinuePasses DEF TurnPasses
<1>2. CASE Dcl
  <2>1. At({"dcl"})
    BY <1>2 DEF Dcl
  <2>2. Fail \/ \E p : Continue(p, 2)
    BY <1>2, Zenon DEF Dcl
  <2>3. status = "parsing" /\ 2 \in Nat
    BY <2>1 DEF At
  <2> QED BY <2>1, <2>2, <2>3, ContinuePasses, Zenon DEF TurnPasses
<1>3. CASE Def
  <2> DEFINE size == IF Opcode(Current) = "defb" THEN 2 ELSE 5
  <2>1. At(Defs)
    BY <1>3 DEF Def
  <2>2. Fail \/ \E p : Continue(p, size)
    BY <1>3, Zenon DEF Def
  <2>3. status = "parsing" /\ size \in Nat
    BY <2>1 DEF At
  <2> HIDE DEF size
  <2> QED BY <2>1, <2>2, <2>3, ContinuePasses, Zenon DEF TurnPasses
<1>4. ASSUME NEW ops, NEW n \in Nat, Control(ops, n)
      PROVE  status = "parsing" /\ TurnPasses
  <2>1. At(ops)
    BY <1>4 DEF Control
  <2>2. Fail \/ \E p : Continue(p, n)
    BY <1>4, Zenon DEF Control
  <2>3. status = "parsing"
    BY <2>1 DEF At
  <2> QED BY <2>1, <2>2, <2>3, ContinuePasses, Zenon DEF TurnPasses
<1>5. CASE Compare \/ Test \/ Mark
  <2>1. 0 \in Nat /\ 1 \in Nat /\ 2 \in Nat
    OBVIOUS
  <2> QED BY <1>4, <1>5, <2>1, Zenon DEF Compare, Test, Mark
<1>6. CASE Regular
  <2>1. At(Arithmetic)
    BY <1>6, Zenon DEF Regular
  <2>2. Fail \/ \E n \in Nat : \E p : Continue(p, n)
    BY <1>6, RegularMakes, Zenon
  <2>3. status = "parsing"
    BY <2>1 DEF At
  <2> QED BY <2>1, <2>2, <2>3, ContinuePasses, Zenon DEF TurnPasses
<1>7. CASE Unknown \/ MissingEnd
  BY <1>7 DEF Unknown, MissingEnd, At, TurnPasses
<1>8. CASE End
  BY <1>8 DEF End, At
<1> QED BY <1>1, <1>2, <1>3, <1>5, <1>6, <1>7, <1>8, Zenon DEF Parse

\* What the bound is in each phase.
LEMMA BoundOfPhase ==
    /\ status = "version" => StepsLeft = shader.count + MaxInstructions + 4
    /\ status = "parsing" => StepsLeft = Ahead + MaxInstructions + 3
    /\ status = "parsed" => StepsLeft = MaxInstructions + 2
    /\ status = "emitting" => StepsLeft = Len(prog.insts) - done + 1
    /\ status \in {"translated", "failed"} => StepsLeft = 0
<1> DEFINE n == Len(prog.insts)
<1>1. status = "version" => StepsLeft = shader.count + MaxInstructions + 4
  BY DEF StepsLeft
<1>2. status = "parsing" => StepsLeft = Ahead + MaxInstructions + 3
  BY DEF StepsLeft
<1>3. status = "parsed" => StepsLeft = MaxInstructions + 2
  BY DEF StepsLeft
<1>4. status = "emitting" => StepsLeft = n - done + 1
  BY DEF StepsLeft
<1>5. status \in {"translated", "failed"} => StepsLeft = 0
  BY DEF StepsLeft
<1> QED BY <1>1, <1>2, <1>3, <1>4, <1>5

LEMMA BoundTyped ==
    ASSUME TInv
    PROVE  /\ shader.count \in Nat /\ MaxInstructions \in Nat /\ pos \in Nat
           /\ Ahead \in 0..(shader.count + 1) /\ done \in Nat
           /\ Len(prog.insts) \in Nat /\ done <= Len(prog.insts)
           /\ Len(prog.insts) <= MaxInstructions
           /\ status = "parsing" => pos >= 2
<1>1. shader.count \in Nat /\ pos \in Nat /\ (status = "parsing" => pos >= 2)
  BY ShadersTyped DEF TInv, ParseType
<1>2. MaxInstructions \in Nat
  BY LimitsAssumption
<1>3. prog \in Programs /\ Len(prog.insts) <= MaxInstructions
  BY DEF TInv, ParseType, Fit
<1>4. Len(prog.insts) \in Nat
  <2>1. prog.insts \in Seq(Instructions)
    BY <1>3, ProgramFields
  <2> QED BY <2>1
<1>5. done \in Nat /\ done <= Len(prog.insts)
  <2> DEFINE n == Len(prog.insts)
  <2>1. done \in 0..n /\ n \in Nat
    BY <1>4 DEF TInv, BufferType
  <2> HIDE DEF n
  <2>2. done \in Nat /\ done <= n
    BY <2>1
  <2> QED BY <2>2 DEF n
<1>6. Ahead \in 0..(shader.count + 1)
  <2> DEFINE c == shader.count
  <2>1. c \in Nat /\ pos \in Nat
    BY <1>1
  <2>2. Ahead = IF pos <= c THEN c + 1 - pos ELSE 0
    BY DEF Ahead
  <2> HIDE DEF c
  <2>3. Ahead \in 0..(c + 1)
    BY <2>1, <2>2
  <2> QED BY <2>3 DEF c
<1> QED BY <1>1, <1>2, <1>3, <1>4, <1>5, <1>6

LEMMA ParseCounts ==
    ASSUME TInv, Parse, done' = done
    PROVE  StepsLeft' < StepsLeft
<1> DEFINE c == shader.count
           m == MaxInstructions
           a == Ahead
<1>1. c \in Nat /\ m \in Nat /\ pos \in Nat /\ a \in 0..(c + 1)
  BY BoundTyped
<1>2. a = IF pos <= c THEN c + 1 - pos ELSE 0
  BY DEF Ahead
<1>3. /\ status = "version" => StepsLeft = c + m + 4
      /\ status = "parsing" => StepsLeft = a + m + 3
  BY BoundOfPhase
<1>4. CASE status \in {"version", "parsing"} /\ Fail
  <2>1. StepsLeft' = 0
    BY <1>4 DEF StepsLeft, Fail
  <2> HIDE DEF a, c, m
  <2>2. StepsLeft > 0
    BY <1>1, <1>3, <1>4
  <2> QED BY <2>1, <2>2
<1>5. CASE ReadVersion
  <2>1. status = "version" /\ (Fail \/ /\ c >= 2 /\ pos' = 2 /\ status' = "parsing"
                                       /\ shader' = shader)
    BY <1>1, <1>5 DEF ReadVersion
  <2>2. CASE /\ status = "version" /\ c >= 2 /\ pos' = 2 /\ status' = "parsing"
             /\ shader' = shader
    <3>1. StepsLeft' = Ahead' + m + 3
      BY <2>2 DEF StepsLeft
    <3>2. Ahead' = IF 2 <= c THEN c + 1 - 2 ELSE 0
      BY <2>2 DEF Ahead
    <3> DEFINE b == Ahead'
    <3> HIDE DEF a, b, c, m
    <3>3. StepsLeft' = b + m + 3 /\ b = c - 1
      BY <1>1, <2>2, <3>1, <3>2 DEF b
    <3>4. StepsLeft = c + m + 4
      BY <1>3, <2>2
    <3> QED BY <1>1, <3>3, <3>4
  <2> QED BY <1>4, <2>1, <2>2
<1>6. CASE status = "parsing" /\ TurnPasses
  <2>1. CASE /\ pos <= c /\ status' = "parsing" /\ shader' = shader
             /\ pos' \in Nat /\ pos' > pos
    <3>1. StepsLeft' = Ahead' + m + 3
      BY <2>1 DEF StepsLeft
    <3> DEFINE b == Ahead'
               q == pos'
    <3>2. b = IF q <= c THEN c + 1 - q ELSE 0
      BY <2>1 DEF Ahead
    <3>3. StepsLeft' = b + m + 3 /\ StepsLeft = a + m + 3 /\ pos <= c /\ q \in Nat /\ q > pos
      BY <1>3, <1>6, <2>1, <3>1
    <3> HIDE DEF a, b, c, m, q
    <3>4. b < a /\ b \in Nat
      BY <1>1, <1>2, <3>2, <3>3
    <3> QED BY <1>1, <3>3, <3>4
  <2> QED BY <1>4, <1>6, <2>1 DEF TurnPasses
<1>7. CASE status = "parsing" /\ status' = "parsed"
  <2>1. StepsLeft' = m + 2
    BY <1>7 DEF StepsLeft
  <2>2. StepsLeft = a + m + 3
    BY <1>3, <1>7
  <2> HIDE DEF a, c, m
  <2> QED BY <1>1, <2>1, <2>2
<1>8. ParseType
  BY DEF TInv
<1> HIDE DEF a, c, m
<1> QED BY <1>5, <1>6, <1>7, <1>8, ParsePasses, Zenon

LEMMA NextCounts ==
    ASSUME TInv, Next
    PROVE  StepsLeft' < StepsLeft
<1> DEFINE n == Len(prog.insts)
           m == MaxInstructions
<1>1. m \in Nat /\ n \in Nat /\ n <= m /\ done \in Nat /\ done <= n
  BY BoundTyped
<1>2. /\ status = "parsed" => StepsLeft = m + 2
      /\ status = "emitting" => StepsLeft = n - done + 1
  BY BoundOfPhase
<1>3. CASE Parse /\ UNCHANGED <<msl, error, done>>
  BY <1>3, ParseCounts
<1>4. CASE Declare
  <2>1. status = "parsed" /\ status' \in {"emitting", "failed"}
        /\ prog' = prog /\ done' = done
    BY <1>4 DEF Declare
  <2>2. StepsLeft' = IF status' = "emitting" THEN n - done + 1 ELSE 0
    BY <2>1 DEF StepsLeft
  <2> HIDE DEF n, m
  <2> QED BY <1>1, <1>2, <2>1, <2>2
<1>5. CASE EmitInstruction
  <2>1. status = "emitting" /\ status' = "emitting" /\ prog' = prog
        /\ done' = done + 1
    BY <1>5 DEF EmitInstruction, parseVars
  <2>2. StepsLeft' = n - done' + 1
    BY <2>1 DEF StepsLeft
  <2> HIDE DEF n, m
  <2> QED BY <1>1, <1>2, <2>1, <2>2
<1>6. CASE Finish
  <2>1. status = "emitting" /\ status' \in {"translated", "failed"}
    BY <1>6 DEF Finish
  <2>2. StepsLeft' = 0
    BY <2>1 DEF StepsLeft
  <2> HIDE DEF n, m
  <2> QED BY <1>1, <1>2, <2>1, <2>2
<1> QED BY <1>3, <1>4, <1>5, <1>6 DEF Next

\* A shader is translated or given up within a number of steps that is known
\* before it is read: the bound is a natural number no larger than the dwords of
\* the shader and the instructions there is room for, and every step of
\* parse_shader or of the emitter makes it smaller, whatever the dwords say.
StepsCounted == [](StepsLeft \in 0..(shader.count + MaxInstructions + 4))
EveryStepCounts == [][StepsLeft' < StepsLeft]_vars

THEOREM TranslationBounded == Spec => StepsCounted /\ EveryStepCounts
<1>1. ASSUME TInv
      PROVE  StepsLeft \in 0..(shader.count + MaxInstructions + 4)
  <2> DEFINE n == Len(prog.insts)
             m == MaxInstructions
             c == shader.count
             a == Ahead
             l == StepsLeft
  <2>1. /\ c \in Nat /\ m \in Nat /\ a \in 0..(c + 1) /\ n \in Nat /\ n <= m
        /\ done \in Nat /\ done <= n
    BY <1>1, BoundTyped
  <2>2. status \in Statuses
    BY <1>1 DEF TInv, ParseType
  <2>3. \/ l = c + m + 4 \/ l = a + m + 3 \/ l = m + 2 \/ l = n - done + 1 \/ l = 0
    BY <2>2, BoundOfPhase DEF Statuses
  <2> HIDE DEF n, m, c, a, l
  <2>4. l \in 0..(c + m + 4)
    BY <2>1, <2>3
  <2> QED BY <2>4 DEF l, c, m
<1>2. TInv /\ [Next]_vars => [StepsLeft' < StepsLeft]_vars
  BY NextCounts
<1> QED BY <1>1, <1>2, Invariant, PTL DEF Spec, StepsCounted, EveryStepCounts
=============================================================================
