-------------------------- MODULE CommandLineProofs --------------------------
(***************************************************************************)
(* Facts about command lines, for any options FFmpeg may have: how a line  *)
(* made of fragments is read, what becomes of it when the runner replaces  *)
(* the encoder, and that each use case makes such a line.                  *)
(***************************************************************************)
EXTENDS CommandLine, FiniteSetTheorems, SequenceTheorems, TLAPS
-----------------------------------------------------------------------------
(* Induction and recursion up to a number. *)

LEMMA LeastNatural ==
    ASSUME NEW T, T \subseteq Nat, T # {}
    PROVE  \E x \in T : \A y \in T : x <= y
<1> DEFINE R == OpToRel(<, Nat)
<1>1. IsWellFoundedOn(R, Nat)
  BY NatLessThanWellFounded
<1>2. \A x, y \in Nat : <<y, x>> \in R <=> y < x
  <2>1. R = {ss \in Nat \X Nat : ss[1] < ss[2]}
    BY DEF OpToRel
  <2> HIDE DEF R
  <2> QED BY <2>1
<1> HIDE DEF R
<1>3. PICK x \in T : \A y \in T : ~(<<y, x>> \in R)
  BY <1>1, WFMin
<1>4. ASSUME NEW y \in T PROVE x <= y
  <2>1. x \in Nat /\ y \in Nat
    OBVIOUS
  <2>2. ~(y < x)
    BY <1>2, <1>3, <2>1
  <2> QED BY ONLY <2>1, <2>2
<1> QED BY <1>4

LEMMA GreatestNatural ==
    ASSUME NEW n \in Nat, NEW T, T \subseteq 0 .. n, T # {}
    PROVE  \E x \in T : \A y \in T : y <= x
<1> DEFINE U == {n - y : y \in T}
<1>1. U \subseteq Nat /\ U # {}
  <2>1. \A y \in T : n - y \in Nat /\ n - y \in U
    OBVIOUS
  <2> QED BY <2>1
<1>2. PICK u \in U : \A v \in U : u <= v
  BY <1>1, LeastNatural
<1>3. PICK x \in T : u = n - x
  OBVIOUS
<1>4. \A y \in T : n - x <= n - y
  BY <1>2, <1>3
<1> QED BY <1>4

LEMMA UpTo ==
    ASSUME NEW n \in Nat, NEW T, 0 \in T, \A i \in 1 .. n : i - 1 \in T => i \in T
    PROVE  0 .. n \subseteq T
<1> DEFINE Left == {i \in 0 .. n : i \notin T}
<1> SUFFICES ASSUME Left # {} PROVE FALSE
  OBVIOUS
<1>1. Left \subseteq Nat /\ \A i \in Left : i \in 0 .. n /\ i \notin T
  OBVIOUS
<1>2. PICK x \in Left : \A y \in Left : x <= y
  <2> HIDE DEF Left
  <2> QED BY <1>1, LeastNatural
<1>3. x \in 1 .. n /\ x - 1 \in 0 .. n
  BY <1>1
<1> QED BY <1>2, <1>3

\* f is the values of a loop over 1 .. n.
Repeats(f, n, V, base, step) ==
    /\ f \in [0 .. n -> V]
    /\ f[0] = base
    /\ \A i \in 1 .. n : f[i] = step[<<f[i - 1], i>>]

LEMMA Recursion ==
    ASSUME NEW n \in Nat, NEW V, NEW base \in V, NEW step \in [V \X (1 .. n) -> V]
    PROVE  \E f : Repeats(f, n, V, base, step)
<1> DEFINE Defines(f, m) == f[0] = base /\ \A i \in 1 .. m : f[i] = step[<<f[i - 1], i>>]
           Defined(m) == \E f \in [0 .. m -> V] : Defines(f, m)
           T == {m \in 0 .. n : Defined(m)}
<1>1. Defined(0)
  <2> DEFINE f == [i \in 0 .. 0 |-> base]
  <2>1. f \in [0 .. 0 -> V] /\ Defines(f, 0)
    OBVIOUS
  <2> HIDE DEF f, Defines
  <2> QED BY <2>1
<1>2. ASSUME NEW m \in 1 .. n, Defined(m - 1) PROVE Defined(m)
  <2>1. PICK f \in [0 .. m - 1 -> V] : Defines(f, m - 1)
    BY <1>2
  <2> DEFINE g == [i \in 0 .. m |-> IF i = m THEN step[<<f[m - 1], m>>] ELSE f[i]]
  <2>2. f[m - 1] \in V /\ <<f[m - 1], m>> \in V \X (1 .. n)
    OBVIOUS
  <2>3. g \in [0 .. m -> V]
    BY <2>2
  <2>4. g[0] = base
    BY <2>1
  <2>5. ASSUME NEW i \in 1 .. m PROVE g[i] = step[<<g[i - 1], i>>]
    <3>1. CASE i = m
      <4>1. g[m] = step[<<f[m - 1], m>>] /\ g[m - 1] = f[m - 1]
        OBVIOUS
      <4> QED BY ONLY <3>1, <4>1
    <3>2. CASE i # m
      <4>1. i \in 1 .. m - 1 /\ i - 1 \in 0 .. m - 1
        BY <3>2
      <4>2. g[i] = f[i] /\ g[i - 1] = f[i - 1]
        BY <4>1
      <4> QED BY <2>1, <4>1, <4>2
    <3> QED BY <3>1, <3>2
  <2>6. Defines(g, m)
    BY <2>4, <2>5
  <2> HIDE DEF g, Defines
  <2> QED BY <2>3, <2>6
<1> HIDE DEF Defined
<1>3. 0 \in T /\ \A i \in 1 .. n : i - 1 \in T => i \in T
  BY <1>1, <1>2
<1>4. 0 .. n \subseteq T
  <2> HIDE DEF T
  <2> QED BY <1>3, UpTo
<1>5. Defined(n)
  BY <1>4
<1> QED BY <1>5 DEF Defined, Repeats
-----------------------------------------------------------------------------
(* How a line is read. *)

\* An option with an argument has it next, and it is no option; and every word that is no
\* option is such an argument.
Fragment(words) ==
    /\ words \in Seq(Words)
    /\ \A i \in 1 .. Len(words) :
          /\ words[i] \in WithArgument => i < Len(words) /\ words[i + 1] \notin Options
          /\ words[i] \notin Options => i > 1 /\ words[i - 1] \in WithArgument

Line(words) == words \o <<"output">>

LEMMA PlacesStep ==
    ASSUME NEW command \in Seq(Words)
    PROVE  \A i \in 1 .. Len(command) :
              i \in Places(command)
                <=> i = 1 \/ ~(i - 1 \in Places(command) /\ command[i - 1] \in WithArgument)
<1> DEFINE n == Len(command)
           Body(f) == [i \in 0 .. n |->
                          i > 0 /\ ~(f[i - 1] /\ command[i - 1] \in WithArgument)]
           isPlace == CHOOSE f : f = Body(f)
<1>0. n \in Nat /\ DOMAIN command = 1 .. n
  OBVIOUS
<1>1. Places(command) = {i \in DOMAIN command : isPlace[i]}
  BY DEF Places
<1> HIDE DEF n
<1>2. \E f : f = Body(f)
  <2> DEFINE step == [p \in BOOLEAN \X (1 .. n) |->
                         ~(p[1] /\ command[p[2] - 1] \in WithArgument)]
  <2>1. step \in [BOOLEAN \X (1 .. n) -> BOOLEAN]
    OBVIOUS
  <2>2. \A b \in BOOLEAN, i \in 1 .. n :
           step[<<b, i>>] = ~(b /\ command[i - 1] \in WithArgument)
    OBVIOUS
  <2> HIDE DEF step
  <2>3. PICK f \in [0 .. n -> BOOLEAN] :
           f[0] = FALSE /\ \A i \in 1 .. n : f[i] = step[<<f[i - 1], i>>]
    <3>1. FALSE \in BOOLEAN
      OBVIOUS
    <3>2. PICK f : Repeats(f, n, BOOLEAN, FALSE, step)
      BY <1>0, <2>1, <3>1, Recursion
    <3> QED BY <3>2 DEF Repeats
  <2>4. ASSUME NEW i \in 0 .. n
        PROVE  f[i] = (i > 0 /\ ~(f[i - 1] /\ command[i - 1] \in WithArgument))
    <3>1. CASE i = 0
      <4>1. ~(i > 0) /\ f[i] = FALSE
        BY <2>3, <3>1
      <4> QED BY <4>1, Zenon
    <3>2. CASE i # 0
      <4>1. i > 0 /\ i \in 1 .. n /\ i - 1 \in 0 .. n
        BY <1>0, <3>2
      <4>2. f[i] = step[<<f[i - 1], i>>] /\ f[i - 1] \in BOOLEAN
        BY <2>3, <4>1, Zenon
      <4>3. f[i] = ~(f[i - 1] /\ command[i - 1] \in WithArgument)
        BY <2>2, <4>1, <4>2, Zenon
      <4> QED BY <4>1, <4>3, Zenon
    <3> QED BY <3>1, <3>2
  <2>5. f = Body(f)
    BY <2>3, <2>4
  <2> QED BY <2>5
<1>3. isPlace = Body(isPlace)
  BY <1>2
<1> HIDE DEF isPlace
<1>4. ASSUME NEW i \in 0 .. n
      PROVE  isPlace[i] = (i > 0 /\ ~(isPlace[i - 1] /\ command[i - 1] \in WithArgument))
  <2>1. isPlace[i] = Body(isPlace)[i]
    BY <1>3
  <2> QED BY <2>1
<1> HIDE DEF Body
<1>5. ~isPlace[0]
  <2>1. 0 \in 0 .. n /\ ~(0 > 0)
    BY <1>0
  <2> QED BY <1>4, <2>1, Zenon
<1>6. ASSUME NEW i \in 1 .. n
      PROVE  i \in Places(command)
                <=> i = 1 \/ ~(i - 1 \in Places(command) /\ command[i - 1] \in WithArgument)
  <2>1. isPlace[i] = ~(isPlace[i - 1] /\ command[i - 1] \in WithArgument)
    BY <1>0, <1>4
  <2>2. i = 1 \/ (i - 1 \in Places(command) <=> isPlace[i - 1])
    BY <1>0, <1>1
  <2>3. i \in Places(command) <=> isPlace[i]
    BY <1>0, <1>1
  <2>4. CASE i = 1
    <3>1. ~isPlace[i - 1]
      BY <1>5, <2>4
    <3>2. isPlace[i]
      BY <2>1, <3>1, Zenon
    <3> QED BY <2>3, <2>4, <3>2, Zenon
  <2> QED BY <2>1, <2>2, <2>3, <2>4, Zenon
<1> QED BY <1>6 DEF n

At(words, option) == {i \in DOMAIN words : words[i] = option}

\* No rate is called libx264.
KeepsRates(words) == \A i \in DOMAIN words : words[i] \in RateControls => words[i + 1] # CPU

LEMMA OwnWords ==
    /\ OwnOptions \subseteq WithArgument /\ WithArgument \subseteq Options
    /\ Options \subseteq Words
    /\ \A word \in OwnArguments : word \in Words /\ word \notin Options
    /\ Modes \subseteq OwnArguments /\ CPU \in Modes
    /\ "output" \notin Options /\ "output" \in Words
BY OptionsAssumption DEF Options, OwnArguments, Modes

LEMMA LineProperties ==
    ASSUME NEW f, Fragment(f)
    PROVE  /\ Len(f) \in Nat /\ f \in Seq(Words)
           /\ Line(f) \in Seq(Words)
           /\ Len(Line(f)) = Len(f) + 1
           /\ \A i \in 1 .. Len(f) : Line(f)[i] = f[i]
           /\ Line(f)[Len(f) + 1] = "output"
           /\ Line(f)[Len(Line(f))] = "output"
<1>1. f \in Seq(Words) /\ Len(f) \in Nat /\ "output" \in Words
  BY OwnWords DEF Fragment
<1>2. Line(f) = Append(f, "output")
  BY <1>1, AppendIsConcat DEF Line
<1> QED BY <1>1, <1>2, AppendProperties

LEMMA LinePlaces ==
    ASSUME NEW f, Fragment(f)
    PROVE  Places(Line(f)) = {i \in 1 .. Len(f) : f[i] \in Options} \cup {Len(f) + 1}
<1> DEFINE n == Len(f)
           c == Line(f)
           Right(i) == i \in Places(c) <=> (i = n + 1 \/ f[i] \in Options)
           T == {i \in 0 .. n + 1 : i = 0 \/ Right(i)}
<1>1. /\ n \in Nat /\ c \in Seq(Words) /\ Len(c) = n + 1 /\ DOMAIN c = 1 .. n + 1
      /\ \A i \in 1 .. n : c[i] = f[i]
  BY LineProperties
<1>2. Places(c) \subseteq 1 .. n + 1
  BY <1>1 DEF Places
<1>3. WithArgument \subseteq Options
  BY OwnWords
<1>4. \A i \in 1 .. n : /\ f[i] \in WithArgument => i < n /\ f[i + 1] \notin Options
                        /\ f[i] \notin Options => i > 1 /\ f[i - 1] \in WithArgument
  BY DEF Fragment
<1> HIDE DEF c, n
<1>5. ASSUME NEW i \in 1 .. n + 1, i = 1 \/ Right(i - 1) PROVE Right(i)
  <2>1. i \in Places(c) <=> i = 1 \/ ~(i - 1 \in Places(c) /\ c[i - 1] \in WithArgument)
    BY <1>1, PlacesStep
  <2>2. CASE i = 1
    BY <1>1, <1>4, <2>1, <2>2
  <2>3. CASE i # 1
    <3>1. i - 1 \in 1 .. n /\ c[i - 1] = f[i - 1] /\ (i = n + 1 \/ i \in 1 .. n)
      BY <1>1, <2>3
    <3>2. f[i - 1] \in WithArgument => i - 1 \in Places(c)
      BY <1>3, <1>5, <2>3, <3>1
    <3>3. i \in Places(c) <=> f[i - 1] \notin WithArgument
      BY <2>1, <2>3, <3>1, <3>2
    <3> QED BY <1>1, <1>4, <3>1, <3>3
  <2> QED BY <2>2, <2>3
<1>6. 0 \in T /\ n + 1 \in Nat
  BY <1>1
<1>7. ASSUME NEW i \in 1 .. n + 1, i - 1 \in T PROVE i \in T
  <2>1. i = 1 \/ Right(i - 1)
    BY <1>1, <1>7
  <2> HIDE DEF Right
  <2> QED BY <1>5, <2>1
<1> HIDE DEF Right
<1>8. 0 .. n + 1 \subseteq T
  <2> HIDE DEF T
  <2> QED BY <1>6, <1>7, UpTo
<1>9. \A i \in 1 .. n + 1 : i \in Places(c) <=> (i = n + 1 \/ f[i] \in Options)
  BY <1>1, <1>8 DEF Right
<1> QED BY <1>1, <1>2, <1>9 DEF c, n

LEMMA LinePlacesOf ==
    ASSUME NEW f, Fragment(f), NEW option \in Options
    PROVE  PlacesOf(Line(f), option) = At(f, option)
<1>1. DOMAIN f = 1 .. Len(f)
  BY DEF Fragment
<1> QED BY <1>1, LineProperties, LinePlaces, OwnWords DEF PlacesOf, At

LEMMA LineOutputs ==
    ASSUME NEW f, Fragment(f)
    PROVE  OutputsOf(Line(f)) = {Len(f) + 1}
BY LineProperties, LinePlaces, OwnWords DEF OutputsOf

LEMMA LineValue ==
    ASSUME NEW f, Fragment(f), NEW option \in WithArgument
    PROVE  /\ At(f, option) = {} => ValueOf(Line(f), option) = "none"
           /\ At(f, option) # {} =>
                 \E i \in At(f, option) : /\ \A k \in At(f, option) : k <= i
                                          /\ i + 1 \in DOMAIN f
                                          /\ ValueOf(Line(f), option) = f[i + 1]
<1> DEFINE at == At(f, option)
<1>1. PlacesOf(Line(f), option) = at
  BY LinePlacesOf, OwnWords
<1>2. CASE at = {}
  BY <1>1, <1>2 DEF ValueOf
<1>3. CASE at # {}
  <2>1. at \subseteq 0 .. Len(f) /\ Len(f) \in Nat
    BY LineProperties DEF At
  <2>2. \E i \in at : \A k \in at : k <= i
    <3> HIDE DEF at
    <3> QED BY <1>3, <2>1, GreatestNatural
  <2> DEFINE m == CHOOSE i \in at : \A k \in at : k <= i
  <2>3. m \in at /\ \A k \in at : k <= m
    BY <2>2
  <2>4. ValueOf(Line(f), option) = Line(f)[1 + m]
    BY <1>1, <1>3 DEF ValueOf
  <2> HIDE DEF m
  <2>5. m \in 1 .. Len(f) /\ m < Len(f)
    BY <2>3 DEF At, Fragment
  <2>6. 1 + m = m + 1 /\ m + 1 \in 1 .. Len(f) /\ DOMAIN f = 1 .. Len(f)
    BY <2>1, <2>5 DEF Fragment
  <2>7. Line(f)[m + 1] = f[m + 1]
    BY <2>6, LineProperties
  <2>8. ValueOf(Line(f), option) = f[m + 1]
    BY <2>4, <2>6, <2>7
  <2> QED BY <1>3, <2>3, <2>6, <2>8
<1> QED BY <1>2, <1>3

\* h is f and g, one after the other.
Joins(h, f, g) ==
    /\ Fragment(h)
    /\ \A option : At(h, option) = {} <=> At(f, option) = {} /\ At(g, option) = {}
    /\ \A option \in WithArgument :
          At(g, option) = {} =>
             At(h, option) = At(f, option) /\ \A i \in At(f, option) : h[i + 1] = f[i + 1]
    /\ KeepsRates(f) /\ KeepsRates(g) => KeepsRates(h)

LEMMA Concatenation ==
    ASSUME NEW f, NEW g, Fragment(f), Fragment(g)
    PROVE  Joins(f \o g, f, g)
<1> DEFINE h == f \o g
           m == Len(f)
           n == Len(g)
<1>1. /\ m \in Nat /\ n \in Nat /\ h \in Seq(Words) /\ Len(h) = m + n
      /\ DOMAIN h = 1 .. m + n /\ DOMAIN f = 1 .. m /\ DOMAIN g = 1 .. n
      /\ \A i \in 1 .. m : h[i] = f[i]
      /\ \A i \in 1 .. n : h[m + i] = g[i]
  BY DEF Fragment
<1>2. \A i \in 1 .. m : /\ f[i] \in WithArgument => i < m /\ f[i + 1] \notin Options
                        /\ f[i] \notin Options => i > 1 /\ f[i - 1] \in WithArgument
  BY DEF Fragment
<1>3. \A i \in 1 .. n : /\ g[i] \in WithArgument => i < n /\ g[i + 1] \notin Options
                        /\ g[i] \notin Options => i > 1 /\ g[i - 1] \in WithArgument
  BY DEF Fragment
<1> HIDE DEF h, m, n
<1>4. ASSUME NEW i \in 1 .. m + n
      PROVE  /\ h[i] \in WithArgument => i < m + n /\ h[i + 1] \notin Options
             /\ h[i] \notin Options => i > 1 /\ h[i - 1] \in WithArgument
  <2>1. CASE i \in 1 .. m
    BY <1>1, <1>2, <2>1
  <2>2. CASE i \notin 1 .. m
    <3>1. PICK k \in 1 .. n : i = m + k
      <4>1. i - m \in 1 .. n /\ i = m + (i - m)
        BY <1>1, <2>2
      <4> QED BY <4>1
    <3>2. h[i] = g[k]
      BY <1>1, <3>1
    <3>3. k < n => k + 1 \in 1 .. n /\ i + 1 = m + (k + 1)
      BY <1>1, <3>1
    <3>4. k > 1 => k - 1 \in 1 .. n /\ i - 1 = m + (k - 1)
      BY <1>1, <3>1
    <3> QED BY <1>1, <1>3, <3>1, <3>2, <3>3, <3>4
  <2> QED BY <2>1, <2>2
<1>5. Fragment(h)
  BY <1>1, <1>4 DEF Fragment
<1>6. \A i \in 1 .. m + n : i \in 1 .. m \/ \E k \in 1 .. n : i = m + k
  <2>1. ASSUME NEW i \in 1 .. m + n, i \notin 1 .. m PROVE \E k \in 1 .. n : i = m + k
    <3>1. i - m \in 1 .. n /\ i = m + (i - m)
      BY <1>1, <2>1
    <3> QED BY <3>1
  <2> QED BY <2>1
<1>7. ASSUME NEW option PROVE At(h, option) = {} <=> At(f, option) = {} /\ At(g, option) = {}
  <2>1. ASSUME NEW i \in At(f, option) PROVE i \in At(h, option)
    BY <1>1 DEF At
  <2>2. ASSUME NEW i \in At(g, option) PROVE m + i \in At(h, option)
    BY <1>1 DEF At
  <2>3. ASSUME NEW i \in At(h, option) PROVE At(f, option) # {} \/ At(g, option) # {}
    <3>1. i \in 1 .. m + n /\ h[i] = option
      BY <1>1 DEF At
    <3>2. CASE i \in 1 .. m
      BY <1>1, <3>1, <3>2 DEF At
    <3>3. ASSUME NEW k \in 1 .. n, i = m + k PROVE k \in At(g, option)
      BY <1>1, <3>1, <3>3 DEF At
    <3> QED BY <1>6, <3>1, <3>2, <3>3
  <2> QED BY <2>1, <2>2, <2>3
<1>8. ASSUME NEW option \in WithArgument, At(g, option) = {}
      PROVE  /\ At(h, option) = At(f, option)
             /\ \A i \in At(f, option) : h[i + 1] = f[i + 1]
  <2>1. ASSUME NEW i \in At(h, option) PROVE i \in At(f, option)
    <3>1. i \in 1 .. m + n /\ h[i] = option
      BY <1>1 DEF At
    <3>2. ASSUME NEW k \in 1 .. n, i = m + k PROVE k \in At(g, option)
      BY <1>1, <3>1, <3>2 DEF At
    <3>3. i \in 1 .. m
      BY <1>6, <1>8, <3>1, <3>2
    <3> QED BY <1>1, <3>1, <3>3 DEF At
  <2>2. At(f, option) \subseteq At(h, option)
    BY <1>1 DEF At
  <2>3. \A i \in At(f, option) : h[i + 1] = f[i + 1]
    BY <1>1, <1>2 DEF At
  <2> QED BY <2>1, <2>2, <2>3
<1>9. ASSUME KeepsRates(f), KeepsRates(g), NEW i \in 1 .. m + n, h[i] \in RateControls
      PROVE  h[i + 1] # CPU
  <2>1. h[i] \in WithArgument
    BY <1>9, OwnWords DEF OwnOptions
  <2>2. CASE i \in 1 .. m
    BY <1>1, <1>2, <1>9, <2>1, <2>2 DEF KeepsRates
  <2>3. ASSUME NEW k \in 1 .. n, i = m + k PROVE h[i + 1] # CPU
    <3>1. h[i] = g[k] /\ k < n
      BY <1>1, <1>3, <2>1, <2>3
    <3>2. k + 1 \in 1 .. n /\ i + 1 = m + (k + 1)
      BY <1>1, <2>3, <3>1
    <3> QED BY <1>1, <1>9, <3>1, <3>2 DEF KeepsRates
  <2> QED BY <1>6, <2>2, <2>3
<1>10. KeepsRates(f) /\ KeepsRates(g) => KeepsRates(h)
  BY <1>1, <1>9 DEF KeepsRates
<1>11. Joins(h, f, g)
  BY <1>5, <1>7, <1>8, <1>10 DEF Joins
<1> QED BY <1>11 DEF h, m, n

-----------------------------------------------------------------------------
(* What the runner makes of a line. *)

Substituted(word, encoder) == IF word = CPU THEN encoder ELSE word

LoopStates == [skip : BOOLEAN, result : Seq(Words)]

LEMMA RewriteCases ==
    ASSUME NEW s \in LoopStates, NEW word \in Words, NEW encoder \in Words,
           NEW new, new = Rewrite(s, word, encoder)
    PROVE  /\ new \in LoopStates
           /\ s.skip => ~new.skip /\ new.result = s.result
           /\ ~s.skip /\ word \in X264Only => new.skip /\ new.result = s.result
           /\ ~s.skip /\ word \notin X264Only =>
                 ~new.skip /\ new.result = Append(s.result, Substituted(word, encoder))
<1>1. s.skip \in BOOLEAN /\ s.result \in Seq(Words)
  BY DEF LoopStates
<1>2. CASE s.skip
  <2>1. new = [s EXCEPT !.skip = FALSE]
    BY <1>2 DEF Rewrite
  <2> QED BY <1>1, <1>2, <2>1 DEF LoopStates
<1>3. CASE ~s.skip /\ word \in X264Only
  <2>1. new = [s EXCEPT !.skip = TRUE]
    BY <1>3 DEF Rewrite
  <2> QED BY <1>1, <1>3, <2>1 DEF LoopStates
<1>4. CASE ~s.skip /\ word \notin X264Only
  <2>1. new = [s EXCEPT !.result = Append(@, Substituted(word, encoder))]
    BY <1>4 DEF Rewrite, Substituted
  <2>2. Append(s.result, Substituted(word, encoder)) \in Seq(Words)
    BY <1>1 DEF Substituted
  <2> QED BY <1>1, <1>4, <2>1, <2>2 DEF LoopStates
<1> QED BY <1>1, <1>2, <1>3, <1>4

\* f is the states of substituteEncoder's loop over a line.
LoopOver(f, args, encoder) ==
    /\ f \in [0 .. Len(args) -> LoopStates]
    /\ ~f[0].skip /\ f[0].result = <<>>
    /\ \A i \in 1 .. Len(args) : f[i] = Rewrite(f[i - 1], args[i], encoder)

LEMMA RewrittenByLoop ==
    ASSUME NEW args \in Seq(Words), NEW encoder \in Words
    PROVE  \E f : LoopOver(f, args, encoder) /\ Rewritten(args, encoder) = f[Len(args)].result
<1> DEFINE n == Len(args)
           base == [skip |-> FALSE, result |-> <<>>]
           Body(f) == [i \in 0 .. n |-> IF i = 0 THEN base ELSE Rewrite(f[i - 1], args[i], encoder)]
           loop == CHOOSE f : f = Body(f)
<1>0. n \in Nat /\ \A i \in 1 .. n : args[i] \in Words
  OBVIOUS
<1>1. Rewritten(args, encoder) = loop[n].result
  BY DEF Rewritten
<1>2. base \in LoopStates /\ ~base.skip /\ base.result = <<>>
  BY DEF LoopStates
<1> HIDE DEF n, base
<1>3. PICK f : f = Body(f) /\ f \in [0 .. n -> LoopStates]
  <2> DEFINE step == [p \in LoopStates \X (1 .. n) |-> Rewrite(p[1], args[p[2]], encoder)]
  <2>1. \A s \in LoopStates, i \in 1 .. n : Rewrite(s, args[i], encoder) \in LoopStates
    BY <1>0, RewriteCases
  <2>2. step \in [LoopStates \X (1 .. n) -> LoopStates]
    BY <2>1
  <2>3. \A s \in LoopStates, i \in 1 .. n : step[<<s, i>>] = Rewrite(s, args[i], encoder)
    OBVIOUS
  <2> HIDE DEF step
  <2>4. PICK f : Repeats(f, n, LoopStates, base, step)
    BY <1>0, <1>2, <2>2, Recursion
  <2>5. ASSUME NEW i \in 0 .. n
        PROVE  f[i] = IF i = 0 THEN base ELSE Rewrite(f[i - 1], args[i], encoder)
    BY <1>0, <2>3, <2>4 DEF Repeats
  <2>6. f = Body(f)
    BY <2>4, <2>5 DEF Repeats
  <2> QED BY <2>4, <2>6 DEF Repeats
<1>4. loop = Body(loop)
  BY <1>3
<1> HIDE DEF loop
<1>5. ASSUME NEW i \in 0 .. n
      PROVE  loop[i] = IF i = 0 THEN base ELSE Rewrite(loop[i - 1], args[i], encoder)
  BY <1>4
<1>6. DOMAIN loop = 0 .. n
  BY <1>4
<1> HIDE DEF Body
<1>7. loop[0] = base /\ \A i \in 1 .. n : loop[i] = Rewrite(loop[i - 1], args[i], encoder)
  BY <1>0, <1>5
<1> DEFINE T == {i \in 0 .. n : loop[i] \in LoopStates}
<1>8. 0 .. n \subseteq T
  <2>1. 0 \in T
    BY <1>0, <1>2, <1>7
  <2>2. ASSUME NEW i \in 1 .. n, i - 1 \in T PROVE i \in T
    <3>1. loop[i - 1] \in LoopStates /\ args[i] \in Words /\ i \in 0 .. n
      BY <1>0, <2>2
    <3>2. Rewrite(loop[i - 1], args[i], encoder) \in LoopStates
      BY <3>1, RewriteCases
    <3> QED BY <1>7, <3>1, <3>2
  <2> HIDE DEF T
  <2> QED BY <1>0, <2>1, <2>2, UpTo
<1>9. \A i \in 0 .. n : loop[i] \in LoopStates
  BY <1>8
<1>10. loop = [i \in 0 .. n |-> loop[i]]
  BY <1>4, <1>6 DEF Body
<1>11. loop \in [0 .. n -> LoopStates]
  BY <1>9, <1>10
<1>12. LoopOver(loop, args, encoder)
  BY <1>2, <1>7, <1>11 DEF LoopOver, n
<1> QED BY <1>1, <1>12 DEF n

\* The places that the loop leaves in: not those of libx264's flags and of their values.
Left(f) ==
    {i \in DOMAIN f : f[i] \notin X264Only /\ (i > 1 => f[i - 1] \notin X264Only)}

\* g is what is left of the first i words of f; e says where its words were.
Copies(g, e, f, i, encoder) ==
    /\ g \in Seq(Words)
    /\ e \in [1 .. Len(g) -> Left(f)]
    /\ \A k \in 1 .. Len(g) : e[k] <= i /\ g[k] = Substituted(f[e[k]], encoder)
    /\ \A k, m \in 1 .. Len(g) : k < m => e[k] < e[m]
    /\ \A p \in Left(f) : p <= i => \E k \in 1 .. Len(g) : e[k] = p

LEMMA CopiesMore ==
    ASSUME NEW f \in Seq(Words), NEW encoder \in Words, NEW i \in 1 .. Len(f),
           NEW g, NEW e, Copies(g, e, f, i - 1, encoder)
    PROVE  /\ i \notin Left(f) => Copies(g, e, f, i, encoder)
           /\ i \in Left(f) =>
                 \E d : Copies(Append(g, Substituted(f[i], encoder)), d, f, i, encoder)
<1>0. /\ Len(f) \in Nat /\ DOMAIN f = 1 .. Len(f) /\ g \in Seq(Words) /\ Len(g) \in Nat
      /\ Left(f) \subseteq 1 .. Len(f)
  BY DEF Copies, Left
<1>1. ASSUME i \notin Left(f) PROVE Copies(g, e, f, i, encoder)
  <2>1. \A p \in Left(f) : p <= i => p <= i - 1
    BY <1>0, <1>1
  <2>2. \A k \in 1 .. Len(g) : e[k] \in Left(f) /\ e[k] <= i - 1 => e[k] <= i
    BY <1>0
  <2> QED BY <2>1, <2>2 DEF Copies
<1>2. ASSUME i \in Left(f)
      PROVE  \E d : Copies(Append(g, Substituted(f[i], encoder)), d, f, i, encoder)
  <2> DEFINE word == Substituted(f[i], encoder)
             h == Append(g, word)
             n == Len(g)
             d == [k \in 1 .. n + 1 |-> IF k = n + 1 THEN i ELSE e[k]]
  <2>1. word \in Words
    BY <1>0 DEF Substituted
  <2>2. /\ h \in Seq(Words) /\ Len(h) = n + 1 /\ h[n + 1] = word
        /\ \A k \in 1 .. n : h[k] = g[k]
    BY <1>0, <2>1, AppendProperties
  <2>3. ASSUME NEW k \in 1 .. n PROVE e[k] \in Left(f) /\ e[k] \in Nat /\ e[k] <= i - 1
    <3>1. e[k] \in Left(f) /\ e[k] <= i - 1
      BY DEF Copies
    <3> QED BY <1>0, <3>1
  <2>4. n \in Nat /\ d[n + 1] = i /\ \A k \in 1 .. n : d[k] = e[k]
    BY <1>0
  <2>5. d \in [1 .. n + 1 -> Left(f)]
    BY <1>2, <2>3
  <2> HIDE DEF h, d, n
  <2>6. ASSUME NEW k \in 1 .. n + 1
        PROVE  d[k] <= i /\ h[k] = Substituted(f[d[k]], encoder)
    <3>1. CASE k = n + 1
      BY <2>2, <2>4, <3>1
    <3>2. CASE k \in 1 .. n
      <4>1. g[k] = Substituted(f[e[k]], encoder)
        BY <3>2 DEF Copies, n
      <4> QED BY <2>2, <2>3, <2>4, <3>2, <4>1
    <3> QED BY <2>4, <3>1, <3>2
  <2>7. ASSUME NEW k \in 1 .. n + 1, NEW m \in 1 .. n + 1, k < m PROVE d[k] < d[m]
    <3>1. k \in 1 .. n /\ d[k] = e[k]
      BY <2>4, <2>7
    <3>2. CASE m = n + 1
      BY <2>3, <2>4, <3>1, <3>2
    <3>3. CASE m \in 1 .. n
      BY <2>4, <2>7, <3>1, <3>3 DEF Copies, n
    <3> QED BY <2>4, <3>2, <3>3
  <2>8. ASSUME NEW p \in Left(f), p <= i PROVE \E k \in 1 .. n + 1 : d[k] = p
    <3>1. CASE p = i
      BY <2>4, <3>1
    <3>2. CASE p # i
      <4>1. p <= i - 1
        BY <1>0, <2>8, <3>2
      <4>2. PICK k \in 1 .. n : e[k] = p
        BY <4>1 DEF Copies, n
      <4> QED BY <2>4, <4>2
    <3> QED BY <3>1, <3>2
  <2>9. Copies(h, d, f, i, encoder)
    BY <2>2, <2>5, <2>6, <2>7, <2>8 DEF Copies
  <2> QED BY <2>9 DEF h
<1> QED BY <1>1, <1>2

LEMMA RewrittenLine ==
    ASSUME NEW f, Fragment(f), NEW encoder \in Modes
    PROVE  \E g, e : Copies(g, e, f, Len(f), encoder) /\ Rewritten(Line(f), encoder) = Line(g)
<1> DEFINE n == Len(f)
           c == Line(f)
<1>1. /\ n \in Nat /\ f \in Seq(Words) /\ c \in Seq(Words) /\ Len(c) = n + 1
      /\ \A i \in 1 .. n : c[i] = f[i] /\ c[i] \in Words
      /\ c[n + 1] = "output" /\ "output" \in Words /\ "output" \notin Options
  BY LineProperties, OwnWords
<1>2. encoder \in Words
  BY OwnWords
<1>3. PICK loop : LoopOver(loop, c, encoder) /\ Rewritten(c, encoder) = loop[n + 1].result
  BY <1>1, <1>2, RewrittenByLoop
<1>4. \A i \in 1 .. n : /\ f[i] \in WithArgument => i < n /\ f[i + 1] \notin Options
                        /\ f[i] \notin Options => i > 1 /\ f[i - 1] \in WithArgument
  BY DEF Fragment
<1>5. X264Only \subseteq WithArgument /\ X264Only \subseteq Options
  BY OwnWords DEF OwnOptions
<1> HIDE DEF n, c
<1> DEFINE Skips(i) == loop[i].skip <=> i > 0 /\ f[i] \in X264Only
           Kept(i) == \E e : Copies(loop[i].result, e, f, i, encoder)
           T == {i \in 0 .. n : Skips(i) /\ Kept(i)}
<1>6. Skips(0) /\ Kept(0)
  <2>1. ~loop[0].skip /\ loop[0].result = <<>>
    BY <1>3 DEF LoopOver
  <2>2. Copies(<<>>, <<>>, f, 0, encoder)
    <3>1. \A p \in Left(f) : ~(p <= 0)
      BY <1>1 DEF Left
    <3>2. <<>> \in Seq(Words) /\ Len(<<>>) = 0 /\ 1 .. 0 = {}
      OBVIOUS
    <3>3. <<>> \in [1 .. 0 -> Left(f)]
      OBVIOUS
    <3> QED BY <3>1, <3>2, <3>3 DEF Copies
  <2> QED BY <2>1, <2>2
<1>7. ASSUME NEW i \in 1 .. n, Skips(i - 1), Kept(i - 1) PROVE Skips(i) /\ Kept(i)
  <2>1. /\ loop[i - 1] \in LoopStates /\ loop[i] = Rewrite(loop[i - 1], f[i], encoder)
        /\ f[i] \in Words
    BY <1>1, <1>3 DEF LoopOver
  <2>2. PICK e : Copies(loop[i - 1].result, e, f, i - 1, encoder)
    BY <1>7
  <2>3. /\ i \notin Left(f) => Copies(loop[i - 1].result, e, f, i, encoder)
        /\ i \in Left(f) =>
              \E d : Copies(Append(loop[i - 1].result, Substituted(f[i], encoder)), d, f, i, encoder)
    BY <1>1, <1>2, <2>2, CopiesMore DEF n
  <2>4. loop[i - 1].skip <=> i > 1 /\ f[i - 1] \in X264Only
    BY <1>1, <1>7
  <2>5. i \in Left(f) <=> f[i] \notin X264Only /\ ~loop[i - 1].skip
    BY <1>1, <2>4 DEF Left, n
  <2>6. loop[i - 1].skip => f[i] \notin X264Only
    BY <1>1, <1>4, <1>5, <2>4
  <2> HIDE DEF Skips
  <2>7. CASE loop[i - 1].skip
    <3>1. ~loop[i].skip /\ loop[i].result = loop[i - 1].result
      BY <1>2, <2>1, <2>7, RewriteCases
    <3> QED BY <2>3, <2>5, <2>6, <2>7, <3>1 DEF Skips
  <2>8. CASE ~loop[i - 1].skip /\ f[i] \in X264Only
    <3>1. loop[i].skip /\ loop[i].result = loop[i - 1].result
      BY <1>2, <2>1, <2>8, RewriteCases
    <3> QED BY <1>1, <2>3, <2>5, <2>8, <3>1 DEF Skips
  <2>9. CASE ~loop[i - 1].skip /\ f[i] \notin X264Only
    <3>1. /\ ~loop[i].skip
          /\ loop[i].result = Append(loop[i - 1].result, Substituted(f[i], encoder))
      BY <1>2, <2>1, <2>9, RewriteCases
    <3> QED BY <2>3, <2>5, <2>9, <3>1 DEF Skips
  <2> QED BY <2>7, <2>8, <2>9
<1>8. Skips(n) /\ Kept(n)
  <2> HIDE DEF Skips, Kept
  <2>1. 0 \in T
    BY <1>1, <1>6
  <2>2. ASSUME NEW i \in 1 .. n, i - 1 \in T PROVE i \in T
    BY <1>1, <1>7, <2>2
  <2>3. 0 .. n \subseteq T
    <3> HIDE DEF T
    <3> QED BY <1>1, <2>1, <2>2, UpTo
  <2> QED BY <1>1, <2>3
<1>9. ~loop[n].skip
  BY <1>1, <1>4, <1>5, <1>8
<1>10. loop[n] \in LoopStates /\ loop[n + 1] = Rewrite(loop[n], "output", encoder)
  <2>1. n \in 0 .. n + 1 /\ n + 1 \in 1 .. n + 1 /\ (n + 1) - 1 = n
    BY <1>1
  <2> QED BY <1>1, <1>3, <2>1 DEF LoopOver
<1>11. loop[n + 1].result = Append(loop[n].result, "output")
  <2>1. "output" \notin X264Only /\ Substituted("output", encoder) = "output"
    BY <1>1, <1>5 DEF Substituted, CPU
  <2> QED BY <1>1, <1>2, <1>9, <1>10, <2>1, RewriteCases
<1>12. PICK e : Copies(loop[n].result, e, f, n, encoder)
  BY <1>8
<1>13. Append(loop[n].result, "output") = Line(loop[n].result)
  BY <1>1, <1>12, AppendIsConcat DEF Copies, Line
<1>14. /\ Copies(loop[n].result, e, f, Len(f), encoder)
       /\ Rewritten(Line(f), encoder) = Line(loop[n].result)
  BY <1>3, <1>11, <1>12, <1>13 DEF n, c
<1> QED BY <1>14

\* An option stands in g where it stood in f, in the same order, with the same arguments.
Mirrors(g, f, option, encoder) ==
    \E e \in Bijection(At(g, option), At(f, option)) :
        /\ \A k, m \in At(g, option) : k < m => e[k] < e[m]
        /\ \A k \in At(g, option) : g[k + 1] = Substituted(f[e[k] + 1], encoder)

LEMMA SubstitutedOption ==
    ASSUME NEW word, NEW encoder \in Modes
    PROVE  /\ word \in Options => Substituted(word, encoder) = word
           /\ word \notin Options => Substituted(word, encoder) \notin Options
<1>1. encoder \notin Options /\ CPU \notin Options
  BY OwnWords
<1> QED BY <1>1 DEF Substituted

LEMMA CopiesMirror ==
    ASSUME NEW f, Fragment(f), NEW encoder \in Modes, NEW g, NEW e,
           Copies(g, e, f, Len(f), encoder)
    PROVE  /\ Fragment(g)
           /\ \A option \in X264Only : At(g, option) = {}
           /\ \A option \in WithArgument \ X264Only : Mirrors(g, f, option, encoder)
<1> DEFINE n == Len(f)
           l == Len(g)
<1>0. n \in Nat /\ l \in Nat /\ g \in Seq(Words) /\ DOMAIN f = 1 .. n /\ DOMAIN g = 1 .. l
  BY DEF Fragment, Copies
<1>1. \A i \in 1 .. n : /\ f[i] \in WithArgument => i < n /\ f[i + 1] \notin Options
                        /\ f[i] \notin Options => i > 1 /\ f[i - 1] \in WithArgument
  BY DEF Fragment
<1>2. X264Only \subseteq WithArgument /\ WithArgument \subseteq Options
  BY OwnWords DEF OwnOptions
<1>3. \A k \in 1 .. l : e[k] \in Left(f) /\ e[k] \in 1 .. n /\ g[k] = Substituted(f[e[k]], encoder)
  <2>1. Left(f) \subseteq 1 .. n
    BY <1>0 DEF Left
  <2>2. \A k \in 1 .. l : e[k] \in Left(f) /\ g[k] = Substituted(f[e[k]], encoder)
    BY DEF Copies
  <2> QED BY <2>1, <2>2
<1>4. \A k, m \in 1 .. l : k < m => e[k] < e[m]
  BY DEF Copies
<1>5. \A p \in Left(f) : \E k \in 1 .. l : e[k] = p
  <2>1. \A p \in Left(f) : p <= n
    BY <1>0 DEF Left
  <2> QED BY <2>1 DEF Copies
<1>6. \A p \in 1 .. n : p \in Left(f) <=> f[p] \notin X264Only /\ (p > 1 => f[p - 1] \notin X264Only)
  BY <1>0 DEF Left
<1> HIDE DEF n, l
\* What comes next, or came before, in f does so in g if it is left.
<1>7. ASSUME NEW k \in 1 .. l, e[k] + 1 \in Left(f)
      PROVE  k + 1 \in 1 .. l /\ e[k + 1] = e[k] + 1
  <2>1. PICK m \in 1 .. l : e[m] = e[k] + 1
    BY <1>5, <1>7
  <2>2. e[k] \in Nat /\ e[m] \in Nat
    BY <1>0, <1>3
  <2>3. k < m
    <3>1. m < k => e[m] < e[k]
      BY <1>4
    <3>2. m # k
      BY <2>1, <2>2
    <3> QED BY <1>0, <2>1, <2>2, <3>1, <3>2
  <2>4. k + 1 \in 1 .. l /\ k < k + 1
    BY <1>0, <2>3
  <2>5. e[k] < e[k + 1] /\ e[k + 1] \in Nat
    BY <1>0, <1>3, <1>4, <2>4
  <2>6. k + 1 < m => e[k + 1] < e[m]
    BY <1>4, <2>4
  <2> QED BY <1>0, <2>1, <2>2, <2>3, <2>4, <2>5, <2>6
<1>8. ASSUME NEW k \in 1 .. l, e[k] - 1 \in Left(f)
      PROVE  k - 1 \in 1 .. l /\ e[k - 1] = e[k] - 1
  <2>1. PICK m \in 1 .. l : e[m] = e[k] - 1
    BY <1>5, <1>8
  <2>2. e[k] \in Nat /\ e[m] \in Nat
    BY <1>0, <1>3
  <2>3. m < k
    <3>1. k < m => e[k] < e[m]
      BY <1>4
    <3>2. m # k
      BY <2>1, <2>2
    <3> QED BY <1>0, <2>1, <2>2, <3>1, <3>2
  <2>4. k - 1 \in 1 .. l /\ k - 1 < k
    BY <1>0, <2>3
  <2>5. e[k - 1] < e[k] /\ e[k - 1] \in Nat
    BY <1>0, <1>3, <1>4, <2>4
  <2>6. m < k - 1 => e[m] < e[k - 1]
    BY <1>4, <2>4
  <2> QED BY <1>0, <2>1, <2>2, <2>3, <2>4, <2>5, <2>6
<1>9. ASSUME NEW p \in Left(f), p \in 1 .. n, f[p] \in WithArgument
      PROVE  p + 1 \in Left(f) /\ f[p + 1] \notin Options
  <2>1. p < n /\ f[p + 1] \notin Options /\ f[p] \notin X264Only
    BY <1>1, <1>6, <1>9
  <2>2. p + 1 \in 1 .. n /\ (p + 1) - 1 = p /\ f[p + 1] \notin X264Only
    BY <1>0, <1>2, <1>9, <2>1
  <2> QED BY <1>6, <2>1, <2>2
<1>10. ASSUME NEW p \in Left(f), p \in 1 .. n, f[p] \notin Options
       PROVE  p - 1 \in Left(f) /\ f[p - 1] \in WithArgument
  <2>1. p > 1 /\ f[p - 1] \in WithArgument /\ f[p - 1] \notin X264Only
    BY <1>1, <1>6, <1>10
  <2>2. p - 1 \in 1 .. n
    BY <1>0, <1>10, <2>1
  <2>3. p - 1 > 1 => f[(p - 1) - 1] \notin X264Only
    <3>1. ASSUME p - 1 > 1 PROVE f[(p - 1) - 1] \notin WithArgument
      <4>1. (p - 1) - 1 \in 1 .. n /\ ((p - 1) - 1) + 1 = p - 1
        BY <1>0, <1>10, <3>1
      <4> QED BY <1>1, <1>2, <2>1, <4>1
    <3> QED BY <1>2, <3>1
  <2> QED BY <1>6, <2>1, <2>2, <2>3
<1>11. Fragment(g)
  <2>1. ASSUME NEW k \in 1 .. l, g[k] \in WithArgument
        PROVE  k < l /\ g[k + 1] \notin Options
    <3>1. f[e[k]] = g[k]
      BY <1>2, <1>3, <2>1, SubstitutedOption
    <3>2. e[k] + 1 \in Left(f) /\ f[e[k] + 1] \notin Options
      BY <1>3, <1>9, <2>1, <3>1
    <3>3. k + 1 \in 1 .. l /\ g[k + 1] = Substituted(f[e[k] + 1], encoder)
      BY <1>3, <1>7, <3>2
    <3> QED BY <1>0, <3>2, <3>3, SubstitutedOption
  <2>2. ASSUME NEW k \in 1 .. l, g[k] \notin Options
        PROVE  k > 1 /\ g[k - 1] \in WithArgument
    <3>1. f[e[k]] \notin Options
      BY <1>3, <2>2, SubstitutedOption
    <3>2. e[k] - 1 \in Left(f) /\ f[e[k] - 1] \in WithArgument
      BY <1>3, <1>10, <3>1
    <3>3. k - 1 \in 1 .. l /\ g[k - 1] = Substituted(f[e[k] - 1], encoder)
      BY <1>3, <1>8, <3>2
    <3>4. g[k - 1] = f[e[k] - 1]
      BY <1>2, <3>2, <3>3, SubstitutedOption
    <3> QED BY <1>0, <3>2, <3>3, <3>4
  <2> QED BY <1>0, <2>1, <2>2 DEF Fragment, l
<1>12. ASSUME NEW option \in X264Only PROVE At(g, option) = {}
  <2>1. ASSUME NEW k \in 1 .. l, g[k] = option PROVE FALSE
    <3>1. f[e[k]] = option
      BY <1>2, <1>3, <2>1, SubstitutedOption
    <3> QED BY <1>3, <1>6, <3>1
  <2> QED BY <1>0, <2>1 DEF At
<1>13. ASSUME NEW option \in WithArgument \ X264Only PROVE Mirrors(g, f, option, encoder)
  <2> DEFINE r == [k \in At(g, option) |-> e[k]]
  <2>1. ASSUME NEW k \in 1 .. l PROVE g[k] = option <=> f[e[k]] = option
    BY <1>2, <1>3, SubstitutedOption
  <2>2. ASSUME NEW p \in 1 .. n, f[p] = option PROVE p \in Left(f)
    <3>1. ASSUME p > 1 PROVE f[p - 1] \notin WithArgument
      <4>1. p - 1 \in 1 .. n /\ (p - 1) + 1 = p
        BY <1>0, <3>1
      <4> QED BY <1>1, <1>2, <2>2, <4>1
    <3> QED BY <1>2, <1>6, <2>2, <3>1
  <2>3. At(g, option) \subseteq 1 .. l /\ \A k \in At(g, option) : g[k] = option
    BY <1>0 DEF At
  <2>4. r \in [At(g, option) -> At(f, option)]
    <3>1. ASSUME NEW k \in At(g, option) PROVE e[k] \in At(f, option)
      BY <1>0, <1>3, <2>1, <2>3 DEF At
    <3> QED BY <3>1
  <2>5. ASSUME NEW p \in At(f, option) PROVE \E k \in At(g, option) : r[k] = p
    <3>1. p \in 1 .. n /\ f[p] = option
      BY <1>0 DEF At
    <3>2. PICK k \in 1 .. l : e[k] = p
      BY <1>5, <2>2, <3>1
    <3>3. k \in At(g, option)
      BY <1>0, <2>1, <3>1, <3>2 DEF At
    <3> QED BY <3>2, <3>3
  <2>6. ASSUME NEW k \in At(g, option), NEW m \in At(g, option), k < m PROVE r[k] < r[m]
    BY <1>4, <2>3, <2>6
  <2>7. ASSUME NEW k \in At(g, option), NEW m \in At(g, option), r[k] = r[m] PROVE k = m
    <3>1. k \in Nat /\ m \in Nat /\ r[k] \in Nat
      <4>1. k \in 1 .. l /\ m \in 1 .. l /\ r[k] = e[k]
        BY <2>3
      <4> QED BY <1>0, <1>3, <4>1
    <3>2. ~(k < m) /\ ~(m < k)
      BY <2>6, <2>7, <3>1
    <3> QED BY <3>1, <3>2
  <2>8. r \in Bijection(At(g, option), At(f, option))
    <3> HIDE DEF r
    <3> QED BY <2>4, <2>5, <2>7 DEF Bijection, Injection, Surjection, IsInjective
  <2>9. ASSUME NEW k \in At(g, option) PROVE g[k + 1] = Substituted(f[r[k] + 1], encoder)
    <3>1. k \in 1 .. l /\ f[e[k]] = option /\ r[k] = e[k]
      BY <2>1, <2>3
    <3>2. e[k] + 1 \in Left(f)
      BY <1>3, <1>9, <3>1
    <3> QED BY <1>3, <1>7, <3>1, <3>2
  <2> HIDE DEF r
  <2> QED BY <2>6, <2>8, <2>9 DEF Mirrors
<1> QED BY <1>11, <1>12, <1>13

\* Options and arguments in turn.
Alternates(f) ==
    /\ Len(f) % 2 = 0
    /\ \A i \in 1 .. Len(f) : IF i % 2 = 1 THEN f[i] \in WithArgument ELSE f[i] \notin Options

LEMMA AlternatesFragment ==
    ASSUME NEW f \in Seq(Words), Alternates(f)
    PROVE  Fragment(f)
<1>1. Len(f) \in Nat /\ WithArgument \subseteq Options
  BY OwnWords
<1>2. ASSUME NEW i \in 1 .. Len(f)
      PROVE  /\ f[i] \in WithArgument => i < Len(f) /\ f[i + 1] \notin Options
             /\ f[i] \notin Options => i > 1 /\ f[i - 1] \in WithArgument
  <2>1. CASE i % 2 = 1
    <3>1. i < Len(f) /\ i + 1 \in 1 .. Len(f) /\ (i + 1) % 2 # 1
      BY <1>1, <2>1 DEF Alternates
    <3>2. f[i] \in Options /\ f[i + 1] \notin Options
      BY <1>1, <2>1, <3>1 DEF Alternates
    <3> QED BY <3>1, <3>2
  <2>2. CASE i % 2 # 1
    <3>1. i > 1 /\ i - 1 \in 1 .. Len(f) /\ (i - 1) % 2 = 1
      BY <1>1, <2>2
    <3>2. f[i] \notin WithArgument /\ f[i - 1] \in WithArgument
      BY <1>1, <2>2, <3>1 DEF Alternates
    <3> QED BY <3>1, <3>2
  <2> QED BY <2>1, <2>2
<1> QED BY <1>2 DEF Fragment

LEMMA QualityFragment ==
    ASSUME NEW encoder \in Modes
    PROVE  Fragment(QualityFlags(encoder))
<1>1. /\ {"-gpu", "-pix_fmt", "-cq", "-b:v", "-maxrate"} \subseteq WithArgument \cap Options
      /\ {"0", "yuv420p", "20", "6M", "12M"} \subseteq Words \ Options
      /\ WithArgument \subseteq Words
  BY OwnWords DEF OwnOptions, OwnArguments, RateControls
<1>2. Fragment(<<>>)
  BY DEF Fragment
<1>3. Fragment(<<"-b:v", "6M">>)
  <2>1. <<"-b:v", "6M">> \in Seq(Words)
    BY <1>1
  <2>2. Alternates(<<"-b:v", "6M">>)
    BY <1>1 DEF Alternates
  <2> QED BY <2>1, <2>2, AlternatesFragment
<1>4. Fragment(<<"-b:v", "6M", "-maxrate", "12M">>)
  <2>1. <<"-b:v", "6M", "-maxrate", "12M">> \in Seq(Words)
    BY <1>1
  <2>2. Alternates(<<"-b:v", "6M", "-maxrate", "12M">>)
    BY <1>1 DEF Alternates
  <2> QED BY <2>1, <2>2, AlternatesFragment
<1>5. Fragment(<<"-gpu", "0", "-pix_fmt", "yuv420p", "-cq", "20", "-b:v", "0">>)
  <2>1. <<"-gpu", "0", "-pix_fmt", "yuv420p", "-cq", "20", "-b:v", "0">> \in Seq(Words)
    BY <1>1
  <2>2. Alternates(<<"-gpu", "0", "-pix_fmt", "yuv420p", "-cq", "20", "-b:v", "0">>)
    BY <1>1 DEF Alternates
  <2> QED BY <2>1, <2>2, AlternatesFragment
<1> QED BY <1>2, <1>3, <1>4, <1>5 DEF QualityFlags, Modes, NVENC, AMF, VAAPI, MF, CPU

LEMMA InjectLine ==
    ASSUME NEW g, Fragment(g), NEW encoder \in Modes
    PROVE  InjectEncoderQuality(Line(g), encoder)
              = Line(IF \E rate \in RateControls : At(g, rate) # {} THEN g
                     ELSE g \o QualityFlags(encoder))
<1> DEFINE n == Len(g)
           c == Line(g)
<1>1. /\ n \in Nat /\ g \in Seq(Words) /\ c \in Seq(Words) /\ Len(c) = n + 1
      /\ DOMAIN c = 1 .. n + 1 /\ DOMAIN g = 1 .. n
      /\ \A i \in 1 .. n : c[i] = g[i]
      /\ c[n + 1] = "output"
  BY LineProperties DEF Fragment
<1>2. "output" \notin RateControls
  BY OwnWords DEF OwnOptions
<1> HIDE DEF n, c
<1>3. c # <<>>
  BY <1>1
<1>4. (\E i \in DOMAIN c : c[i] \in RateControls) <=> (\E rate \in RateControls : At(g, rate) # {})
  <2>1. ASSUME NEW i \in DOMAIN c, c[i] \in RateControls PROVE i \in At(g, c[i])
    <3>1. i \in 1 .. n
      BY <1>1, <1>2, <2>1
    <3> QED BY <1>1, <3>1 DEF At
  <2>2. ASSUME NEW rate \in RateControls, NEW i \in At(g, rate)
        PROVE  i \in DOMAIN c /\ c[i] \in RateControls
    BY <1>1 DEF At
  <2> QED BY <2>1, <2>2
<1>5. Last(c) = "output"
  BY <1>1 DEF Last
<1>6. Front(c) = g
  <2>1. Front(c) = SubSeq(c, 1, n)
    BY <1>1 DEF Front
  <2>2. /\ SubSeq(c, 1, n) \in Seq(Words) /\ Len(SubSeq(c, 1, n)) = n
        /\ \A i \in 1 .. n : SubSeq(c, 1, n)[i] = c[i]
    BY <1>1
  <2>3. \A i \in 1 .. n : SubSeq(c, 1, n)[i] = g[i]
    BY <1>1, <2>2
  <2>4. Len(g) = n
    BY DEF n
  <2> QED BY <1>1, <2>1, <2>2, <2>3, <2>4, SeqEqual
<1>7. CASE \E rate \in RateControls : At(g, rate) # {}
  BY <1>4, <1>7 DEF InjectEncoderQuality, c
<1>8. CASE ~ \E rate \in RateControls : At(g, rate) # {}
  <2>1. InjectEncoderQuality(c, encoder) = Front(c) \o QualityFlags(encoder) \o <<Last(c)>>
    BY <1>3, <1>4, <1>8 DEF InjectEncoderQuality
  <2> QED BY <1>5, <1>6, <1>8, <2>1 DEF Line, c
<1> QED BY <1>7, <1>8

\* What is injected, and for whom.
Injected == {"-gpu", "-pix_fmt", "-cq", "-b:v", "-maxrate"}

LEMMA QualityOptions ==
    ASSUME NEW encoder \in Modes
    PROVE  LET q == QualityFlags(encoder)
           IN  /\ \A option \in WithArgument \ Injected : At(q, option) = {}
               /\ At(q, "-gpu") # {} => encoder = NVENC
               /\ At(q, "-maxrate") # {} => encoder = AMF
<1> DEFINE q == QualityFlags(encoder)
<1>1. {"0", "yuv420p", "20", "6M", "12M"} \cap WithArgument = {}
  BY OwnWords DEF OwnArguments
<1>2. \A i \in DOMAIN q : /\ q[i] \in Injected \cup {"0", "yuv420p", "20", "6M", "12M"}
                          /\ q[i] = "-gpu" => encoder = NVENC
                          /\ q[i] = "-maxrate" => encoder = AMF
  <2>1. CASE encoder = NVENC
    BY <2>1 DEF QualityFlags, Injected, NVENC, AMF, VAAPI, MF, CPU
  <2>2. CASE encoder = AMF
    BY <2>2 DEF QualityFlags, Injected, NVENC, AMF, VAAPI, MF, CPU
  <2>3. CASE encoder = MF
    BY <2>3 DEF QualityFlags, Injected, NVENC, AMF, VAAPI, MF, CPU
  <2>4. CASE encoder \in {VAAPI, CPU}
    <3>1. q = <<>>
      BY <2>4 DEF QualityFlags, NVENC, AMF, VAAPI, MF, CPU
    <3> QED BY <3>1
  <2> QED BY <2>1, <2>2, <2>3, <2>4 DEF Modes
<1> HIDE DEF q
<1>3. ASSUME NEW option \in WithArgument \ Injected PROVE At(q, option) = {}
  BY <1>1, <1>2 DEF At
<1>4. At(q, "-gpu") # {} => encoder = NVENC
  BY <1>2 DEF At
<1>5. At(q, "-maxrate") # {} => encoder = AMF
  BY <1>2 DEF At
<1> QED BY <1>3, <1>4, <1>5 DEF q

LEMMA MirrorsFacts ==
    ASSUME NEW f, Fragment(f), NEW h, Fragment(h), NEW encoder,
           NEW option \in WithArgument, Mirrors(h, f, option, encoder)
    PROVE  /\ At(h, option) = {} <=> At(f, option) = {}
           /\ Cardinality(At(h, option)) = Cardinality(At(f, option))
           /\ ValueOf(Line(h), option) = Substituted(ValueOf(Line(f), option), encoder)
<1> DEFINE A == At(h, option)
           B == At(f, option)
<1>1. PICK e \in Bijection(A, B) :
         /\ \A k, m \in A : k < m => e[k] < e[m]
         /\ \A k \in A : h[k + 1] = Substituted(f[e[k] + 1], encoder)
  BY DEF Mirrors
<1>2. /\ e \in [A -> B]
      /\ \A p \in B : \E k \in A : e[k] = p
  BY DEF Bijection, Surjection
<1>3. A \subseteq 1 .. Len(h) /\ Len(h) \in Nat /\ B \subseteq 1 .. Len(f) /\ Len(f) \in Nat
  BY DEF At, Fragment
<1>4. A = {} <=> B = {}
  BY <1>2
<1>5. Cardinality(A) = Cardinality(B)
  <2>1. IsFiniteSet(A)
    <3>1. IsFiniteSet(1 .. Len(h))
      BY <1>3, FS_Interval
    <3> HIDE DEF A
    <3> QED BY <1>3, <3>1, FS_Subset
  <2>2. ExistsBijection(A, B)
    BY DEF ExistsBijection
  <2> HIDE DEF A, B
  <2> QED BY <2>1, <2>2, FS_Bijection
<1>6. ValueOf(Line(h), option) = Substituted(ValueOf(Line(f), option), encoder)
  <2>1. CASE A = {}
    <3>1. ValueOf(Line(h), option) = "none" /\ ValueOf(Line(f), option) = "none"
      BY <1>4, <2>1, LineValue
    <3> QED BY <3>1 DEF Substituted, CPU
  <2>2. CASE A # {}
    <3>1. PICK k \in A : (\A m \in A : m <= k) /\ ValueOf(Line(h), option) = h[k + 1]
      BY <2>2, LineValue
    <3>2. PICK p \in B : (\A m \in B : m <= p) /\ ValueOf(Line(f), option) = f[p + 1]
      BY <1>4, <2>2, LineValue
    <3>3. PICK m \in A : e[m] = p
      BY <1>2
    <3>4. m = k
      <4>1. m \in Nat /\ k \in Nat /\ m <= k /\ e[k] \in B /\ e[k] \in Nat /\ p \in Nat /\ e[k] <= p
        BY <1>2, <1>3, <3>1, <3>2
      <4>2. m < k => e[m] < e[k]
        BY <1>1
      <4> QED BY <3>3, <4>1, <4>2
    <3> QED BY <1>1, <3>1, <3>2, <3>3, <3>4
  <2> QED BY <2>1, <2>2
<1> QED BY <1>4, <1>5, <1>6

\* What the runner makes of a line is a line, in which
SubstitutedAs(f, h, encoder) ==
    /\ Fragment(h)
    /\ SubstituteEncoder(Line(f), encoder) = Line(h)
    /\ encoder = CPU => h = f
    /\ encoder # CPU =>
          \* libx264's flags are gone, the options are where they were unless they are
          \* put in, and these are put in only if nothing controls the rate;
          /\ \A option \in X264Only : At(h, option) = {}
          /\ \A option \in WithArgument \ (X264Only \cup Injected) : Mirrors(h, f, option, encoder)
          /\ (\E rate \in RateControls : At(f, rate) # {}) =>
                \A rate \in RateControls : Mirrors(h, f, rate, encoder)
    \* and some only for one encoder.
    /\ At(h, "-gpu") # {} => encoder = NVENC \/ At(f, "-gpu") # {}
    /\ At(h, "-maxrate") # {} => encoder = AMF \/ At(f, "-maxrate") # {}

LEMMA SubstituteLine ==
    ASSUME NEW f, Fragment(f), NEW encoder \in Modes
    PROVE  \E h : SubstitutedAs(f, h, encoder)
<1>1. CASE encoder = CPU
  <2>1. SubstitutedAs(f, f, encoder)
    BY <1>1 DEF SubstitutedAs, SubstituteEncoder
  <2> QED BY <2>1
<1>2. CASE encoder # CPU
  <2>1. PICK g, e : Copies(g, e, f, Len(f), encoder) /\ Rewritten(Line(f), encoder) = Line(g)
    BY RewrittenLine
  <2>2. /\ Fragment(g)
        /\ \A option \in X264Only : At(g, option) = {}
        /\ \A option \in WithArgument \ X264Only : Mirrors(g, f, option, encoder)
    BY <2>1, CopiesMirror
  <2> DEFINE q == QualityFlags(encoder)
             keep == \E rate \in RateControls : At(g, rate) # {}
             h == IF keep THEN g ELSE g \o q
  <2>3. SubstituteEncoder(Line(f), encoder) = Line(h)
    BY <1>2, <2>1, <2>2, InjectLine DEF SubstituteEncoder
  <2>4. /\ RateControls \subseteq WithArgument \ X264Only /\ X264Only \subseteq WithArgument \ Injected
        /\ {"-gpu", "-maxrate"} \subseteq WithArgument \ X264Only
    BY OwnWords DEF OwnOptions, RateControls, X264Only, Injected
  <2>5. \A option \in WithArgument \ X264Only : At(g, option) = {} <=> At(f, option) = {}
    BY <2>2, MirrorsFacts
  <2>6. CASE keep
    <3>1. h = g
      BY <2>6
    <3>2. SubstitutedAs(f, g, encoder)
      BY <1>2, <2>2, <2>3, <2>4, <2>5, <3>1 DEF SubstitutedAs
    <3> QED BY <3>2
  <2>7. CASE ~keep
    <3>1. h = g \o q /\ Fragment(q)
      BY <2>7, QualityFragment
    <3>2. /\ \A option \in WithArgument \ Injected : At(q, option) = {}
          /\ At(q, "-gpu") # {} => encoder = NVENC
          /\ At(q, "-maxrate") # {} => encoder = AMF
      BY QualityOptions
    <3> HIDE DEF q, h
    <3>3. /\ Fragment(h)
          /\ \A option : At(h, option) = {} <=> At(g, option) = {} /\ At(q, option) = {}
          /\ \A option \in WithArgument :
                At(q, option) = {} =>
                   /\ At(h, option) = At(g, option)
                   /\ \A i \in At(g, option) : h[i + 1] = g[i + 1]
      <4>1. Joins(h, g, q)
        BY <2>2, <3>1, Concatenation
      <4> QED BY <4>1 DEF Joins
    <3>4. \A option \in X264Only : At(h, option) = {}
      BY <2>2, <2>4, <3>2, <3>3
    <3>5. ASSUME NEW option \in WithArgument \ (X264Only \cup Injected)
          PROVE  Mirrors(h, f, option, encoder)
      <4>1. At(h, option) = At(g, option) /\ \A i \in At(g, option) : h[i + 1] = g[i + 1]
        BY <3>2, <3>3
      <4>2. Mirrors(g, f, option, encoder)
        BY <2>2
      <4> QED BY <4>1, <4>2 DEF Mirrors
    <3>6. \A rate \in RateControls : At(f, rate) = {}
      BY <2>4, <2>5, <2>7
    <3>7. At(h, "-gpu") # {} => encoder = NVENC \/ At(f, "-gpu") # {}
      BY <2>4, <2>5, <3>2, <3>3
    <3>8. At(h, "-maxrate") # {} => encoder = AMF \/ At(f, "-maxrate") # {}
      BY <2>4, <2>5, <3>2, <3>3
    <3>9. SubstitutedAs(f, h, encoder)
      BY <1>2, <2>3, <3>3, <3>4, <3>5, <3>6, <3>7, <3>8 DEF SubstitutedAs
    <3> QED BY <3>9
  <2> QED BY <2>6, <2>7
<1> QED BY <1>1, <1>2

-----------------------------------------------------------------------------
(* The lines that the use cases make. *)

Taken(words) == Fragment(words) /\ KeepsRates(words)

LEMMA JoinedTaken ==
    ASSUME NEW f, NEW g, Taken(f), Taken(g)
    PROVE  Taken(f \o g)
<1>1. Joins(f \o g, f, g)
  BY Concatenation DEF Taken
<1> QED BY <1>1 DEF Joins, Taken

LEMMA AlternatesTaken ==
    ASSUME NEW f \in Seq(Words), Alternates(f), \A i \in DOMAIN f : f[i] \notin RateControls
    PROVE  Taken(f)
BY AlternatesFragment DEF Taken, KeepsRates

LEMMA OwnPieces ==
    ASSUME NEW encoder \in Words \ Options
    PROVE  /\ Taken(<<>>)
           /\ Taken(<<"-ss", "start">>)
           /\ Taken(<<"-i", "input">>)
           /\ Taken(<<"-t", "length">>)
           /\ Taken(<<"-vf", "filter">>)
           /\ Taken(<<"-map", "0:v:0", "-map", "0:a:0?", "-x264-params", "ref=1", "-c:v", CPU>>)
           /\ Taken(Quality)
           /\ Taken(<<"-c:a", "aac">>)
           /\ Taken(<<"-i", "input", "-vf", "subtitles", "-c:a", "copy", "-c:v", encoder>>)
           /\ Taken(<<"-x264-params", "ref=1">>)
           /\ Taken(<<"-i", "input", "-filter_complex", "graph", "-map", "[v]", "-map", "[a]",
                    "-c:v", encoder>>)
           /\ Taken(<<"-c:a", "aac", "-b:a", "96k", "-movflags", "+faststart">>)
           /\ Taken(<<"-filter_complex", "graph">>)
<1>1. /\ {"-b:a", "-c:a", "-c:v", "-crf", "-filter_complex", "-i", "-map", "-movflags", "-preset",
          "-ss", "-t", "-vf", "-x264-params"} \subseteq WithArgument
      /\ WithArgument \subseteq Words
  BY OwnWords DEF OwnOptions, X264Only
<1>2. {"+faststart", "0:a:0?", "0:v:0", "96k", "[a]", "[v]", "aac", "copy", "crf", "filter", "graph",
       "input", "length", "preset", "ref=1", "start", "subtitles", CPU} \subseteq Words \ Options
  BY OwnWords DEF OwnArguments, Modes
<1>3. RateControls \subseteq Options
  BY OwnWords DEF OwnOptions
<1>4. Taken(<<>>)
  BY DEF Taken, Fragment, KeepsRates
<1>5. Taken(<<"-ss", "start">>)
  <2> DEFINE f == <<"-ss", "start">>
  <2>1. f \in Seq(Words) /\ Alternates(f)
    BY <1>1, <1>2 DEF Alternates
  <2>2. \A i \in DOMAIN f : f[i] \notin RateControls
    BY <1>2, <1>3 DEF RateControls
  <2> HIDE DEF f
  <2>3. Taken(f)
    BY <2>1, <2>2, AlternatesTaken
  <2> QED BY <2>3 DEF f
<1>6. Taken(<<"-i", "input">>)
  <2> DEFINE f == <<"-i", "input">>
  <2>1. f \in Seq(Words) /\ Alternates(f)
    BY <1>1, <1>2 DEF Alternates
  <2>2. \A i \in DOMAIN f : f[i] \notin RateControls
    BY <1>2, <1>3 DEF RateControls
  <2> HIDE DEF f
  <2>3. Taken(f)
    BY <2>1, <2>2, AlternatesTaken
  <2> QED BY <2>3 DEF f
<1>7. Taken(<<"-t", "length">>)
  <2> DEFINE f == <<"-t", "length">>
  <2>1. f \in Seq(Words) /\ Alternates(f)
    BY <1>1, <1>2 DEF Alternates
  <2>2. \A i \in DOMAIN f : f[i] \notin RateControls
    BY <1>2, <1>3 DEF RateControls
  <2> HIDE DEF f
  <2>3. Taken(f)
    BY <2>1, <2>2, AlternatesTaken
  <2> QED BY <2>3 DEF f
<1>8. Taken(<<"-vf", "filter">>)
  <2> DEFINE f == <<"-vf", "filter">>
  <2>1. f \in Seq(Words) /\ Alternates(f)
    BY <1>1, <1>2 DEF Alternates
  <2>2. \A i \in DOMAIN f : f[i] \notin RateControls
    BY <1>2, <1>3 DEF RateControls
  <2> HIDE DEF f
  <2>3. Taken(f)
    BY <2>1, <2>2, AlternatesTaken
  <2> QED BY <2>3 DEF f
<1>9. Taken(<<"-map", "0:v:0", "-map", "0:a:0?", "-x264-params", "ref=1", "-c:v", CPU>>)
  <2> DEFINE f == <<"-map", "0:v:0", "-map", "0:a:0?", "-x264-params", "ref=1", "-c:v", CPU>>
  <2>1. f \in Seq(Words) /\ Alternates(f)
    BY <1>1, <1>2 DEF Alternates
  <2>2. \A i \in DOMAIN f : f[i] \notin RateControls
    BY <1>2, <1>3 DEF RateControls
  <2> HIDE DEF f
  <2>3. Taken(f)
    BY <2>1, <2>2, AlternatesTaken
  <2> QED BY <2>3 DEF f
<1>10. Taken(Quality)
  <2> DEFINE f == Quality
  <2>1. f \in Seq(Words) /\ Alternates(f)
    BY <1>1, <1>2 DEF Alternates, Quality
  <2>2. \A i \in DOMAIN f : f[i] \notin RateControls
    BY <1>2, <1>3 DEF RateControls, Quality
  <2> HIDE DEF f
  <2>3. Taken(f)
    BY <2>1, <2>2, AlternatesTaken
  <2> QED BY <2>3 DEF f
<1>11. Taken(<<"-c:a", "aac">>)
  <2> DEFINE f == <<"-c:a", "aac">>
  <2>1. f \in Seq(Words) /\ Alternates(f)
    BY <1>1, <1>2 DEF Alternates
  <2>2. \A i \in DOMAIN f : f[i] \notin RateControls
    BY <1>2, <1>3 DEF RateControls
  <2> HIDE DEF f
  <2>3. Taken(f)
    BY <2>1, <2>2, AlternatesTaken
  <2> QED BY <2>3 DEF f
<1>12. Taken(<<"-i", "input", "-vf", "subtitles", "-c:a", "copy", "-c:v", encoder>>)
  <2> DEFINE f == <<"-i", "input", "-vf", "subtitles", "-c:a", "copy", "-c:v", encoder>>
  <2>1. f \in Seq(Words) /\ Alternates(f)
    BY <1>1, <1>2 DEF Alternates
  <2>2. \A i \in DOMAIN f : f[i] \notin RateControls
    BY <1>2, <1>3 DEF RateControls
  <2> HIDE DEF f
  <2>3. Taken(f)
    BY <2>1, <2>2, AlternatesTaken
  <2> QED BY <2>3 DEF f
<1>13. Taken(<<"-x264-params", "ref=1">>)
  <2> DEFINE f == <<"-x264-params", "ref=1">>
  <2>1. f \in Seq(Words) /\ Alternates(f)
    BY <1>1, <1>2 DEF Alternates
  <2>2. \A i \in DOMAIN f : f[i] \notin RateControls
    BY <1>2, <1>3 DEF RateControls
  <2> HIDE DEF f
  <2>3. Taken(f)
    BY <2>1, <2>2, AlternatesTaken
  <2> QED BY <2>3 DEF f
<1>14. Taken(<<"-i", "input", "-filter_complex", "graph", "-map", "[v]", "-map", "[a]",
               "-c:v", encoder>>)
  <2> DEFINE f == <<"-i", "input", "-filter_complex", "graph", "-map", "[v]", "-map", "[a]",
                   "-c:v", encoder>>
  <2>1. f \in Seq(Words) /\ Alternates(f)
    BY <1>1, <1>2 DEF Alternates
  <2>2. \A i \in DOMAIN f : f[i] \notin RateControls
    BY <1>2, <1>3 DEF RateControls
  <2> HIDE DEF f
  <2>3. Taken(f)
    BY <2>1, <2>2, AlternatesTaken
  <2> QED BY <2>3 DEF f
<1>15. Taken(<<"-c:a", "aac", "-b:a", "96k", "-movflags", "+faststart">>)
  <2> DEFINE f == <<"-c:a", "aac", "-b:a", "96k", "-movflags", "+faststart">>
  <2>1. f \in Seq(Words) /\ Alternates(f)
    BY <1>1, <1>2 DEF Alternates
  <2>2. \A i \in DOMAIN f : f[i] \notin RateControls
    BY <1>2, <1>3 DEF RateControls
  <2> HIDE DEF f
  <2>3. Taken(f)
    BY <2>1, <2>2, AlternatesTaken
  <2> QED BY <2>3 DEF f
<1>16. Taken(<<"-filter_complex", "graph">>)
  <2> DEFINE f == <<"-filter_complex", "graph">>
  <2>1. f \in Seq(Words) /\ Alternates(f)
    BY <1>1, <1>2 DEF Alternates
  <2>2. \A i \in DOMAIN f : f[i] \notin RateControls
    BY <1>2, <1>3 DEF RateControls
  <2> HIDE DEF f
  <2>3. Taken(f)
    BY <2>1, <2>2, AlternatesTaken
  <2> QED BY <2>3 DEF f
<1> QED BY <1>4, <1>5, <1>6, <1>7, <1>8, <1>9, <1>10, <1>11, <1>12, <1>13, <1>14, <1>15, <1>16

LEMMA EncodeLine ==
    ASSUME NEW req, NEW filter \in {<<>>, <<"-vf", "filter">>}
    PROVE  \E f : /\ Taken(f) /\ EncodeArgs(req, filter) = Line(f)
                  /\ At(f, "-ss") # {} <=> req.start > 0
                  /\ At(f, "-t") # {} <=> Length(req) > 0
<1> DEFINE seek == IF req.start > 0 THEN <<"-ss", "start">> ELSE <<>>
           length == IF Length(req) > 0 THEN <<"-t", "length">> ELSE <<>>
           input == <<"-i", "input">>
           codec == <<"-map", "0:v:0", "-map", "0:a:0?", "-x264-params", "ref=1", "-c:v", CPU>>
           audio == <<"-c:a", "aac">>
           w == seek \o input \o length
           f == w \o filter \o codec \o Quality \o audio
           Without(words) == Taken(words) /\ At(words, "-ss") = {} /\ At(words, "-t") = {}
<1>1. EncodeArgs(req, filter) = Line(f)
  BY DEF EncodeArgs, Window, Line
<1>2. CPU \in Words \ Options
  BY OwnWords
<1>3. /\ Taken(<<>>) /\ Taken(<<"-ss", "start">>) /\ Taken(input) /\ Taken(<<"-t", "length">>)
      /\ Taken(<<"-vf", "filter">>) /\ Taken(codec) /\ Taken(Quality) /\ Taken(audio)
  BY <1>2, OwnPieces
<1>4. Without(input) /\ Without(filter) /\ Without(codec) /\ Without(Quality) /\ Without(audio)
  BY <1>3 DEF At, Quality, CPU
<1>5. /\ Taken(seek) /\ At(seek, "-t") = {}
      /\ At(seek, "-ss") # {} <=> req.start > 0
  BY <1>3 DEF At
<1>6. /\ Taken(length) /\ At(length, "-ss") = {}
      /\ At(length, "-t") # {} <=> Length(req) > 0
  BY <1>3 DEF At
<1> HIDE DEF seek, length, input, codec, audio, Without
<1>7. ASSUME NEW x, Taken(x), NEW y, Taken(y)
      PROVE  /\ Taken(x \o y)
             /\ At(x \o y, "-ss") = {} <=> At(x, "-ss") = {} /\ At(y, "-ss") = {}
             /\ At(x \o y, "-t") = {} <=> At(x, "-t") = {} /\ At(y, "-t") = {}
  <2>1. Joins(x \o y, x, y)
    BY <1>7, Concatenation DEF Taken
  <2> QED BY <1>7, <2>1, JoinedTaken DEF Joins
<1> DEFINE Windowed(words) == /\ Taken(words)
                              /\ At(words, "-ss") # {} <=> req.start > 0
                              /\ At(words, "-t") # {} <=> Length(req) > 0
<1>8. Windowed(w)
  <2>1. Taken(seek \o input) /\ At(seek \o input, "-t") = {}
        /\ (At(seek \o input, "-ss") # {} <=> req.start > 0)
    BY <1>4, <1>5, <1>7 DEF Without
  <2> QED BY <1>6, <1>7, <2>1
<1>9. ASSUME NEW x, Windowed(x), NEW y, Without(y) PROVE Windowed(x \o y)
  BY <1>7, <1>9 DEF Without
<1> HIDE DEF w, Windowed
<1>10. Windowed(w \o filter)
  BY <1>4, <1>8, <1>9
<1>11. Windowed(w \o filter \o codec)
  BY <1>4, <1>9, <1>10
<1>12. Windowed(w \o filter \o codec \o Quality)
  BY <1>4, <1>9, <1>11
<1>13. Windowed(f)
  BY <1>4, <1>9, <1>12
<1> HIDE DEF f
<1> QED BY <1>1, <1>13 DEF Windowed

LEMMA CaptionLine ==
    ASSUME NEW req, req.codec \in Words \ Options
    PROVE  \E f : Taken(f) /\ CaptionArgs(req) = Line(f)
<1> DEFINE encoder == IF req.codec = "" THEN CPU ELSE req.codec
           a == <<"-i", "input", "-vf", "subtitles", "-c:a", "copy", "-c:v", encoder>>
           b == IF encoder = CPU THEN <<"-x264-params", "ref=1">> \o Quality ELSE <<>>
<1>1. CaptionArgs(req) = Line(a \o b)
  BY DEF CaptionArgs, Line
<1>2. encoder \in Words \ Options
  BY OwnWords
<1> HIDE DEF encoder
<1>3. Taken(a) /\ Taken(<<>>) /\ Taken(<<"-x264-params", "ref=1">>) /\ Taken(Quality)
  BY <1>2, OwnPieces
<1>4. Taken(<<"-x264-params", "ref=1">> \o Quality)
  BY <1>3, JoinedTaken
<1>5. Taken(b)
  BY <1>3, <1>4
<1> HIDE DEF a, b
<1>6. Taken(a \o b)
  BY <1>3, <1>5, JoinedTaken
<1> QED BY <1>1, <1>6

LEMMA CutsLine ==
    ASSUME NEW req, req.codec \in Words \ Options
    PROVE  \E f : Taken(f) /\ CutsArgs(req) = Line(f)
<1> DEFINE encoder == IF req.codec = "" THEN CPU ELSE req.codec
           a == <<"-i", "input", "-filter_complex", "graph", "-map", "[v]", "-map", "[a]",
                  "-c:v", encoder>>
           b == <<"-c:a", "aac", "-b:a", "96k", "-movflags", "+faststart">>
<1>1. CutsArgs(req) = Line(a \o Quality \o b)
  BY DEF CutsArgs, Line
<1>2. encoder \in Words \ Options
  BY OwnWords
<1> HIDE DEF encoder
<1>3. Taken(a) /\ Taken(Quality) /\ Taken(b)
  BY <1>2, OwnPieces
<1> HIDE DEF a, b
<1>4. Taken(a \o Quality)
  BY <1>3, JoinedTaken
<1>5. Taken(a \o Quality \o b)
  BY <1>3, <1>4, JoinedTaken
<1> QED BY <1>1, <1>5

\* What a set of sequences that is closed under concatenation has, a flattened sequence has.
LEMMA FlattenClosed ==
    ASSUME NEW C, C \subseteq Seq(Words), <<>> \in C, \A x, y \in C : x \o y \in C,
           NEW s \in Seq(C)
    PROVE  FlattenSeq(s) \in C
<1> DEFINE n == Len(s)
<1>0. n \in Nat /\ DOMAIN s = 1 .. n /\ (n = 0 => s = <<>>) /\ \A i \in 1 .. n : s[i] \in C
  OBVIOUS
<1>1. CASE n = 0
  BY <1>0, <1>1 DEF FlattenSeq
<1>2. CASE n # 0
  <2> DEFINE Body(f) == [i \in 1 .. n |-> IF i = 1 THEN s[i] ELSE f[i - 1] \o s[i]]
             flatten == CHOOSE f : f = Body(f)
  <2>1. FlattenSeq(s) = flatten[n]
    BY <1>2 DEF FlattenSeq
  <2> HIDE DEF n
  <2>2. \A i \in 1 .. n : s[i] \in C
    BY <1>0
  <2>3. PICK f : f = Body(f)
    <3> DEFINE step == [p \in C \X (1 .. n) |-> p[1] \o s[p[2]]]
    <3>1. step \in [C \X (1 .. n) -> C]
      BY <2>2
    <3>2. \A w \in C, i \in 1 .. n : step[<<w, i>>] = w \o s[i]
      OBVIOUS
    <3>3. PICK g : Repeats(g, n, C, <<>>, step)
      <4> HIDE DEF step
      <4> QED BY <1>0, <3>1, Recursion
    <3> HIDE DEF step
    <3>4. g \in [0 .. n -> C] /\ g[0] = <<>>
      BY <3>3 DEF Repeats
    <3>5. ASSUME NEW i \in 1 .. n PROVE g[i] = g[i - 1] \o s[i]
      <4>1. g[i] = step[<<g[i - 1], i>>] /\ g[i - 1] \in C
        BY <1>0, <3>3, <3>4 DEF Repeats
      <4> QED BY <3>2, <4>1
    <3> DEFINE f == [i \in 1 .. n |-> g[i]]
    <3>6. ASSUME NEW i \in 1 .. n PROVE g[i] = IF i = 1 THEN s[i] ELSE f[i - 1] \o s[i]
      <4>1. CASE i = 1
        <5>1. g[i] = g[i - 1] \o s[i] /\ i - 1 = 0
          BY <1>0, <3>5, <4>1
        <5>2. <<>> \o s[i] = s[i]
          BY <2>2, ConcatEmptySeq
        <5> QED BY <3>4, <4>1, <5>1, <5>2
      <4>2. CASE i # 1
        <5>1. i - 1 \in 1 .. n
          BY <1>0, <4>2
        <5> QED BY <3>5, <4>2, <5>1
      <4> QED BY <4>1, <4>2
    <3>7. f = Body(f)
      BY <3>6
    <3> QED BY <3>7
  <2>4. flatten = Body(flatten)
    BY <2>3
  <2> HIDE DEF flatten
  <2>5. ASSUME NEW i \in 1 .. n PROVE flatten[i] = IF i = 1 THEN s[i] ELSE flatten[i - 1] \o s[i]
    BY <2>4
  <2> DEFINE T == {i \in 0 .. n : i = 0 \/ flatten[i] \in C}
  <2>6. ASSUME NEW i \in 1 .. n, i - 1 \in T PROVE i \in T
    <3>1. CASE i = 1
      BY <2>2, <2>5, <3>1
    <3>2. CASE i # 1
      <4>1. flatten[i - 1] \in C /\ s[i] \in C
        BY <2>2, <2>6, <3>2
      <4> QED BY <2>5, <3>2, <4>1
    <3> QED BY <3>1, <3>2
  <2>7. 0 \in T
    BY <1>0
  <2>8. 0 .. n \subseteq T
    <3> HIDE DEF T
    <3> QED BY <1>0, <2>6, <2>7, UpTo
  <2>9. flatten[n] \in C
    BY <1>0, <1>2, <2>8
  <2> QED BY <2>1, <2>9
<1> QED BY <1>1, <1>2

-----------------------------------------------------------------------------
(* The command of a line FFmpeg would take. *)

LEMMA CommandReads ==
    ASSUME NEW f, Taken(f), NEW encoder \in Modes, NEW args, args = Line(f),
           NEW command, command = SubstituteEncoder(args, encoder)
    PROVE  /\ OutputsOf(command) = {Len(command)}
           /\ Last(command) = "output"
           /\ Cardinality(InputsOf(command)) = Cardinality(InputsOf(args))
           /\ CodecOf(command) = Substituted(CodecOf(args), encoder)
           /\ \A option \in {"-ss", "-t"} : HasOption(command, option) <=> HasOption(args, option)
           /\ encoder = CPU => command = args
           /\ encoder # CPU => \A option \in X264Only : ~HasOption(command, option)
           /\ HasOption(command, "-gpu") => encoder = NVENC \/ HasOption(args, "-gpu")
           /\ HasOption(command, "-maxrate") => encoder = AMF \/ HasOption(args, "-maxrate")
           /\ (\E rate \in RateControls : HasOption(args, rate)) =>
                 \A rate \in RateControls : ValueOf(command, rate) = ValueOf(args, rate)
<1>0. Fragment(f) /\ KeepsRates(f)
  BY DEF Taken
<1>1. PICK h : SubstitutedAs(f, h, encoder)
  BY <1>0, SubstituteLine
<1>2. Fragment(h) /\ command = Line(h)
  BY <1>1 DEF SubstitutedAs
<1>3. OutputsOf(command) = {Len(command)} /\ Last(command) = "output"
  BY <1>2, LineOutputs, LineProperties DEF Last
<1>4. \A option \in WithArgument : /\ PlacesOf(args, option) = At(f, option)
                                   /\ PlacesOf(command, option) = At(h, option)
  BY <1>0, <1>2, LinePlacesOf, OwnWords
<1>5. encoder = CPU => h = f /\ command = args
  BY <1>1, <1>2 DEF SubstitutedAs
<1>6. ASSUME NEW option \in WithArgument \ (X264Only \cup Injected)
      PROVE  /\ At(h, option) = {} <=> At(f, option) = {}
             /\ Cardinality(At(h, option)) = Cardinality(At(f, option))
             /\ ValueOf(command, option) = Substituted(ValueOf(args, option), encoder)
  <2>1. CASE encoder = CPU
    BY <1>5, <2>1 DEF Substituted
  <2>2. CASE encoder # CPU
    <3>1. Mirrors(h, f, option, encoder)
      BY <1>1, <2>2 DEF SubstitutedAs
    <3> QED BY <1>0, <1>2, <3>1, MirrorsFacts
  <2> QED BY <2>1, <2>2
<1>7. {"-i", "-c:v", "-ss", "-t"} \subseteq WithArgument \ (X264Only \cup Injected)
  BY OwnWords DEF OwnOptions, X264Only, Injected
<1>8. Cardinality(InputsOf(command)) = Cardinality(InputsOf(args))
  BY <1>4, <1>6, <1>7 DEF InputsOf
<1>9. CodecOf(command) = Substituted(CodecOf(args), encoder)
  BY <1>6, <1>7 DEF CodecOf
<1>10. \A option \in {"-ss", "-t"} : HasOption(command, option) <=> HasOption(args, option)
  BY <1>4, <1>6, <1>7 DEF HasOption
<1>11. X264Only \cup RateControls \cup {"-gpu", "-maxrate"} \subseteq WithArgument
  BY OwnWords DEF OwnOptions
<1>12. encoder # CPU => \A option \in X264Only : ~HasOption(command, option)
  BY <1>1, <1>4, <1>11 DEF HasOption, SubstitutedAs
<1>13. HasOption(command, "-gpu") => encoder = NVENC \/ HasOption(args, "-gpu")
  BY <1>1, <1>4, <1>11 DEF HasOption, SubstitutedAs
<1>14. HasOption(command, "-maxrate") => encoder = AMF \/ HasOption(args, "-maxrate")
  BY <1>1, <1>4, <1>11 DEF HasOption, SubstitutedAs
<1>15. ASSUME \E rate \in RateControls : HasOption(args, rate), NEW rate \in RateControls
       PROVE  ValueOf(command, rate) = ValueOf(args, rate)
  <2>1. CASE encoder = CPU
    BY <1>5, <2>1
  <2>2. CASE encoder # CPU
    <3>1. \E r \in RateControls : At(f, r) # {}
      BY <1>4, <1>11, <1>15 DEF HasOption
    <3>2. Mirrors(h, f, rate, encoder)
      BY <1>1, <2>2, <3>1 DEF SubstitutedAs
    <3>3. ValueOf(command, rate) = Substituted(ValueOf(args, rate), encoder)
      BY <1>0, <1>2, <1>11, <3>2, MirrorsFacts
    <3>4. ValueOf(args, rate) # CPU
      <4>1. CASE At(f, rate) = {}
        BY <1>0, <1>11, <4>1, LineValue DEF CPU
      <4>2. CASE At(f, rate) # {}
        <5>1. PICK i \in At(f, rate) : ValueOf(args, rate) = f[i + 1]
          BY <1>0, <1>11, <4>2, LineValue
        <5> QED BY <1>0, <5>1 DEF At, KeepsRates
      <4> QED BY <4>1, <4>2
    <3> QED BY <3>3, <3>4 DEF Substituted
  <2> QED BY <2>1, <2>2
<1> QED BY <1>3, <1>5, <1>8, <1>9, <1>10, <1>12, <1>13, <1>14, <1>15

LEMMA CommandWords ==
    ASSUME NEW args \in Seq(Words), NEW encoder \in Modes
    PROVE  SubstituteEncoder(args, encoder) \in Seq(Words)
<1>1. encoder \in Words
  BY OwnWords
<1> DEFINE rewritten == Rewritten(args, encoder)
<1>2. rewritten \in Seq(Words)
  <2>1. PICK f : LoopOver(f, args, encoder) /\ rewritten = f[Len(args)].result
    BY <1>1, RewrittenByLoop
  <2> QED BY <2>1 DEF LoopOver, LoopStates
<1>3. QualityFlags(encoder) \in Seq(Words)
  BY QualityFragment DEF Fragment
<1> HIDE DEF rewritten
<1>4. rewritten # <<>> => Front(rewritten) \in Seq(Words) /\ Last(rewritten) \in Words
  BY <1>2 DEF Front, Last
<1>5. rewritten # <<>> =>
         Front(rewritten) \o QualityFlags(encoder) \o <<Last(rewritten)>> \in Seq(Words)
  BY <1>3, <1>4
<1>6. InjectEncoderQuality(rewritten, encoder) \in Seq(Words)
  BY <1>2, <1>5 DEF InjectEncoderQuality
<1> QED BY <1>6 DEF SubstituteEncoder, rewritten
=============================================================================
