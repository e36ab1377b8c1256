--------------------------- MODULE DialogueProofs ---------------------------
(* What a conversation may do to an order, for every menu, category, address  *)
(* and dish fragment and for conversations of any length.                     *)
(*                                                                            *)
(* The inductive invariant DialogueInv says of the session what the next turn *)
(* relies on: that it is typed, that it is Sound (a submitted order is        *)
(* complete, and the phone number is awaited only when it is what is          *)
(* missing), that the snapshot Restores the draft before the last change, and *)
(* that an OpenQuestion is the last reply's.  Each agent's reply is shown to  *)
(* be Fine, each utterance to be Meant with typed slots, and the turn that    *)
(* composes them (understanding, expiry, agent, patch validation, snapshot    *)
(* and undo) to preserve the invariant.  Claims about all lines of an order   *)
(* are proved by induction on their positions: Recursion gives the values of  *)
(* a recursive function, UpTo is the induction, by the least counterexample.  *)
EXTENDS Dialogue, WellFoundedInduction, TLAPS

-----------------------------------------------------------------------------
(* Induction up to a bound, and recursion *)

\* A non-empty set of numbers has a least one.
LEMMA Least ==
  ASSUME NEW S \in SUBSET Nat, S # {}
  PROVE  \E m \in S : \A n \in S : m <= n
<1> DEFINE R == OpToRel(<, Nat)
<1>1. IsWellFoundedOn(R, Nat)
  BY NatLessThanWellFounded
<1>2. \A m, n \in Nat : m < n => <<m, n>> \in R
  BY DEF OpToRel
<1> HIDE DEF R
<1>3. PICK m \in S : \A n \in S : ~ (<<n, m>> \in R)
  BY <1>1, WFMin
<1>4. ASSUME NEW n \in S PROVE m <= n
  <2>1. m \in Nat /\ n \in Nat
    OBVIOUS
  <2>2. ~ (n < m)
    BY <2>1, <1>2, <1>3
  <2> QED BY <2>1, <2>2
<1> QED BY <1>4

\* What Min picks is that least one.
LEMMA MinIsLeast ==
  ASSUME NEW S \in SUBSET Nat, S # {}
  PROVE  Min(S) \in S /\ \A n \in S : Min(S) <= n
BY Least DEF Min

\* What Max picks of some positions is one of them.
LEMMA MaxIsGreatest ==
  ASSUME NEW N \in Nat, NEW S \in SUBSET (1 .. N), S # {}
  PROVE  Max(S) \in S
<1> DEFINE T == { n \in 0 .. N : N - n \in S }
<1>1. PICK s \in S : TRUE
  OBVIOUS
<1>2. N - s \in T /\ T \in SUBSET Nat
  <2>1. s \in 1 .. N
    OBVIOUS
  <2>2. N - (N - s) = s /\ N - s \in 0 .. N
    BY <2>1
  <2> QED BY <2>2
<1>3. PICK m \in T : \A n \in T : m <= n
  <2> HIDE DEF T
  <2> QED BY <1>2, Least
<1>4. ASSUME NEW n \in S PROVE N - m >= n
  <2>1. n \in 1 .. N /\ N - n \in 0 .. N /\ N - (N - n) = n
    OBVIOUS
  <2>2. N - n \in T
    BY <2>1
  <2>3. m <= N - n
    BY <1>3, <2>2
  <2> QED BY <2>1, <2>3
<1>5. N - m \in S
  OBVIOUS
<1> HIDE DEF T
<1>6. \E x \in S : \A n \in S : x >= n
  BY <1>4, <1>5
<1> QED BY <1>6 DEF Max

\* A set that holds 0 and, with every number below N, the next one, holds all up to N.
LEMMA UpTo ==
  ASSUME NEW N \in Nat, NEW T, 0 \in T, \A n \in 1 .. N : n - 1 \in T => n \in T
  PROVE  0 .. N \subseteq T
<1> DEFINE U == { n \in 0 .. N : n \notin T }
<1>1. SUFFICES ASSUME U # {} PROVE FALSE
  OBVIOUS
<1>2. PICK n \in U : \A m \in U : n <= m
  <2>1. U \in SUBSET Nat
    OBVIOUS
  <2> HIDE DEF U
  <2> QED BY <1>1, <2>1, Least
<1>3. n \in 1 .. N /\ n - 1 \in 0 .. N /\ ~ (n <= n - 1)
  OBVIOUS
<1>4. n - 1 \notin U
  <2> HIDE DEF U
  <2> QED BY <1>2, <1>3
<1> QED BY <1>3, <1>4

\* The values of g are those that st gives, one after the other, from x.
Steps(g, x, st, N) == g[0] = x /\ \A n \in 1 .. N : g[n] = st[<<g[n - 1], n>>]

\* A recursion up to N has a solution.
LEMMA Recursion ==
  ASSUME NEW X, NEW x \in X, NEW N \in Nat, NEW st \in [X \X (1 .. N) -> X]
  PROVE  \E g \in [0 .. N -> X] : Steps(g, x, st, N)
<1> DEFINE Has(k) == \E g \in [0 .. k -> X] : Steps(g, x, st, k)
           T == { k \in 0 .. N : Has(k) }
<1>1. 0 \in T
  <2>1. [i \in 0 .. 0 |-> x] \in [0 .. 0 -> X] /\ Steps([i \in 0 .. 0 |-> x], x, st, 0)
    BY DEF Steps
  <2> QED BY <2>1
<1>2. ASSUME NEW m \in 1 .. N, m - 1 \in T PROVE m \in T
  <2>1. PICK g \in [0 .. m - 1 -> X] : Steps(g, x, st, m - 1)
    BY <1>2
  <2> DEFINE h == [i \in 0 .. m |-> IF i = m THEN st[<<g[m - 1], m>>] ELSE g[i]]
  <2>2. m - 1 \in 0 .. m - 1 /\ m \in 0 .. N /\ m # 0
    OBVIOUS
  <2>3. g[m - 1] \in X /\ st[<<g[m - 1], m>>] \in X
    BY <2>1, <2>2
  <2>4. h \in [0 .. m -> X]
    BY <2>1, <2>2, <2>3
  <2>5. h[0] = x
    BY <2>1, <2>2 DEF Steps
  <2>6. ASSUME NEW n \in 1 .. m PROVE h[n] = st[<<h[n - 1], n>>]
    <3>1. n - 1 \in 0 .. m /\ n - 1 # m /\ h[n - 1] = g[n - 1] /\ n \in 0 .. m
      OBVIOUS
    <3>2. CASE n = m
      BY <3>1, <3>2
    <3>3. CASE n # m
      <4>1. n \in 1 .. m - 1
        BY <3>3
      <4> QED BY <4>1, <3>1, <3>3, <2>1 DEF Steps
    <3> QED BY <3>2, <3>3
  <2> HIDE DEF h
  <2>7. Steps(h, x, st, m)
    BY <2>5, <2>6 DEF Steps
  <2> QED BY <2>2, <2>4, <2>7
<1>3. 0 .. N \subseteq T
  <2> HIDE DEF T
  <2> QED BY <1>1, <1>2, UpTo
<1> QED BY <1>3

-----------------------------------------------------------------------------
(* What the operations on the lines compute *)

\* The lines copied so far, and the portions counted so far.
Copies(g, order, at) ==
  /\ g \in [0 .. Len(order) -> Seq(Line)]
  /\ g[0] = <<>>
  /\ \A n \in 1 .. Len(order) :
       g[n] = IF n \in at THEN Append(g[n - 1], order[n]) ELSE g[n - 1]

Counted(l, items) == IF l.item \in items THEN l.qty ELSE 0

Counts(g, order, items) ==
  /\ g \in [0 .. Len(order) -> Nat]
  /\ g[0] = 0
  /\ \A n \in 1 .. Len(order) : g[n] = g[n - 1] + Counted(order[n], items)

\* LinesAt is the last value of the recursion that copies line by line.
LEMMA LinesAreCopied ==
  ASSUME NEW order \in Seq(Line), NEW at
  PROVE  \E g : Copies(g, order, at) /\ LinesAt(order, at) = g[Len(order)]
<1> DEFINE N == Len(order)
           st == [p \in Seq(Line) \X (1 .. N) |-> IF p[2] \in at THEN Append(p[1], order[p[2]]) ELSE p[1]]
           Is(g) == g = [n \in 0 .. Len(order) |-> 
                         IF n = 0 THEN <<>> ELSE IF n \in at THEN Append(g[n - 1], order[n]) ELSE g[n - 1]]
           f == CHOOSE f : Is(f)
<1>1. N \in Nat /\ <<>> \in Seq(Line) /\ \A n \in 1 .. N : order[n] \in Line
  OBVIOUS
<1>2. st \in [Seq(Line) \X (1 .. N) -> Seq(Line)]
  BY <1>1
<1>3. PICK g \in [0 .. N -> Seq(Line)] : Steps(g, <<>>, st, N)
  <2> HIDE DEF st, N
  <2> QED BY <1>1, <1>2, Recursion
<1>4. ASSUME NEW n \in 1 .. N PROVE g[n] = IF n \in at THEN Append(g[n - 1], order[n]) ELSE g[n - 1]
  <2>1. n - 1 \in 0 .. N
    BY <1>1
  <2>2. <<g[n - 1], n>> \in Seq(Line) \X (1 .. N) /\ g[n] = st[<<g[n - 1], n>>]
    <3> HIDE DEF st
    <3> QED BY <1>3, <2>1 DEF Steps
  <2> QED BY <2>2
<1>5. g = [n \in 0 .. N |-> 
                         IF n = 0 THEN <<>> ELSE IF n \in at THEN Append(g[n - 1], order[n]) ELSE g[n - 1]]
  <2>1. g[0] = <<>> /\ g \in [0 .. N -> Seq(Line)] /\ \A n \in 0 .. N : n = 0 \/ n \in 1 .. N
    BY <1>1, <1>3 DEF Steps
  <2> HIDE DEF N, st
  <2> QED BY <2>1, <1>4
<1>7. Is(f)
  <2>1. Is(g)
    BY <1>5
  <2> HIDE DEF Is
  <2> QED BY <2>1
<1>8. LinesAt(order, at) = f[N]
  BY DEF LinesAt
<1> HIDE DEF f
<1>9. /\ f[0] = <<>>
      /\ \A n \in 1 .. N : f[n] = IF n \in at THEN Append(f[n - 1], order[n]) ELSE f[n - 1]
  <2>1. 0 \in 0 .. N /\ \A n \in 1 .. N : n \in 0 .. N /\ n # 0
    BY <1>1
  <2> QED BY <1>7, <2>1
<1>10. \A n \in 0 .. N : f[n] \in Seq(Line)
  <2> DEFINE T == { n \in 0 .. N : f[n] \in Seq(Line) }
  <2>1. ASSUME NEW n \in 1 .. N, n - 1 \in T PROVE n \in T
    <3>1. f[n - 1] \in Seq(Line) /\ order[n] \in Line /\ n \in 0 .. N
      BY <1>1, <2>1
    <3>2. Append(f[n - 1], order[n]) \in Seq(Line)
      BY <3>1
    <3> QED BY <1>9, <3>1, <3>2
  <2>3. 0 \in T
    <3>1. 0 \in 0 .. N /\ f[0] \in Seq(Line)
      BY <1>1, <1>9
    <3> QED BY <3>1
  <2>2. 0 .. N \subseteq T
    <3> HIDE DEF T, N
    <3> QED BY <1>1, <2>1, <2>3, UpTo
  <2> QED BY <2>2
<1>11. f \in [0 .. N -> Seq(Line)]
  BY <1>7, <1>10
<1> QED BY <1>8, <1>9, <1>11 DEF Copies

\* Portions is the last value of the recursion that counts line by line.
LEMMA PortionsAreCounted ==
  ASSUME NEW order \in Seq(Line), NEW items
  PROVE  \E g : Counts(g, order, items) /\ Portions(order, items) = g[Len(order)]
<1> DEFINE N == Len(order)
           st == [p \in Nat \X (1 .. N) |-> p[1] + Counted(order[p[2]], items)]
           Is(g) == g = [n \in 0 .. Len(order) |->
                         IF n = 0 THEN 0
                         ELSE g[n - 1] + (IF order[n].item \in items THEN order[n].qty ELSE 0)]
           f == CHOOSE f : Is(f)
<1>1. N \in Nat /\ \A n \in 1 .. N : Counted(order[n], items) \in Nat
  <2>1. \A n \in 1 .. N : order[n] \in Line
    OBVIOUS
  <2> QED BY <2>1 DEF Counted, Line
<1>2. st \in [Nat \X (1 .. N) -> Nat]
  BY <1>1
<1>3. PICK g \in [0 .. N -> Nat] : Steps(g, 0, st, N)
  <2> HIDE DEF st, N
  <2> QED BY <1>1, <1>2, Recursion
<1>4. ASSUME NEW n \in 1 .. N PROVE g[n] = g[n - 1] + Counted(order[n], items)
  <2>1. n - 1 \in 0 .. N
    BY <1>1
  <2>2. <<g[n - 1], n>> \in Nat \X (1 .. N) /\ g[n] = st[<<g[n - 1], n>>]
    <3> HIDE DEF st
    <3> QED BY <1>3, <2>1 DEF Steps
  <2> QED BY <2>2
<1>5. g = [n \in 0 .. N |-> IF n = 0 THEN 0
                          ELSE g[n - 1] + (IF order[n].item \in items THEN order[n].qty ELSE 0)]
  <2>1. g[0] = 0 /\ g \in [0 .. N -> Nat] /\ \A n \in 0 .. N : n = 0 \/ n \in 1 .. N
    BY <1>1, <1>3 DEF Steps
  <2> HIDE DEF N, st
  <2> QED BY <2>1, <1>4 DEF Counted
<1>6. Is(f)
  <2>1. Is(g)
    BY <1>5
  <2> HIDE DEF Is
  <2> QED BY <2>1
<1>7. Portions(order, items) = f[N]
  BY DEF Portions
<1> HIDE DEF f
<1>8. /\ f[0] = 0
      /\ \A n \in 1 .. N : f[n] = f[n - 1] + Counted(order[n], items)
  <2>1. 0 \in 0 .. N /\ \A n \in 1 .. N : n \in 0 .. N /\ n # 0
    BY <1>1
  <2> QED BY <1>6, <2>1 DEF Counted
<1>9. \A n \in 0 .. N : f[n] \in Nat
  <2> DEFINE T == { n \in 0 .. N : f[n] \in Nat }
  <2>1. ASSUME NEW n \in 1 .. N, n - 1 \in T PROVE n \in T
    BY <1>1, <1>8, <2>1
  <2>2. 0 \in 0 .. N
    BY <1>1
  <2>3. 0 .. N \subseteq T
    <3>1. 0 \in T
      BY <1>8, <2>2
    <3> HIDE DEF T, N
    <3> QED BY <1>1, <2>1, <3>1, UpTo
  <2> QED BY <2>3
<1>10. f \in [0 .. N -> Nat]
  BY <1>6, <1>9
<1> QED BY <1>7, <1>8, <1>10 DEF Counts

\* Every line counts for a natural number of portions.
LEMMA CountedNat ==
  ASSUME NEW order \in Seq(Line), NEW items
  PROVE  \A n \in 1 .. Len(order) : Counted(order[n], items) \in Nat
<1>1. \A n \in 1 .. Len(order) : order[n] \in Line
  OBVIOUS
<1> QED BY <1>1 DEF Counted, Line

\* So does every order, and an empty one counts for none.
LEMMA PortionsNat ==
  ASSUME NEW order \in Seq(Line), NEW items
  PROVE  Portions(order, items) \in Nat /\ (order = <<>> => Portions(order, items) = 0)
<1>1. PICK g : Counts(g, order, items) /\ Portions(order, items) = g[Len(order)]
  BY PortionsAreCounted
<1>2. Len(order) \in 0 .. Len(order) /\ (order = <<>> => Len(order) = 0)
  OBVIOUS
<1> QED BY <1>1, <1>2 DEF Counts

\* Lines that grow, and lines that follow, make no portions fewer.
LEMMA MorePortions ==
  ASSUME NEW a \in Seq(Line), NEW b \in Seq(Line), NEW items, Len(a) <= Len(b),
         \A n \in 1 .. Len(a) : Counted(a[n], items) <= Counted(b[n], items)
  PROVE  Portions(a, items) <= Portions(b, items)
<1>1. PICK g : Counts(g, a, items) /\ Portions(a, items) = g[Len(a)]
  BY PortionsAreCounted
<1>2. PICK h : Counts(h, b, items) /\ Portions(b, items) = h[Len(b)]
  BY PortionsAreCounted
<1>3. /\ \A n \in 1 .. Len(a) : Counted(a[n], items) \in Nat
      /\ \A n \in 1 .. Len(b) : Counted(b[n], items) \in Nat
  BY CountedNat
<1>4. Len(a) \in Nat /\ Len(b) \in Nat
  OBVIOUS
<1> DEFINE T == { n \in 0 .. Len(b) : IF n <= Len(a) THEN g[n] <= h[n] ELSE g[Len(a)] <= h[n] }
<1>5. 0 \in T
  BY <1>1, <1>2, <1>4 DEF Counts
<1>6. ASSUME NEW n \in 1 .. Len(b), n - 1 \in T PROVE n \in T
  <2>1. n - 1 \in 0 .. Len(b) /\ n \in 0 .. Len(b)
    OBVIOUS
  <2>2. h[n] = h[n - 1] + Counted(b[n], items) /\ h[n - 1] \in Nat /\ Counted(b[n], items) \in Nat
    BY <1>2, <1>3, <2>1 DEF Counts
  <2>3. CASE n <= Len(a)
    <3>1. n \in 1 .. Len(a) /\ n - 1 \in 0 .. Len(a) /\ n - 1 <= Len(a)
      BY <1>4, <2>3
    <3>2. g[n] = g[n - 1] + Counted(a[n], items) /\ g[n - 1] \in Nat /\ Counted(a[n], items) \in Nat
      BY <1>1, <1>3, <3>1 DEF Counts
    <3> QED BY <1>6, <2>1, <2>2, <2>3, <3>1, <3>2
  <2>4. CASE ~ (n <= Len(a))
    <3>1. g[Len(a)] \in Nat
      BY <1>1, <1>4 DEF Counts
    <3>2. g[Len(a)] <= h[n - 1]
      <4>1. CASE n - 1 <= Len(a)
        <5>1. n - 1 = Len(a)
          BY <1>4, <2>4, <4>1
        <5> QED BY <1>6, <5>1, <4>1
      <4>2. CASE ~ (n - 1 <= Len(a))
        BY <1>6, <4>2
      <4> QED BY <4>1, <4>2
    <3> QED BY <2>1, <2>2, <2>4, <3>1, <3>2
  <2> QED BY <2>3, <2>4
<1>7. Len(b) \in T
  <2>1. 0 .. Len(b) \subseteq T
    <3> HIDE DEF T
    <3> QED BY <1>4, <1>5, <1>6, UpTo
  <2> QED BY <1>4, <2>1
<1>8. g[Len(a)] <= h[Len(b)]
  BY <1>4, <1>7
<1> QED BY <1>1, <1>2, <1>8

\* One more line adds what it counts for.
LEMMA PortionsAppended ==
  ASSUME NEW q \in Seq(Line), NEW l \in Line, NEW items
  PROVE  Portions(Append(q, l), items) = Portions(q, items) + Counted(l, items)
<1> DEFINE a == Append(q, l)
<1>1. /\ a \in Seq(Line) /\ Len(a) = Len(q) + 1 /\ a[Len(q) + 1] = l
      /\ \A n \in 1 .. Len(q) : a[n] = q[n]
      /\ Len(q) \in Nat
  OBVIOUS
<1> HIDE DEF a
<1>2. PICK g : Counts(g, q, items) /\ Portions(q, items) = g[Len(q)]
  BY PortionsAreCounted
<1>3. PICK h : Counts(h, a, items) /\ Portions(a, items) = h[Len(a)]
  BY <1>1, PortionsAreCounted
<1> DEFINE T == { n \in 0 .. Len(q) : g[n] = h[n] }
<1>4. 0 \in T
  BY <1>1, <1>2, <1>3 DEF Counts
<1>5. ASSUME NEW n \in 1 .. Len(q), n - 1 \in T PROVE n \in T
  <2>1. n \in 1 .. Len(a) /\ n \in 0 .. Len(q)
    BY <1>1
  <2> QED BY <1>1, <1>2, <1>3, <1>5, <2>1 DEF Counts
<1>6. 0 .. Len(q) \subseteq T
  <2> HIDE DEF T
  <2> QED BY <1>1, <1>4, <1>5, UpTo
<1>7. g[Len(q)] = h[Len(q)]
  BY <1>1, <1>6
<1>8. h[Len(a)] = h[Len(q)] + Counted(l, items)
  <2>1. Len(a) \in 1 .. Len(a) /\ Len(a) - 1 = Len(q) /\ a[Len(a)] = l
    BY <1>1
  <2> QED BY <1>3, <2>1 DEF Counts
<1> QED BY <1>2, <1>3, <1>7, <1>8 DEF a

\* Copying some of the lines adds nothing.
LEMMA CopiedPortions ==
  ASSUME NEW order \in Seq(Line), NEW at, NEW items
  PROVE  /\ LinesAt(order, at) \in Seq(Line)
         /\ Portions(LinesAt(order, at), items) <= Portions(order, items)
<1>1. PICK g : Copies(g, order, at) /\ LinesAt(order, at) = g[Len(order)]
  BY LinesAreCopied
<1>2. PICK h : Counts(h, order, items) /\ Portions(order, items) = h[Len(order)]
  BY PortionsAreCounted
<1>3. /\ Len(order) \in Nat /\ \A n \in 1 .. Len(order) : order[n] \in Line
      /\ \A n \in 1 .. Len(order) : Counted(order[n], items) \in Nat
  <2>1. \A n \in 1 .. Len(order) : Counted(order[n], items) \in Nat
    BY CountedNat
  <2> QED BY <2>1
<1> DEFINE T == { n \in 0 .. Len(order) : Portions(g[n], items) <= h[n] }
<1>4. 0 \in T
  <2>1. 0 \in 0 .. Len(order) /\ g[0] = <<>> /\ g[0] \in Seq(Line) /\ h[0] = 0
    BY <1>1, <1>2, <1>3 DEF Copies, Counts
  <2>2. Portions(g[0], items) = 0
    BY <2>1, PortionsNat
  <2> QED BY <2>1, <2>2
<1>5. ASSUME NEW n \in 1 .. Len(order), n - 1 \in T PROVE n \in T
  <2>1. n - 1 \in 0 .. Len(order) /\ n \in 0 .. Len(order) /\ order[n] \in Line
    BY <1>3
  <2>2. g[n - 1] \in Seq(Line) /\ h[n - 1] \in Nat /\ h[n] = h[n - 1] + Counted(order[n], items)
    BY <1>1, <1>2, <2>1 DEF Copies, Counts
  <2>3. Portions(Append(g[n - 1], order[n]), items) = Portions(g[n - 1], items) + Counted(order[n], items)
    BY <2>1, <2>2, PortionsAppended
  <2>4. Portions(g[n - 1], items) \in Nat /\ Counted(order[n], items) \in Nat
    BY <1>3, <2>2, PortionsNat
  <2>5. g[n] = Append(g[n - 1], order[n]) \/ g[n] = g[n - 1]
    BY <1>1 DEF Copies
  <2>6. Portions(g[n - 1], items) <= h[n - 1]
    BY <1>5
  <2>7. Portions(g[n], items) <= h[n]
    <3>1. CASE g[n] = Append(g[n - 1], order[n])
      <4>1. Portions(g[n], items) = Portions(g[n - 1], items) + Counted(order[n], items)
        BY <2>3, <3>1
      <4> QED BY <2>2, <2>4, <2>6, <4>1
    <3>2. CASE g[n] = g[n - 1]
      <4>1. Portions(g[n], items) = Portions(g[n - 1], items)
        BY <3>2
      <4> QED BY <2>2, <2>4, <2>6, <4>1
    <3> QED BY <2>5, <3>1, <3>2
  <2> QED BY <2>1, <2>7
<1>6. 0 .. Len(order) \subseteq T
  <2> HIDE DEF T
  <2> QED BY <1>3, <1>4, <1>5, UpTo
<1>7. Portions(g[Len(order)], items) <= h[Len(order)] /\ g[Len(order)] \in Seq(Line)
  BY <1>1, <1>3, <1>6 DEF Copies
<1> QED BY <1>1, <1>2, <1>7

\* add_item keeps the lines well formed and takes nothing away.
LEMMA AddedLine ==
  ASSUME NEW order \in Seq(Line), NEW item \in Items, NEW mild \in BOOLEAN, NEW n \in Nat
  PROVE  LET added == AddLine(order, item, mild, n)
         IN  /\ added \in Seq(Line) /\ Len(added) >= Len(order) /\ Len(added) > 0
             /\ \A items : Portions(added, items) >= Portions(order, items)
<1> DEFINE added == AddLine(order, item, mild, n)
           like == Alike(order, item, mild)
           q == Quantity(n)
           l == [item |-> item, mild |-> mild, qty |-> q]
<1>1. q \in Nat \ {0}
  BY DEF Quantity
<1>2. /\ added \in Seq(Line) /\ Len(added) >= Len(order) /\ Len(added) > 0
      /\ \A items : \A k \in 1 .. Len(order) :
           Counted(order[k], items) <= Counted(added[k], items)
  <2>1. \A k \in 1 .. Len(order) :
          order[k] \in Line /\ order[k].qty \in Nat \ {0}
    <3>1. \A k \in 1 .. Len(order) : order[k] \in Line
      OBVIOUS
    <3> QED BY <3>1 DEF Line
  <2>2. \A items : \A k \in 1 .. Len(order) : Counted(order[k], items) \in Nat
    BY <2>1 DEF Counted
  <2>3. CASE like # {}
    <3>1. like \in SUBSET Nat /\ \A k \in like : k \in 1 .. Len(order)
      BY DEF Alike, Named
    <3>2. Min(like) \in 1 .. Len(order)
      <4> HIDE DEF like
      <4> QED BY <2>3, <3>1, MinIsLeast
    <3> DEFINE m == Min(like)
               grown == [order[m] EXCEPT !.qty = @ + q]
    <3>3. added = [order EXCEPT ![m] = grown]
      BY <2>3 DEF AddLine
    <3> HIDE DEF like, m
    <3>4. grown \in Line /\ grown.item = order[m].item /\ order[m].qty <= grown.qty
      <4>1. order[m] \in Line
        BY <2>1, <3>2 DEF m
      <4> HIDE DEF q
      <4>2. order[m].qty + q \in Nat \ {0} /\ order[m].qty <= order[m].qty + q
        BY <1>1, <4>1 DEF Line
      <4>3. grown = [order[m] EXCEPT !.qty = order[m].qty + q]
        OBVIOUS
      <4> HIDE DEF grown
      <4> QED BY <4>1, <4>2, <4>3 DEF Line
    <3> HIDE DEF grown, added
    <3>5. added \in Seq(Line) /\ Len(added) = Len(order) /\ Len(order) > 0
      BY <3>2, <3>3, <3>4 DEF m
    <3>6. ASSUME NEW items, NEW k \in 1 .. Len(order)
          PROVE  Counted(order[k], items) <= Counted(added[k], items)
      <4>1. CASE k = m
        <5>1. added[k] = grown /\ order[k].item = grown.item /\ order[k].qty <= grown.qty
          BY <3>3, <3>4, <4>1
        <5> QED BY <5>1 DEF Counted
      <4>2. CASE k # m
        <5>1. added[k] = order[k]
          BY <3>3, <4>2
        <5>2. Counted(order[k], items) \in Nat
          BY <2>2
        <5> QED BY <5>1, <5>2
      <4> QED BY <4>1, <4>2
    <3>7. Len(order) \in Nat
      OBVIOUS
    <3> QED BY <3>5, <3>6, <3>7
  <2>4. CASE like = {}
    <3>1. added = Append(order, l)
      BY <2>4 DEF AddLine
    <3>2. l \in Line
      BY <1>1 DEF Line
    <3> HIDE DEF added, l, like
    <3>3. /\ added \in Seq(Line) /\ Len(added) = Len(order) + 1 /\ Len(order) \in Nat
          /\ \A k \in 1 .. Len(order) : added[k] = order[k]
      BY <3>1, <3>2
    <3>4. ASSUME NEW items, NEW k \in 1 .. Len(order)
          PROVE  Counted(order[k], items) <= Counted(added[k], items)
      <4>1. added[k] = order[k] /\ Counted(order[k], items) \in Nat
        BY <2>2, <3>3
      <4> QED BY <4>1
    <3> QED BY <3>3, <3>4
  <2> QED BY <2>3, <2>4
<1> HIDE DEF added
<1>3. ASSUME NEW items PROVE Portions(added, items) >= Portions(order, items)
  <2>1. Portions(order, items) <= Portions(added, items)
    BY <1>2, MorePortions
  <2>2. Portions(order, items) \in Nat /\ Portions(added, items) \in Nat
    BY <1>2, PortionsNat
  <2> QED BY <2>1, <2>2
<1> QED BY <1>2, <1>3 DEF added

\* Neither does add_items, whatever the dishes.
LEMMA EachIsAdded ==
  ASSUME NEW order \in Seq(Line), NEW dishes \in Seq(Items)
  PROVE  LET added == AddEach(order, dishes)
         IN  /\ added \in Seq(Line) /\ Len(added) >= Len(order)
             /\ \A items : Portions(added, items) >= Portions(order, items)
<1> DEFINE N == Len(dishes)
           More(q) == /\ q \in Seq(Line) /\ Len(q) >= Len(order)
                      /\ \A items : Portions(q, items) >= Portions(order, items)
           st == [p \in Seq(Line) \X (1 .. N) |-> AddLine(p[1], dishes[p[2]], FALSE, 1)]
           Is(g) == g = [n \in 0 .. Len(dishes) |->
                         IF n = 0 THEN order ELSE AddLine(g[n - 1], dishes[n], FALSE, 1)]
           f == CHOOSE f : Is(f)
<1>1. N \in Nat /\ \A n \in 1 .. N : dishes[n] \in Items
  OBVIOUS
<1>2. st \in [Seq(Line) \X (1 .. N) -> Seq(Line)]
  <2>1. ASSUME NEW p \in Seq(Line) \X (1 .. N)
        PROVE  AddLine(p[1], dishes[p[2]], FALSE, 1) \in Seq(Line)
    <3>1. p[1] \in Seq(Line) /\ dishes[p[2]] \in Items /\ FALSE \in BOOLEAN /\ 1 \in Nat
      BY <1>1
    <3> QED BY <3>1, AddedLine
  <2> QED BY <2>1
<1>3. PICK g \in [0 .. N -> Seq(Line)] : Steps(g, order, st, N)
  <2> HIDE DEF st, N
  <2> QED BY <1>1, <1>2, Recursion
<1>4. ASSUME NEW n \in 1 .. N PROVE g[n] = AddLine(g[n - 1], dishes[n], FALSE, 1)
  <2>1. n - 1 \in 0 .. N
    BY <1>1
  <2>2. <<g[n - 1], n>> \in Seq(Line) \X (1 .. N) /\ g[n] = st[<<g[n - 1], n>>]
    <3> HIDE DEF st
    <3> QED BY <1>3, <2>1 DEF Steps
  <2> QED BY <2>2
<1>5. g = [n \in 0 .. N |-> IF n = 0 THEN order ELSE AddLine(g[n - 1], dishes[n], FALSE, 1)]
  <2>1. g[0] = order /\ g \in [0 .. N -> Seq(Line)] /\ \A n \in 0 .. N : n = 0 \/ n \in 1 .. N
    BY <1>1, <1>3 DEF Steps
  <2> HIDE DEF N, st
  <2> QED BY <2>1, <1>4
<1>6. Is(f)
  <2>1. Is(g)
    BY <1>5
  <2> HIDE DEF Is
  <2> QED BY <2>1
<1>7. AddEach(order, dishes) = f[N]
  BY DEF AddEach
<1> HIDE DEF f
<1>8. f[0] = order /\ \A n \in 1 .. N : f[n] = AddLine(f[n - 1], dishes[n], FALSE, 1)
  <2>1. 0 \in 0 .. N /\ \A n \in 1 .. N : n \in 0 .. N /\ n # 0
    BY <1>1
  <2> QED BY <1>6, <2>1
<1> DEFINE T == { n \in 0 .. N : More(f[n]) }
<1>9. 0 \in T
  <2>1. 0 \in 0 .. N /\ Len(order) \in Nat
    BY <1>1
  <2>2. \A items : Portions(order, items) \in Nat
    BY PortionsNat
  <2> QED BY <1>8, <2>1, <2>2
<1>10. ASSUME NEW n \in 1 .. N, n - 1 \in T PROVE n \in T
  <2>1. More(f[n - 1]) /\ dishes[n] \in Items /\ FALSE \in BOOLEAN /\ 1 \in Nat /\ n \in 0 .. N
    BY <1>1, <1>10
  <2>2. /\ f[n] \in Seq(Line) /\ Len(f[n]) >= Len(f[n - 1])
        /\ \A items : Portions(f[n], items) >= Portions(f[n - 1], items)
    <3>1. f[n] = AddLine(f[n - 1], dishes[n], FALSE, 1)
      BY <1>8
    <3> QED BY <2>1, <3>1, AddedLine
  <2>3. Len(f[n]) \in Nat /\ Len(f[n - 1]) \in Nat /\ Len(order) \in Nat
    BY <2>1, <2>2
  <2>4. ASSUME NEW items PROVE Portions(f[n], items) >= Portions(order, items)
    <3>1. /\ Portions(f[n], items) \in Nat /\ Portions(f[n - 1], items) \in Nat
          /\ Portions(order, items) \in Nat
      BY <2>1, <2>2, PortionsNat
    <3> QED BY <2>1, <2>2, <3>1
  <2>5. Len(f[n]) >= Len(order)
    BY <2>1, <2>2, <2>3
  <2> QED BY <2>1, <2>2, <2>4, <2>5
<1>11. 0 .. N \subseteq T
  <2> HIDE DEF T, N
  <2> QED BY <1>1, <1>9, <1>10, UpTo
<1>12. More(f[N])
  BY <1>1, <1>11
<1> HIDE DEF f
<1> QED BY <1>7, <1>12

\* The changes in place keep the lines well formed; mildness adds no portions.
LEMMA ChangedLines ==
  ASSUME NEW order \in Seq(Line), NEW at, NEW n \in Nat
  PROVE  /\ MakeMild(order, at) \in Seq(Line)
         /\ SetQuantity(order, at, n) \in Seq(Line)
         /\ AddQuantity(order, at, n) \in Seq(Line)
         /\ \A items : Portions(MakeMild(order, at), items) <= Portions(order, items)
<1>1. /\ Len(order) \in Nat /\ DOMAIN order = 1 .. Len(order)
      /\ \A i \in DOMAIN order : order[i] \in Line
  OBVIOUS
<1>2. ASSUME NEW f, f \in [1 .. Len(order) -> Line]
      PROVE  f \in Seq(Line) /\ Len(f) = Len(order)
  BY <1>1, <1>2
<1>3. MakeMild(order, at) \in [1 .. Len(order) -> Line]
  <2>1. ASSUME NEW i \in DOMAIN order PROVE [order[i] EXCEPT !.mild = @ \/ i \in at] \in Line
    <3>1. order[i] \in Line /\ (order[i].mild \/ i \in at) \in BOOLEAN
      BY <1>1
    <3> DEFINE b == order[i].mild \/ i \in at
    <3> HIDE DEF b
    <3>2. b \in BOOLEAN
      BY <3>1 DEF b
    <3>3. [order[i] EXCEPT !.mild = b] \in Line
      BY <3>1, <3>2 DEF Line
    <3> QED BY <3>3 DEF b
  <2> QED BY <1>1, <2>1 DEF MakeMild
<1>4. Quantity(n) \in Nat \ {0}
  BY DEF Quantity
<1>5. SetQuantity(order, at, n) \in [1 .. Len(order) -> Line]
  <2>1. ASSUME NEW i \in DOMAIN order PROVE [order[i] EXCEPT !.qty = Quantity(n)] \in Line
    BY <1>1, <1>4 DEF Line
  <2> QED BY <1>1, <2>1 DEF SetQuantity
<1>6. AddQuantity(order, at, n) \in [1 .. Len(order) -> Line]
  <2>1. ASSUME NEW i \in DOMAIN order PROVE [order[i] EXCEPT !.qty = @ + n] \in Line
    <3>1. order[i] \in Line /\ order[i].qty + n \in Nat \ {0}
      BY <1>1 DEF Line
    <3> QED BY <3>1 DEF Line
  <2> QED BY <1>1, <2>1 DEF AddQuantity
<1>7. ASSUME NEW items PROVE Portions(MakeMild(order, at), items) <= Portions(order, items)
  <2> DEFINE m == MakeMild(order, at)
  <2>1. m \in Seq(Line) /\ Len(m) = Len(order)
    BY <1>2, <1>3
  <2>2. ASSUME NEW i \in 1 .. Len(m) PROVE Counted(m[i], items) <= Counted(order[i], items)
    <3>1. order[i] \in Line /\ m[i] = [order[i] EXCEPT !.mild = @ \/ i \in at]
      BY <1>1, <2>1 DEF MakeMild
    <3>2. m[i].item = order[i].item /\ m[i].qty = order[i].qty /\ order[i].qty \in Nat
      BY <3>1 DEF Line
    <3> HIDE DEF m
    <3> QED BY <3>2 DEF Counted
  <2>3. Len(m) <= Len(order)
    BY <1>1, <2>1
  <2> HIDE DEF m
  <2>4. Portions(m, items) <= Portions(order, items)
    BY <2>1, <2>2, <2>3, MorePortions
  <2> QED BY <2>4 DEF m
<1> QED BY <1>2, <1>3, <1>5, <1>6, <1>7

\* replace_item keeps the lines well formed.
LEMMA ReplacedLine ==
  ASSUME NEW order \in Seq(Line), NEW old, NEW new \in Items, Named(order, old) # {}
  PROVE  ReplaceLine(order, old, new) \in Seq(Line)
<1> DEFINE first == Min(Named(order, old))
           l == [item |-> new, mild |-> FALSE, qty |-> 1]
<1>1. Named(order, old) \in SUBSET Nat /\ Named(order, old) \subseteq 1 .. Len(order)
  BY DEF Named
<1>2. first \in 1 .. Len(order)
  BY <1>1, MinIsLeast
<1>3. l \in Line
  BY DEF Line
<1> HIDE DEF first, l
<1>4. [order EXCEPT ![first] = l] \in Seq(Line)
  BY <1>2, <1>3
<1>5. LinesAt([order EXCEPT ![first] = l], (DOMAIN order \ Named(order, old)) \cup {first}) \in Seq(Line)
  BY <1>4, CopiedPortions
<1> QED BY <1>5 DEF ReplaceLine, first, l

-----------------------------------------------------------------------------
(* The session, typed *)

Asking == {"addAll", "removeAll", "item"}

Pendings ==
  [type : {None, "clear", "which"}, of : {None}]
  \cup [type : {"addAll", "removeAll"}, of : Categories]
  \cup [type : {"item"}, of : Items]

Places == Addresses \cup {None}
Numbers == {"phone", None}

\* Former values of some fields.
Snapshots ==
  { h \in UNION { [F -> Seq(Line) \cup Places \cup Numbers \cup BOOLEAN] :
                   F \in SUBSET {"order", "address", "phone", "submitted"} } :
      /\ "order" \in DOMAIN h => h["order"] \in Seq(Line)
      /\ "address" \in DOMAIN h => h["address"] \in Places
      /\ "phone" \in DOMAIN h => h["phone"] \in Numbers
      /\ "submitted" \in DOMAIN h => h["submitted"] \in BOOLEAN }

SessionState ==
  [order : Seq(Line), pending : Pendings, candidate : Places, address : Places,
   phone : Numbers, fulfillment : {"delivery", "pickup"}, stage : Stages,
   recommended : BOOLEAN, last : Items \cup {None}, snapshot : Snapshots,
   submitted : BOOLEAN]

\* What a stage and a submission promise.
Sound(s) ==
  /\ s.stage = "collecting_phone" => s.address # None /\ s.phone = None
  /\ s.submitted => Missing(s) = None

\* A reply leaves a sound session and keeps the snapshot or drops it; a question
\* that waits for an answer was asked by this reply; and a question whether to
\* clear the order is about no fewer dishes, and was asked now or before.
Questions(s, r) ==
  LET t == r.session
  IN  /\ t.pending.type \in Asking => r.asks = t.pending.type
      /\ t.pending.type = "clear" =>
           /\ \A items : Portions(t.order, items) <= Portions(s.order, items)
           /\ s.pending.type = "clear" \/ r.asks = "clear"
           /\ t.candidate = None => r.asks \notin {"informed", "address"}

Fine(s, r) ==
  /\ r.session \in SessionState /\ Sound(r.session)
  /\ r.session.snapshot \in {s.snapshot, NoSnapshot}
  /\ Questions(s, r)

\* The snapshot of a fresh session saves nothing.
LEMMA NothingSaved == NoSnapshot \in Snapshots /\ DOMAIN NoSnapshot = {}
<1>1. NoSnapshot = [f \in {} |-> None] /\ DOMAIN NoSnapshot = {}
  BY DEF NoSnapshot
<1>2. NoSnapshot \in [{} -> Seq(Line) \cup Places \cup Numbers \cup BOOLEAN]
  BY <1>1
<1> QED BY <1>1, <1>2 DEF Snapshots

\* The types of a session's fields.
LEMMA SessionFields ==
  ASSUME NEW s \in SessionState
  PROVE  /\ s.order \in Seq(Line) /\ s.pending \in Pendings /\ s.candidate \in Places
         /\ s.address \in Places /\ s.phone \in Numbers /\ s.last \in Items \cup {None}
         /\ s.stage \in Stages /\ s.snapshot \in Snapshots /\ s.submitted \in BOOLEAN
         /\ s.fulfillment \in {"delivery", "pickup"}
BY DEF SessionState

\* No question pending is no question that a yes answers.
LEMMA NoPendingType == NoPending \in Pendings /\ NoPending.type \notin Asking /\ NoPending.type # "clear"
BY DEF NoPending, Pendings, Asking, None

\* An order has no more portions than itself.
LEMMA SamePortions ==
  ASSUME NEW order \in Seq(Line) PROVE \A items : Portions(order, items) <= Portions(order, items)
<1>1. \A items : Portions(order, items) \in Nat
  BY PortionsNat
<1> QED BY <1>1

\* A reply that leaves the order as it is, or no question about it.
LEMMA FineReply ==
  ASSUME NEW s \in SessionState, NEW t \in SessionState, NEW asks, Sound(t),
         t.snapshot \in {s.snapshot, NoSnapshot},
         t.pending.type \in Asking => asks = t.pending.type,
         t.pending.type = "clear" =>
           /\ t.order = s.order
           /\ s.pending.type = "clear" \/ asks = "clear"
           /\ t.candidate = None => asks \notin {"informed", "address"}
  PROVE  Fine(s, Reply(t, asks))
<1>1. Reply(t, asks).session = t /\ Reply(t, asks).asks = asks
  BY DEF Reply
<1>2. \A items : Portions(s.order, items) <= Portions(s.order, items)
  BY SessionFields, SamePortions
<1> QED BY <1>1, <1>2 DEF Fine, Questions

\* An order operation leaves no question whether to clear (order_agent.py:19).
LEMMA UnstalePending ==
  ASSUME NEW s \in SessionState, s.pending.type \notin Asking
  PROVE  Unstale(s) \in Pendings /\ Unstale(s).type \notin Asking /\ Unstale(s).type # "clear"
BY SessionFields, NoPendingType DEF Unstale

\* An order taken up again has well-formed lines.
LEMMA RestartedOrder ==
  ASSUME NEW s \in SessionState PROVE Restarted(s) \in Seq(Line)
BY SessionFields DEF Restarted

\* Ordering a dish; it leaves no question that a yes answers.
LEMMA FineOrderFood ==
  ASSUME NEW s \in SessionState, s.submitted = FALSE, s.pending.type \notin Asking,
         NEW item \in Items, NEW n \in Nat, NEW mild \in BOOLEAN
  PROVE  LET r == OrderFood(s, item, n, mild)
         IN  /\ Fine(s, r) /\ r.session.submitted = FALSE
             /\ r.session.pending.type \notin Asking /\ r.session.pending.type # "clear"
<1> DEFINE o == AddLine(Restarted(s), item, mild, n)
           u == Unstale(s)
           t == [s EXCEPT !.order = o, !.stage = "ordering", !.last = item, !.pending = u]
<1>1. o \in Seq(Line)
  BY RestartedOrder, AddedLine
<1>2. u \in Pendings /\ u.type \notin Asking /\ u.type # "clear"
  BY UnstalePending
<1>3. OrderFood(s, item, n, mild) = Reply(t, None)
  BY DEF OrderFood
<1> HIDE DEF o, u
<1>4. /\ t \in SessionState /\ t.submitted = FALSE /\ t.pending = u
      /\ t.stage = "ordering" /\ t.snapshot = s.snapshot
  BY <1>1, <1>2 DEF SessionState, Stages
<1> HIDE DEF t
<1>5. Fine(s, Reply(t, None))
  BY <1>2, <1>4, FineReply DEF Sound
<1>6. Reply(t, None).session = t
  BY DEF Reply
<1> QED BY <1>2, <1>3, <1>4, <1>5, <1>6


\* Ordering several dishes.
LEMMA FineOrderMultiple ==
  ASSUME NEW s \in SessionState, s.submitted = FALSE, s.pending.type \notin Asking
  PROVE  Fine(s, OrderMultiple(s, Fragment))
<1> DEFINE o == AddEach(Restarted(s), Fragment)
           u == Unstale(s)
           last == Last(Fragment)
           t == [s EXCEPT !.order = o, !.stage = "ordering", !.last = last, !.pending = u]
<1>1. o \in Seq(Line)
  BY RestartedOrder, EachIsAdded, DishesAssumption
<1>2. u \in Pendings /\ u.type \notin Asking /\ u.type # "clear"
  BY UnstalePending
<1>3. last \in Items
  <2>1. Len(Fragment) \in 1 .. Len(Fragment)
    BY DishesAssumption
  <2> QED BY <2>1, DishesAssumption DEF Last
<1>4. OrderMultiple(s, Fragment) = Reply(t, None)
  BY DEF OrderMultiple
<1> HIDE DEF o, u, last
<1>5. /\ t \in SessionState /\ t.submitted = FALSE /\ t.pending = u
      /\ t.stage = "ordering" /\ t.snapshot = s.snapshot
  BY <1>1, <1>2, <1>3 DEF SessionState, Stages
<1> HIDE DEF t
<1> QED BY <1>2, <1>4, <1>5, FineReply DEF Sound

\* Ordering a category asks before it adds.
LEMMA FineOrderCategory ==
  ASSUME NEW s \in SessionState, s.submitted = FALSE, s.pending.type \notin Asking, Sound(s),
         NEW c \in Categories
  PROVE  Fine(s, OrderCategory(s, c))
<1>1. CASE Len(DishesOf[c]) > MaxUnasked
  <2> DEFINE p == Pending("addAll", c)
             t == [s EXCEPT !.pending = p]
  <2>1. p \in Pendings /\ p.type = "addAll"
    BY DEF Pending, Pendings
  <2>2. OrderCategory(s, c) = Reply(t, "addAll")
    BY <1>1 DEF OrderCategory
  <2> HIDE DEF p
  <2>3. /\ t \in SessionState /\ t.pending = p /\ t.submitted = FALSE /\ t.stage = s.stage
        /\ t.address = s.address /\ t.phone = s.phone /\ t.snapshot = s.snapshot
    BY <2>1 DEF SessionState
  <2> HIDE DEF t
  <2> QED BY <2>1, <2>2, <2>3, FineReply DEF Sound, Asking
<1>2. CASE ~ (Len(DishesOf[c]) > MaxUnasked)
  <2> DEFINE o == AddEach(Restarted(s), DishesOf[c])
             u == Unstale(s)
             t == [s EXCEPT !.order = o, !.stage = "ordering", !.pending = u]
  <2>1. o \in Seq(Line)
    BY RestartedOrder, EachIsAdded, DishesAssumption
  <2>2. u \in Pendings /\ u.type \notin Asking /\ u.type # "clear"
    BY UnstalePending
  <2>3. OrderCategory(s, c) = Reply(t, None)
    BY <1>2 DEF OrderCategory
  <2> HIDE DEF o, u
  <2>4. /\ t \in SessionState /\ t.submitted = FALSE /\ t.pending = u
        /\ t.stage = "ordering" /\ t.snapshot = s.snapshot
    BY <2>1, <2>2 DEF SessionState, Stages
  <2> HIDE DEF t
  <2> QED BY <2>2, <2>3, <2>4, FineReply DEF Sound
<1> QED BY <1>1, <1>2

\* Choosing one of the recommended dishes.
LEMMA FineSelectRecommendation ==
  ASSUME NEW s \in SessionState, s.submitted = FALSE, s.pending.type \notin Asking,
         NEW i \in DOMAIN Recommended, NEW mild \in BOOLEAN
  PROVE  Fine(s, SelectRecommendation(s, i, mild))
<1>1. Recommended[i] \in Items /\ 1 \in Nat
  BY DishesAssumption
<1>2. Fine(s, OrderFood(s, Recommended[i], 1, mild))
  BY <1>1, FineOrderFood
<1> QED BY <1>2 DEF SelectRecommendation

\* A line names a dish of the menu.
LEMMA DishOfLine ==
  ASSUME NEW order \in Seq(Line), NEW i \in DOMAIN order
  PROVE  order[i] \in Line /\ order[i].item \in Items /\ order[i].qty \in Nat \ {0}
<1>1. order[i] \in Line
  OBVIOUS
<1> QED BY <1>1 DEF Line

\* The session stays as it is.
LEMMA FineSame ==
  ASSUME NEW s \in SessionState, Sound(s), s.pending.type \notin Asking, NEW asks,
         s.pending.type = "clear" => asks \notin {"informed", "address"}
  PROVE  Fine(s, Reply(s, asks))
BY FineReply

\* One more of the last dish.
LEMMA FineRepeatLast ==
  ASSUME NEW s \in SessionState, s.submitted = FALSE, s.pending.type \notin Asking, Sound(s)
  PROVE  Fine(s, RepeatLast(s))
<1>1. CASE s.order = <<>>
  <2>1. RepeatLast(s) = Reply(s, None)
    BY <1>1 DEF RepeatLast
  <2> QED BY <2>1, FineSame DEF None
<1>2. CASE s.order # <<>>
  <2> DEFINE o == AddQuantity(s.order, {Target(s)}, 1)
             last == s.order[Target(s)].item
             u == Unstale(s)
             t == [s EXCEPT !.order = o, !.last = last, !.pending = u]
  <2>1. s.order \in Seq(Line) /\ Len(s.order) \in DOMAIN s.order
    BY <1>2, SessionFields
  <2>2. Target(s) \in DOMAIN s.order
    <3>1. Named(s.order, s.last) \in SUBSET (1 .. Len(s.order)) /\ Len(s.order) \in Nat
      BY <2>1 DEF Named
    <3>2. Named(s.order, s.last) # {} => Max(Named(s.order, s.last)) \in 1 .. Len(s.order)
      BY <3>1, MaxIsGreatest
    <3> QED BY <2>1, <3>2 DEF Target
  <2>3. o \in Seq(Line) /\ last \in Items
    BY <2>1, <2>2, ChangedLines, DishOfLine
  <2>4. u \in Pendings /\ u.type \notin Asking /\ u.type # "clear"
    BY UnstalePending
  <2>5. RepeatLast(s) = Reply(t, None)
    BY <1>2 DEF RepeatLast
  <2> HIDE DEF o, last, u
  <2>6. /\ t \in SessionState /\ t.submitted = FALSE /\ t.pending = u /\ t.stage = s.stage
        /\ t.address = s.address /\ t.phone = s.phone /\ t.snapshot = s.snapshot
    BY <2>3, <2>4 DEF SessionState
  <2> HIDE DEF t
  <2> QED BY <2>4, <2>5, <2>6, FineReply DEF Sound
<1> QED BY <1>1, <1>2

\* A wish for some lines leaves the question that is open.
LEMMA FineUpdateOption ==
  ASSUME NEW s \in SessionState, s.submitted = FALSE, s.pending.type \notin Asking, Sound(s),
         NEW at, at \subseteq DOMAIN s.order
  PROVE  Fine(s, UpdateOption(s, at))
<1>1. CASE at = {}
  <2>1. UpdateOption(s, at) = Reply(s, None)
    BY <1>1 DEF UpdateOption
  <2> QED BY <2>1, FineSame DEF None
<1>2. CASE at # {}
  <2> DEFINE o == MakeMild(s.order, at)
             last == s.order[Min(at)].item
             t == [s EXCEPT !.order = o, !.last = last]
  <2>1. s.order \in Seq(Line) /\ at \in SUBSET Nat
    BY SessionFields
  <2>2. Min(at) \in DOMAIN s.order
    BY <1>2, <2>1, MinIsLeast
  <2>3. o \in Seq(Line) /\ last \in Items /\ \A items : Portions(o, items) <= Portions(s.order, items)
    <3>1. 0 \in Nat
      OBVIOUS
    <3> QED BY <2>1, <2>2, <3>1, ChangedLines, DishOfLine
  <2>4. UpdateOption(s, at) = Reply(t, None)
    BY <1>2 DEF UpdateOption
  <2> HIDE DEF o, last
  <2>5. /\ t \in SessionState /\ t.submitted = FALSE /\ t.pending = s.pending /\ t.order = o
        /\ t.stage = s.stage /\ t.address = s.address /\ t.phone = s.phone
        /\ t.snapshot = s.snapshot
    BY <2>3 DEF SessionState
  <2> HIDE DEF t
  <2>6. Reply(t, None).session = t /\ Reply(t, None).asks = None
    BY DEF Reply
  <2> QED BY <2>3, <2>4, <2>5, <2>6 DEF Fine, Questions, Sound, None
<1> QED BY <1>1, <1>2

\* Another quantity.
LEMMA FineUpdateQuantity ==
  ASSUME NEW s \in SessionState, s.submitted = FALSE, s.pending.type \notin Asking, Sound(s),
         NEW at, at \subseteq DOMAIN s.order, NEW n \in Nat
  PROVE  Fine(s, UpdateQuantity(s, at, n))
<1>1. CASE at = {}
  <2>1. UpdateQuantity(s, at, n) = Reply(s, None)
    BY <1>1 DEF UpdateQuantity
  <2> QED BY <2>1, FineSame DEF None
<1>2. CASE at # {}
  <2> DEFINE o == SetQuantity(s.order, at, n)
             last == s.order[Min(at)].item
             u == Unstale(s)
             t == [s EXCEPT !.order = o, !.last = last, !.pending = u]
  <2>1. s.order \in Seq(Line) /\ at \in SUBSET Nat
    BY SessionFields
  <2>2. Min(at) \in DOMAIN s.order
    BY <1>2, <2>1, MinIsLeast
  <2>3. o \in Seq(Line) /\ last \in Items
    BY <2>1, <2>2, ChangedLines, DishOfLine
  <2>4. u \in Pendings /\ u.type \notin Asking /\ u.type # "clear"
    BY UnstalePending
  <2>5. UpdateQuantity(s, at, n) = Reply(t, None)
    BY <1>2 DEF UpdateQuantity
  <2> HIDE DEF o, last, u
  <2>6. /\ t \in SessionState /\ t.submitted = FALSE /\ t.pending = u /\ t.stage = s.stage
        /\ t.address = s.address /\ t.phone = s.phone /\ t.snapshot = s.snapshot
    BY <2>3, <2>4 DEF SessionState
  <2> HIDE DEF t
  <2> QED BY <2>4, <2>5, <2>6, FineReply DEF Sound
<1> QED BY <1>1, <1>2

\* Taking lines away leaves the question that is open.
LEMMA FineRemoval ==
  ASSUME NEW s \in SessionState, s.submitted = FALSE, s.pending.type \notin Asking, Sound(s), NEW at
  PROVE  Fine(s, Reply([s EXCEPT !.order = LinesAt(s.order, at)], None))
<1> DEFINE o == LinesAt(s.order, at)
           t == [s EXCEPT !.order = o]
<1>1. o \in Seq(Line) /\ \A items : Portions(o, items) <= Portions(s.order, items)
  BY SessionFields, CopiedPortions
<1> HIDE DEF o
<1>2. /\ t \in SessionState /\ t.submitted = FALSE /\ t.pending = s.pending /\ t.order = o
      /\ t.stage = s.stage /\ t.address = s.address /\ t.phone = s.phone
      /\ t.snapshot = s.snapshot
  BY <1>1 DEF SessionState
<1> HIDE DEF t
<1>3. Reply(t, None).session = t /\ Reply(t, None).asks = None
  BY DEF Reply
<1>4. Fine(s, Reply(t, None))
  BY <1>1, <1>2, <1>3 DEF Fine, Questions, Sound, None
<1> QED BY <1>4 DEF t, o

\* Taking away a dish, a line or a category.
LEMMA FineRemove ==
  ASSUME NEW s \in SessionState, s.submitted = FALSE, s.pending.type \notin Asking, Sound(s)
  PROVE  /\ \A item : Fine(s, RemoveItem(s, item))
         /\ \A i : Fine(s, RemoveIndex(s, i))
         /\ \A c \in Categories : Fine(s, RemoveCategory(s, c))
<1>1. ASSUME NEW item PROVE Fine(s, RemoveItem(s, item))
  BY FineRemoval DEF RemoveItem, Without
<1>2. ASSUME NEW i PROVE Fine(s, RemoveIndex(s, i))
  BY FineRemoval DEF RemoveIndex
<1>3. ASSUME NEW c \in Categories PROVE Fine(s, RemoveCategory(s, c))
  <2>1. CASE Cardinality(OfCategory(s, c)) > 1
    <3> DEFINE p == Pending("removeAll", c)
               t == [s EXCEPT !.pending = p]
    <3>1. p \in Pendings /\ p.type = "removeAll"
      BY DEF Pending, Pendings
    <3>2. RemoveCategory(s, c) = Reply(t, "removeAll")
      BY <2>1 DEF RemoveCategory
    <3> HIDE DEF p
    <3>3. /\ t \in SessionState /\ t.pending = p /\ t.submitted = FALSE /\ t.stage = s.stage
          /\ t.address = s.address /\ t.phone = s.phone /\ t.snapshot = s.snapshot
      BY <3>1 DEF SessionState
    <3> HIDE DEF t
    <3> QED BY <3>1, <3>2, <3>3, FineReply DEF Sound, Asking
  <2>2. CASE ~ (Cardinality(OfCategory(s, c)) > 1)
    <3>1. RemoveCategory(s, c) = Reply([s EXCEPT !.order = Without(s.order, Range(DishesOf[c]))], None)
      BY <2>2 DEF RemoveCategory
    <3> QED BY <3>1, FineRemoval DEF Without
  <2> QED BY <2>1, <2>2
<1> QED BY <1>1, <1>2, <1>3

\* One dish for another.
LEMMA FineReplaceItem ==
  ASSUME NEW s \in SessionState, s.submitted = FALSE, s.pending.type \notin Asking, Sound(s),
         NEW old, NEW new \in Items
  PROVE  Fine(s, ReplaceItem(s, old, new))
<1>1. CASE Named(s.order, old) = {}
  <2>1. ReplaceItem(s, old, new) = Reply(s, None)
    BY <1>1 DEF ReplaceItem
  <2> QED BY <2>1, FineSame DEF None
<1>2. CASE Named(s.order, old) # {}
  <2> DEFINE o == ReplaceLine(s.order, old, new)
             u == Unstale(s)
             t == [s EXCEPT !.order = o, !.last = new, !.pending = u]
  <2>1. o \in Seq(Line)
    BY <1>2, SessionFields, ReplacedLine
  <2>2. u \in Pendings /\ u.type \notin Asking /\ u.type # "clear"
    BY UnstalePending
  <2>3. ReplaceItem(s, old, new) = Reply(t, None)
    BY <1>2 DEF ReplaceItem
  <2> HIDE DEF o, u
  <2>4. /\ t \in SessionState /\ t.submitted = FALSE /\ t.pending = u /\ t.stage = s.stage
        /\ t.address = s.address /\ t.phone = s.phone /\ t.snapshot = s.snapshot
    BY <2>1, <2>2 DEF SessionState
  <2> HIDE DEF t
  <2> QED BY <2>2, <2>3, <2>4, FineReply DEF Sound
<1> QED BY <1>1, <1>2

\* Clearing the order, which also forgets what an undo would bring back.
LEMMA FineClearOrder ==
  ASSUME NEW s \in SessionState, s.submitted = FALSE
  PROVE  Fine(s, ClearOrder(s)) /\ ClearOrder(s).session.snapshot = NoSnapshot
<1> DEFINE o == <<>>
           p == NoPending
           h == NoSnapshot
           t == [s EXCEPT !.order = o, !.pending = p, !.stage = "ordering", !.snapshot = h,
                          !.last = None]
<1>1. o \in Seq(Line) /\ p \in Pendings /\ p.type \notin Asking /\ p.type # "clear" /\ h \in Snapshots
  BY NothingSaved, NoPendingType
<1>2. ClearOrder(s) = Reply(t, None)
  BY DEF ClearOrder
<1> HIDE DEF o, p, h
<1>3. /\ t \in SessionState /\ t.submitted = FALSE /\ t.pending = p /\ t.stage = "ordering"
      /\ t.snapshot = h
  BY <1>1 DEF SessionState, Stages
<1> HIDE DEF t
<1>4. Fine(s, Reply(t, None))
  BY <1>1, <1>3, FineReply DEF Sound, h
<1> QED BY <1>2, <1>3, <1>4 DEF Reply, h

\* Pickup or delivery.
LEMMA FineChooseFulfillment ==
  ASSUME NEW s \in SessionState, s.submitted = FALSE, s.pending.type \notin Asking,
         NEW how \in {"pickup", "delivery"}
  PROVE  Fine(s, ChooseFulfillment(s, how))
<1>1. CASE how = "pickup"
  <2> DEFINE t == [s EXCEPT !.fulfillment = how, !.stage = "confirming", !.address = None]
  <2>1. ChooseFulfillment(s, how) = Reply(t, "submit")
    BY <1>1 DEF ChooseFulfillment
  <2>2. /\ t \in SessionState /\ t.submitted = FALSE /\ t.pending = s.pending
        /\ t.stage = "confirming" /\ t.snapshot = s.snapshot /\ t.order = s.order
    <3>1. None \in Places /\ "confirming" \in Stages
      BY DEF Places, Stages
    <3> QED BY <3>1 DEF SessionState
  <2> HIDE DEF t
  <2> QED BY <2>1, <2>2, FineReply DEF Sound
<1>2. CASE how = "delivery"
  <2> DEFINE t == [s EXCEPT !.fulfillment = how, !.stage = "collecting_address"]
  <2>1. ChooseFulfillment(s, how) = Reply(t, "where")
    BY <1>2 DEF ChooseFulfillment
  <2>2. /\ t \in SessionState /\ t.submitted = FALSE /\ t.pending = s.pending
        /\ t.stage = "collecting_address" /\ t.snapshot = s.snapshot /\ t.order = s.order
    BY DEF SessionState, Stages
  <2> HIDE DEF t
  <2> QED BY <2>1, <2>2, FineReply DEF Sound
<1> QED BY <1>1, <1>2

\* An address.
LEMMA FineProvideAddress ==
  ASSUME NEW s \in SessionState, s.submitted = FALSE, s.pending.type \notin Asking,
         NEW a \in Addresses
  PROVE  /\ Fine(s, ProvideAddress(s, a))
         /\ ProvideAddress(s, a).session.order = s.order
         /\ ProvideAddress(s, a).session.address = a
<1> DEFINE stage == IF s.phone = None THEN "collecting_phone" ELSE "confirming"
           asks == IF s.phone = None THEN "phone" ELSE "submit"
           t == [s EXCEPT !.address = a, !.candidate = None, !.stage = stage]
<1>1. /\ stage \in Stages /\ stage \in {"collecting_phone", "confirming"}
      /\ stage = "collecting_phone" => s.phone = None
      /\ asks \notin {"informed", "address"}
  BY DEF Stages, None
<1>2. ProvideAddress(s, a) = Reply(t, asks)
  BY DEF ProvideAddress
<1>3. a \in Places /\ None \in Places /\ a # None
  BY AddressesAssumption DEF Places
<1> HIDE DEF stage, asks
<1>4. /\ t \in SessionState /\ t.submitted = FALSE /\ t.pending = s.pending /\ t.stage = stage
      /\ t.snapshot = s.snapshot /\ t.order = s.order /\ t.address = a /\ t.phone = s.phone
  BY <1>1, <1>3 DEF SessionState
<1> HIDE DEF t
<1>5. Sound(t)
  BY <1>1, <1>3, <1>4 DEF Sound
<1>6. Fine(s, Reply(t, asks))
  BY <1>1, <1>4, <1>5, FineReply
<1> QED BY <1>2, <1>4, <1>6 DEF Reply

\* A phone number.
LEMMA FineProvidePhone ==
  ASSUME NEW s \in SessionState, s.submitted = FALSE, s.pending.type \notin Asking
  PROVE  Fine(s, ProvidePhone(s))
<1> DEFINE t == [s EXCEPT !.phone = "phone", !.stage = "confirming"]
<1>1. ProvidePhone(s) = Reply(t, "submit")
  BY DEF ProvidePhone
<1>2. /\ t \in SessionState /\ t.submitted = FALSE /\ t.pending = s.pending
      /\ t.stage = "confirming" /\ t.snapshot = s.snapshot /\ t.order = s.order
  BY DEF SessionState, Stages, Numbers
<1> HIDE DEF t
<1> QED BY <1>1, <1>2, FineReply DEF Sound

\* A candidate for the address is asked about.
LEMMA FineCandidate ==
  ASSUME NEW s \in SessionState, Sound(s), s.submitted = FALSE, s.pending.type \notin Asking,
         NEW a \in Addresses
  PROVE  Fine(s, Reply([s EXCEPT !.candidate = a], "address"))
<1> DEFINE t == [s EXCEPT !.candidate = a]
<1>1. a \in Places /\ a # None
  BY AddressesAssumption DEF Places
<1>2. /\ t \in SessionState /\ t.submitted = FALSE /\ t.pending = s.pending /\ t.stage = s.stage
      /\ t.snapshot = s.snapshot /\ t.order = s.order /\ t.address = s.address
      /\ t.phone = s.phone /\ t.candidate = a
  BY <1>1 DEF SessionState
<1> HIDE DEF t
<1>3. Sound(t)
  BY <1>2 DEF Sound
<1>4. Fine(s, Reply(t, "address"))
  BY <1>1, <1>2, <1>3, FineReply
<1> QED BY <1>4 DEF t

\* Only the stage and the candidate go.
LEMMA FineCollectAddress ==
  ASSUME NEW s \in SessionState, s.submitted = FALSE, s.pending.type \notin Asking
  PROVE  /\ Fine(s, Reply([s EXCEPT !.stage = "collecting_address"], "where"))
         /\ Fine(s, RejectCandidate(s))
<1> DEFINE t == [s EXCEPT !.stage = "collecting_address"]
           v == [s EXCEPT !.candidate = None, !.stage = "collecting_address"]
<1>1. None \in Places /\ "collecting_address" \in Stages
  BY DEF Places, Stages
<1>2. /\ t \in SessionState /\ t.submitted = FALSE /\ t.pending = s.pending
      /\ t.stage = "collecting_address" /\ t.snapshot = s.snapshot /\ t.order = s.order
  BY <1>1 DEF SessionState
<1>3. /\ v \in SessionState /\ v.submitted = FALSE /\ v.pending = s.pending
      /\ v.stage = "collecting_address" /\ v.snapshot = s.snapshot /\ v.order = s.order
  BY <1>1 DEF SessionState
<1>4. RejectCandidate(s) = Reply(v, "where")
  BY DEF RejectCandidate
<1> HIDE DEF t, v
<1>5. Fine(s, Reply(t, "where")) /\ Fine(s, Reply(v, "where"))
  BY <1>2, <1>3, FineReply DEF Sound
<1> QED BY <1>4, <1>5 DEF t

\* The other answers about delivery.
LEMMA FineDelivery ==
  ASSUME NEW s \in SessionState, Sound(s), s.submitted = FALSE, s.pending.type \notin Asking
  PROVE  /\ \A a \in Places : Fine(s, AskDelivery(s, a))
         /\ \A a \in Addresses : Fine(s, AddressCandidate(s, a))
         /\ Fine(s, ConfirmCandidate(s))
<1>1. ASSUME NEW a \in Places PROVE Fine(s, AskDelivery(s, a))
  <2>1. CASE a = None
    BY <2>1, FineCollectAddress DEF AskDelivery
  <2>2. CASE a # None
    BY <2>2, FineCandidate DEF AskDelivery, Places
  <2> QED BY <2>1, <2>2
<1>2. ASSUME NEW a \in Addresses PROVE Fine(s, AddressCandidate(s, a))
  BY FineProvideAddress, FineCandidate DEF AddressCandidate
<1>3. Fine(s, ConfirmCandidate(s))
  <2>1. CASE s.candidate = None
    BY <2>1, FineSame DEF ConfirmCandidate, None
  <2>2. CASE s.candidate # None
    <3>1. s.candidate \in Addresses
      BY <2>2, SessionFields DEF Places
    <3> QED BY <2>2, <3>1, FineProvideAddress DEF ConfirmCandidate
  <2> QED BY <2>1, <2>2
<1> QED BY <1>1, <1>2, <1>3

\* A complaint is answered by taking orders again; what the customer has stays.
LEMMA FineRepair ==
  ASSUME NEW s \in SessionState, s.submitted = FALSE, s.pending.type \notin Asking, NEW why
  PROVE  /\ Fine(s, Repair(s, why))
         /\ why = "correction" =>
              LET t == Repair(s, why).session
              IN  /\ t.stage = "ordering" /\ t.submitted = FALSE /\ t.snapshot = s.snapshot
                  /\ t.order = s.order /\ t.address = s.address /\ t.phone = s.phone
<1> DEFINE t == [s EXCEPT !.candidate = None, !.stage = "ordering"]
           p == Pending("which", None)
           v == [t EXCEPT !.pending = p]
<1>1. None \in Places /\ "ordering" \in Stages /\ p \in Pendings /\ p.type = "which"
  BY DEF Places, Stages, Pending, Pendings
<1>2. /\ t \in SessionState /\ t.submitted = FALSE /\ t.pending = s.pending
      /\ t.stage = "ordering" /\ t.snapshot = s.snapshot /\ t.order = s.order
      /\ t.address = s.address /\ t.phone = s.phone
  BY <1>1 DEF SessionState
<1>3. Repair(s, why) = IF why = "which" THEN Reply(v, "which") ELSE Reply(t, None)
  BY DEF Repair
<1> HIDE DEF t, p
<1>4. /\ v \in SessionState /\ v.submitted = FALSE /\ v.pending = p
      /\ v.stage = "ordering" /\ v.snapshot = s.snapshot
  BY <1>1, <1>2 DEF SessionState
<1> HIDE DEF v
<1>5. Fine(s, Reply(t, None))
  BY <1>2, FineReply DEF Sound, None
<1>6. Fine(s, Reply(v, "which"))
  BY <1>1, <1>4, FineReply DEF Sound, Asking
<1>7. Reply(t, None).session = t
  BY DEF Reply
<1> QED BY <1>2, <1>3, <1>5, <1>6, <1>7

\* A recommendation.
LEMMA FineRecommend ==
  ASSUME NEW s \in SessionState, Sound(s), s.submitted = FALSE,
         s.pending.type \notin Asking, s.pending.type # "clear"
  PROVE  Fine(s, Recommend(s))
<1> DEFINE t == [s EXCEPT !.recommended = TRUE]
<1>1. Recommend(s) = Reply(t, "informed")
  BY DEF Recommend
<1>2. /\ t \in SessionState /\ t.submitted = FALSE /\ t.pending = s.pending
      /\ t.stage = s.stage /\ t.snapshot = s.snapshot
      /\ t.address = s.address /\ t.phone = s.phone
  BY DEF SessionState
<1> HIDE DEF t
<1> QED BY <1>1, <1>2, FineReply DEF Sound

\* A yes to a question: what becomes of the order.
LEMMA FineConfirmPending ==
  ASSUME NEW s \in SessionState, Sound(s), s.submitted = FALSE,
         s.pending.type \in Asking \cup {"clear"}
  PROVE  LET r == ConfirmPending(s)
             t == r.session
         IN  /\ Fine(s, r) /\ t.address = s.address
             /\ s.pending.type \in {"addAll", "item"} =>
                  /\ Len(t.order) >= Len(s.order)
                  /\ \A items : Portions(t.order, items) >= Portions(s.order, items)
             /\ s.pending.type = "removeAll" =>
                  \A items : Portions(t.order, items) <= Portions(s.order, items)
             /\ s.pending.type = "clear" => t.order = <<>>
<1> DEFINE p == NoPending
<1>1. /\ s.order \in Seq(Line) /\ s.pending \in Pendings
      /\ p \in Pendings /\ p.type \notin Asking /\ p.type # "clear"
  BY SessionFields, NoPendingType
<1>2. CASE s.pending.type = "addAll"
  <2> DEFINE o == AddEach(s.order, DishesOf[s.pending.of])
             t == [s EXCEPT !.order = o, !.pending = p, !.stage = "ordering"]
  <2>1. s.pending.of \in Categories
    BY <1>1, <1>2 DEF Pendings, None
  <2>2. /\ o \in Seq(Line) /\ Len(o) >= Len(s.order)
        /\ \A items : Portions(o, items) >= Portions(s.order, items)
    BY <1>1, <2>1, EachIsAdded, DishesAssumption
  <2>3. ConfirmPending(s) = Reply(t, None)
    BY <1>2 DEF ConfirmPending
  <2> HIDE DEF o, p
  <2>4. /\ t \in SessionState /\ t.submitted = FALSE /\ t.pending = p /\ t.stage = "ordering"
        /\ t.order = o /\ t.snapshot = s.snapshot /\ t.address = s.address
    BY <1>1, <2>2 DEF SessionState, Stages
  <2> HIDE DEF t
  <2>5. Fine(s, Reply(t, None)) /\ Reply(t, None).session = t
    BY <1>1, <2>4, FineReply DEF Sound, Reply
  <2> QED BY <1>2, <2>2, <2>3, <2>4, <2>5
<1>3. CASE s.pending.type = "removeAll"
  <2> DEFINE o == Without(s.order, Range(DishesOf[s.pending.of]))
             t == [s EXCEPT !.order = o, !.pending = p]
  <2>1. o \in Seq(Line) /\ \A items : Portions(o, items) <= Portions(s.order, items)
    BY <1>1, CopiedPortions DEF Without
  <2>2. ConfirmPending(s) = Reply(t, None)
    BY <1>3 DEF ConfirmPending
  <2> HIDE DEF o, p
  <2>3. /\ t \in SessionState /\ t.submitted = FALSE /\ t.pending = p /\ t.stage = s.stage
        /\ t.order = o /\ t.snapshot = s.snapshot /\ t.address = s.address /\ t.phone = s.phone
    BY <1>1, <2>1 DEF SessionState
  <2> HIDE DEF t
  <2>4. Fine(s, Reply(t, None)) /\ Reply(t, None).session = t
    BY <1>1, <2>3, FineReply DEF Sound, Reply
  <2> QED BY <1>3, <2>1, <2>2, <2>3, <2>4
<1>4. CASE s.pending.type = "clear"
  <2> DEFINE o == <<>>
             h == NoSnapshot
             t == [s EXCEPT !.order = o, !.pending = p, !.stage = "ordering", !.snapshot = h]
  <2>1. o \in Seq(Line) /\ h \in Snapshots
    BY NothingSaved
  <2>2. ConfirmPending(s) = Reply(t, None)
    BY <1>4 DEF ConfirmPending
  <2> HIDE DEF o, p, h
  <2>3. /\ t \in SessionState /\ t.submitted = FALSE /\ t.pending = p /\ t.stage = "ordering"
        /\ t.order = o /\ t.snapshot = h /\ t.address = s.address
    BY <1>1, <2>1 DEF SessionState, Stages
  <2> HIDE DEF t
  <2>4. Fine(s, Reply(t, None)) /\ Reply(t, None).session = t
    BY <1>1, <2>3, FineReply DEF Sound, Reply, h
  <2> QED BY <1>4, <2>2, <2>3, <2>4 DEF o
<1>5. CASE s.pending.type = "item"
  <2> DEFINE o == AddLine(s.order, s.pending.of, FALSE, 1)
             last == s.pending.of
             t == [s EXCEPT !.order = o, !.pending = p, !.stage = "ordering", !.last = last]
  <2>1. s.pending.of \in Items /\ FALSE \in BOOLEAN /\ 1 \in Nat
    BY <1>1, <1>5 DEF Pendings, None
  <2>2. /\ o \in Seq(Line) /\ Len(o) >= Len(s.order)
        /\ \A items : Portions(o, items) >= Portions(s.order, items)
    BY <1>1, <2>1, AddedLine
  <2>3. ConfirmPending(s) = Reply(t, None)
    BY <1>5 DEF ConfirmPending
  <2> HIDE DEF o, p, last
  <2>4. /\ t \in SessionState /\ t.submitted = FALSE /\ t.pending = p /\ t.stage = "ordering"
        /\ t.order = o /\ t.snapshot = s.snapshot /\ t.address = s.address
    BY <1>1, <2>1, <2>2 DEF SessionState, Stages, last
  <2> HIDE DEF t
  <2>5. Fine(s, Reply(t, None)) /\ Reply(t, None).session = t
    BY <1>1, <2>4, FineReply DEF Sound, Reply
  <2> QED BY <1>5, <2>2, <2>3, <2>4, <2>5
<1> QED BY <1>2, <1>3, <1>4, <1>5 DEF Asking

\* The kinds of pending question.
LEMMA PendingTypes ==
  ASSUME NEW s \in SessionState
  PROVE  /\ s.pending.type \in Asking \cup {None, "clear", "which"}
         /\ s.pending.type = None => s.pending = NoPending
BY SessionFields DEF Pendings, Asking, None, NoPending

\* A confirmation that answers no question: it submits, or asks for what is missing.
LEMMA FineConfirmOrder ==
  ASSUME NEW s \in SessionState, Sound(s), s.submitted = FALSE,
         s.pending.type \in {None, "which"}
  PROVE  LET r == Confirm(s)
         IN  /\ Fine(s, r)
             /\ r.session.order = s.order /\ r.session.address = s.address
<1>1. /\ None \in {None, "which"} /\ s.pending.type \notin Asking /\ s.pending.type # "clear"
      /\ s.phone \in Numbers /\ s.address \in Places /\ s.fulfillment \in {"delivery", "pickup"}
  BY SessionFields DEF Asking, None
<1>2. CASE Missing(s) = "dishes"
  <2>1. Confirm(s) = Reply(s, None)
    BY <1>2 DEF Confirm
  <2>2. Fine(s, Reply(s, None))
    BY <1>1, FineSame
  <2> QED BY <2>1, <2>2 DEF Reply
<1>3. CASE Missing(s) = "address"
  <2> DEFINE t == [s EXCEPT !.stage = "collecting_address"]
  <2>1. Confirm(s) = Reply(t, "where")
    BY <1>3 DEF Confirm
  <2>2. Fine(s, Reply(t, "where"))
    BY <1>1, FineCollectAddress
  <2>3. t.order = s.order /\ t.address = s.address
    BY DEF SessionState
  <2> HIDE DEF t
  <2> QED BY <2>1, <2>2, <2>3 DEF Reply
<1>4. CASE Missing(s) = "phone"
  <2> DEFINE t == [s EXCEPT !.stage = "collecting_phone"]
  <2>1. Confirm(s) = Reply(t, "phone")
    BY <1>4 DEF Confirm
  <2>2. s.address # None /\ s.phone = None
    BY <1>4 DEF Missing, None
  <2>3. /\ t \in SessionState /\ t.submitted = FALSE /\ t.pending = s.pending
        /\ t.snapshot = s.snapshot /\ t.order = s.order /\ t.address = s.address
        /\ t.phone = s.phone
    BY DEF SessionState, Stages
  <2> HIDE DEF t
  <2>4. Fine(s, Reply(t, "phone"))
    BY <1>1, <2>2, <2>3, FineReply DEF Sound
  <2> QED BY <2>1, <2>3, <2>4 DEF Reply
<1>5. CASE Missing(s) \notin {"dishes", "address", "phone"}
  <2> DEFINE t == [s EXCEPT !.submitted = TRUE, !.stage = "submitted"]
  <2>1. Confirm(s) = Reply(t, None)
    BY <1>5 DEF Confirm
  <2>2. Missing(s) = None
    BY <1>5 DEF Missing
  <2>3. /\ t \in SessionState /\ t.stage = "submitted" /\ t.pending = s.pending
        /\ t.snapshot = s.snapshot /\ t.order = s.order /\ t.address = s.address
        /\ t.phone = s.phone /\ t.fulfillment = s.fulfillment
    BY DEF SessionState, Stages
  <2> HIDE DEF t
  <2>4. Missing(t) = None
    BY <2>2, <2>3 DEF Missing
  <2>5. Sound(t)
    BY <2>3, <2>4 DEF Sound
  <2>6. Fine(s, Reply(t, None))
    BY <1>1, <2>3, <2>5, FineReply
  <2> QED BY <2>1, <2>3, <2>6 DEF Reply
<1> QED BY <1>2, <1>3, <1>4, <1>5

\* A yes, whichever question it answers, but for the address.
LEMMA FineConfirm ==
  ASSUME NEW s \in SessionState, Sound(s), s.submitted = FALSE
  PROVE  Fine(s, Confirm(s)) /\ Confirm(s).session.address = s.address
<1>1. CASE s.pending.type \in {None, "which"}
  BY <1>1, FineConfirmOrder
<1>2. CASE s.pending.type \notin {None, "which"}
  <2>1. s.pending.type \in Asking \cup {"clear"}
    BY <1>2, PendingTypes
  <2>2. Confirm(s) = ConfirmPending(s)
    BY <1>2 DEF Confirm
  <2> QED BY <2>1, <2>2, FineConfirmPending
<1> QED BY <1>1, <1>2

\* The question that is open is dropped.
LEMMA FineDropped ==
  ASSUME NEW s \in SessionState, Sound(s), s.submitted = FALSE
  PROVE  Fine(s, Reply([s EXCEPT !.pending = NoPending], None))
<1> DEFINE p == NoPending
           t == [s EXCEPT !.pending = p]
<1>1. p \in Pendings /\ p.type \notin Asking /\ p.type # "clear"
  BY NoPendingType
<1> HIDE DEF p
<1>2. /\ t \in SessionState /\ t.submitted = FALSE /\ t.pending = p /\ t.stage = s.stage
      /\ t.snapshot = s.snapshot /\ t.address = s.address /\ t.phone = s.phone
  BY <1>1 DEF SessionState
<1> HIDE DEF t
<1>3. Fine(s, Reply(t, None))
  BY <1>1, <1>2, FineReply DEF Sound
<1> QED BY <1>3 DEF t, p

\* Cancelling asks before it clears.
LEMMA FineCancel ==
  ASSUME NEW s \in SessionState, Sound(s), s.submitted = FALSE
  PROVE  Fine(s, Cancel(s))
<1>1. CASE s.pending # NoPending
  <2>1. Cancel(s) = Reply([s EXCEPT !.pending = NoPending], None)
    BY <1>1 DEF Cancel
  <2> QED BY <2>1, FineDropped
<1>2. CASE s.pending = NoPending /\ s.order # <<>>
  <2> DEFINE p == Pending("clear", None)
             t == [s EXCEPT !.pending = p]
  <2>1. p \in Pendings /\ p.type = "clear"
    BY DEF Pending, Pendings
  <2>2. Cancel(s) = Reply(t, "clear")
    BY <1>2 DEF Cancel
  <2> HIDE DEF p
  <2>3. /\ t \in SessionState /\ t.submitted = FALSE /\ t.pending = p /\ t.stage = s.stage
        /\ t.snapshot = s.snapshot /\ t.address = s.address /\ t.phone = s.phone
        /\ t.order = s.order
    BY <2>1 DEF SessionState
  <2> HIDE DEF t
  <2> QED BY <2>1, <2>2, <2>3, FineReply DEF Sound, Asking
<1>3. CASE s.pending = NoPending /\ s.order = <<>>
  <2> DEFINE t == [s EXCEPT !.recommended = FALSE]
  <2>1. Cancel(s) = Reply(t, None)
    BY <1>3 DEF Cancel
  <2>2. /\ t \in SessionState /\ t.submitted = FALSE /\ t.pending = s.pending
        /\ t.stage = s.stage /\ t.snapshot = s.snapshot
        /\ t.address = s.address /\ t.phone = s.phone
    BY DEF SessionState
  <2>3. s.pending.type \notin Asking /\ s.pending.type # "clear"
    BY <1>3, NoPendingType
  <2> HIDE DEF t
  <2> QED BY <2>1, <2>2, <2>3, FineReply DEF Sound
<1> QED BY <1>1, <1>2, <1>3

\* An order on a condition asks before it adds.
LEMMA FineConditional ==
  ASSUME NEW s \in SessionState, Sound(s), s.submitted = FALSE, NEW item \in Items
  PROVE  Fine(s, ConditionalOrder(s, item))
<1> DEFINE p == Pending("item", item)
           t == [s EXCEPT !.pending = p]
<1>1. p \in Pendings /\ p.type = "item"
  BY DEF Pending, Pendings
<1>2. ConditionalOrder(s, item) = Reply(t, "item")
  BY DEF ConditionalOrder
<1> HIDE DEF p
<1>3. /\ t \in SessionState /\ t.submitted = FALSE /\ t.pending = p /\ t.stage = s.stage
      /\ t.snapshot = s.snapshot /\ t.address = s.address /\ t.phone = s.phone
  BY <1>1 DEF SessionState
<1> HIDE DEF t
<1> QED BY <1>1, <1>2, <1>3, FineReply DEF Sound, Asking

\* An order and a delivery question in one: no question about the order is left open.
LEMMA FineComposite ==
  ASSUME NEW s \in SessionState, s.submitted = FALSE, s.pending.type \notin Asking,
         NEW i, i.item \in Items, i.a \in Places
  PROVE  Fine(s, Composite(s, i))
<1> DEFINE r1 == OrderFood(s, i.item, 1, FALSE)
           f == r1.session
           r == Composite(s, i)
<1>1. 1 \in Nat /\ FALSE \in BOOLEAN
  OBVIOUS
<1>2. Fine(s, r1) /\ f.submitted = FALSE /\ f.pending.type \notin Asking /\ f.pending.type # "clear"
  BY <1>1, FineOrderFood
<1>3. r = IF i.a = None THEN ChooseFulfillment(f, "pickup") ELSE AskDelivery(f, i.a)
  BY DEF Composite
<1> HIDE DEF f, r, r1
<1>4. f \in SessionState /\ Sound(f) /\ f.snapshot \in {s.snapshot, NoSnapshot}
  BY <1>2 DEF Fine, f
<1>5. Fine(f, r)
  BY <1>2, <1>3, <1>4, FineChooseFulfillment, FineDelivery
<1>6. r.session.pending = f.pending
  <2>1. f.pending \in Pendings
    BY <1>4, SessionFields
  <2>2. ChooseFulfillment(f, "pickup").session.pending = f.pending
    BY <1>4 DEF ChooseFulfillment, Reply, SessionState
  <2>3. AskDelivery(f, i.a).session.pending = f.pending
    BY <1>4 DEF AskDelivery, Reply, SessionState
  <2> QED BY <1>3, <2>2, <2>3
<1>7. Fine(s, r)
  BY <1>2, <1>4, <1>5, <1>6 DEF Fine, Questions
<1> QED BY <1>7 DEF r

-----------------------------------------------------------------------------
(* The agent that answers *)

Intents ==
  {"order_food", "select_recommendation", "order_multiple_items", "order_category_items",
   "repeat_last_item", "ask_recommendation", "conditional_order", "update_item_option",
   "update_item_quantity", "remove_item", "remove_index", "remove_category_items",
   "replace_item", "clear_order", "fulfillment", "provide_address", "replace_candidate",
   "confirm_candidate", "reject_candidate", "provide_phone", "ask_delivery", "composite",
   "context_correction", "confirm", "cancel", "cancel_selection", "ask_menu", "smalltalk",
   "hold_order", "fallback"}

\* An intent carries what its agent needs.
Meant(s, i) ==
  /\ i.intent \in Intents
  /\ i.intent = "order_food" => i.item \in Items /\ i.n \in Nat /\ i.mild \in BOOLEAN
  /\ i.intent = "select_recommendation" => i.i \in DOMAIN Recommended /\ i.mild \in BOOLEAN
  /\ i.intent \in {"order_category_items", "remove_category_items"} => i.of \in Categories
  /\ i.intent = "conditional_order" => i.item \in Items
  /\ i.intent \in {"update_item_option", "update_item_quantity"} => i.at \subseteq DOMAIN s.order
  /\ i.intent = "update_item_quantity" => i.n \in Nat
  /\ i.intent = "replace_item" => i.new \in Items
  /\ i.intent = "fulfillment" => i.how \in {"pickup", "delivery"}
  /\ i.intent \in {"provide_address", "replace_candidate"} => i.a \in Addresses
  /\ i.intent \in {"ask_delivery", "composite"} => i.a \in Places
  /\ i.intent = "composite" => i.item \in Items

\* Only an answer meets a question that waits for one, and a question to the
\* restaurant does not meet the one whether to clear the order.
Timely(s, i) ==
  /\ i.intent \notin {"confirm", "cancel", "cancel_selection"} => s.pending.type \notin Asking
  /\ Asks(i) => s.pending.type # "clear"

\* Every intent's agent leaves a session as the next turn relies on it.
LEMMA FineDispatch ==
  ASSUME NEW s \in SessionState, Sound(s), s.submitted = FALSE, NEW i, Meant(s, i), Timely(s, i)
  PROVE  Fine(s, Dispatch(s, i))
<1>1. i.intent \in Intents
  BY DEF Meant
<1>2. i.intent \notin {"confirm", "cancel", "cancel_selection"} => s.pending.type \notin Asking
  BY DEF Timely
<1>3. CASE i.intent = "order_food"
  BY <1>2, <1>3, FineOrderFood DEF Dispatch, Meant
<1>4. CASE i.intent = "select_recommendation"
  BY <1>2, <1>4, FineSelectRecommendation DEF Dispatch, Meant
<1>5. CASE i.intent = "order_multiple_items"
  BY <1>2, <1>5, FineOrderMultiple DEF Dispatch
<1>6. CASE i.intent = "order_category_items"
  BY <1>2, <1>6, FineOrderCategory DEF Dispatch, Meant
<1>7. CASE i.intent = "repeat_last_item"
  BY <1>2, <1>7, FineRepeatLast DEF Dispatch
<1>8. CASE i.intent = "ask_recommendation"
  BY <1>2, <1>8, FineRecommend DEF Dispatch, Timely, Asks
<1>9. CASE i.intent = "conditional_order"
  BY <1>9, FineConditional DEF Dispatch, Meant
<1>10. CASE i.intent = "update_item_option"
  BY <1>2, <1>10, FineUpdateOption DEF Dispatch, Meant
<1>11. CASE i.intent = "update_item_quantity"
  BY <1>2, <1>11, FineUpdateQuantity DEF Dispatch, Meant
<1>12. CASE i.intent = "remove_item"
  BY <1>2, <1>12, FineRemove DEF Dispatch
<1>13. CASE i.intent = "remove_index"
  BY <1>2, <1>13, FineRemove DEF Dispatch
<1>14. CASE i.intent = "remove_category_items"
  BY <1>2, <1>14, FineRemove DEF Dispatch, Meant
<1>15. CASE i.intent = "replace_item"
  BY <1>2, <1>15, FineReplaceItem DEF Dispatch, Meant
<1>16. CASE i.intent = "clear_order"
  BY <1>16, FineClearOrder DEF Dispatch
<1>17. CASE i.intent = "fulfillment"
  BY <1>2, <1>17, FineChooseFulfillment DEF Dispatch, Meant
<1>18. CASE i.intent = "provide_address"
  BY <1>2, <1>18, FineProvideAddress DEF Dispatch, Meant
<1>19. CASE i.intent = "replace_candidate"
  BY <1>2, <1>19, FineDelivery DEF Dispatch, Meant
<1>20. CASE i.intent = "confirm_candidate"
  BY <1>2, <1>20, FineDelivery DEF Dispatch
<1>21. CASE i.intent = "reject_candidate"
  BY <1>2, <1>21, FineCollectAddress DEF Dispatch
<1>22. CASE i.intent = "provide_phone"
  BY <1>2, <1>22, FineProvidePhone DEF Dispatch
<1>23. CASE i.intent = "ask_delivery"
  BY <1>2, <1>23, FineDelivery DEF Dispatch, Meant
<1>24. CASE i.intent = "composite"
  BY <1>2, <1>24, FineComposite DEF Dispatch, Meant
<1>25. CASE i.intent = "context_correction"
  BY <1>2, <1>25, FineRepair DEF Dispatch
<1>26. CASE i.intent = "confirm"
  BY <1>26, FineConfirm DEF Dispatch
<1>27. CASE i.intent = "cancel"
  BY <1>27, FineCancel DEF Dispatch
<1>28. CASE i.intent = "cancel_selection"
  BY <1>28, FineDropped DEF Dispatch
<1>29. CASE i.intent = "ask_menu"
  <2>1. Dispatch(s, i) = Reply(s, "informed")
    BY <1>29 DEF Dispatch
  <2>2. s.pending.type # "clear"
    BY <1>29 DEF Timely, Asks, NoMutation
  <2> QED BY <1>2, <1>29, <2>1, <2>2, FineSame
<1>30. CASE i.intent \in {"smalltalk", "hold_order", "fallback"}
  <2>1. Dispatch(s, i) = Reply(s, None)
    BY <1>30 DEF Dispatch
  <2> QED BY <1>2, <1>30, <2>1, FineSame DEF None
<1> QED
  <2> HIDE DEF Intents
  <2>1. \/ i.intent \in {"order_food", "select_recommendation", "order_multiple_items",
              "order_category_items", "repeat_last_item", "ask_recommendation",
              "conditional_order", "update_item_option", "update_item_quantity", "remove_item"}
        \/ i.intent \in {"remove_index", "remove_category_items", "replace_item", "clear_order",
              "fulfillment", "provide_address", "replace_candidate", "confirm_candidate",
              "reject_candidate", "provide_phone"}
        \/ i.intent \in {"ask_delivery", "composite", "context_correction", "confirm", "cancel",
              "cancel_selection", "ask_menu", "smalltalk", "hold_order", "fallback"}
    BY <1>1 DEF Intents
  <2> QED BY <2>1, <1>3, <1>4, <1>5, <1>6, <1>7, <1>8, <1>9, <1>10, <1>11, <1>12, <1>13, <1>14,
             <1>15, <1>16, <1>17, <1>18, <1>19, <1>20, <1>21, <1>22, <1>23, <1>24, <1>25,
             <1>26, <1>27, <1>28, <1>29, <1>30

-----------------------------------------------------------------------------
(* What the customer says *)

Said == Orders \cup Changes \cup References \cup Deliveries \cup Answers \cup Asides \cup {Complaint}

\* Orders are understood as intents with typed slots.
LEMMA MeantOrders ==
  ASSUME NEW s \in SessionState, NEW said \in Orders
  PROVE  Meant(s, Understood(s, said))
<1>1. /\ said.k \in {"order", "both", "category", "repeat", "recommend", "fragment", "part", "if"}
      /\ said.k \in {"order", "part", "if"} => said.item \in Items
      /\ said.k = "order" => said.n \in Nat
      /\ said.k = "category" => said.of \in Categories
  BY DishesAssumption DEF Orders
<1>2. CASE said.k = "order"
  BY <1>1, <1>2 DEF Understood, Food, Meant, Intents
<1>3. CASE said.k = "both"
  BY <1>3 DEF Understood, Intent, Meant, Intents
<1>4. CASE said.k = "category"
  BY <1>1, <1>4 DEF Understood, Meant, Intents
<1>5. CASE said.k = "repeat"
  BY <1>5 DEF Understood, Intent, Meant, Intents
<1>6. CASE said.k = "recommend"
  BY <1>6 DEF Understood, Intent, Meant, Intents
<1>7. CASE said.k = "fragment"
  BY <1>7 DEF Understood, Clarify, Meant, Intents
<1>8. CASE said.k = "part"
  <2>1. Understood(s, said) = PartOfName(s, said.item)
    BY <1>8 DEF Understood
  <2>2. PartOfName(s, said.item) = Food(said.item, 1, FALSE) \/ PartOfName(s, said.item) = Clarify("unresolved")
    BY DEF PartOfName
  <2>3. Meant(s, Food(said.item, 1, FALSE)) /\ Meant(s, Clarify("unresolved"))
    BY <1>1, <1>8 DEF Food, Clarify, Meant, Intents
  <2> QED BY <2>1, <2>2, <2>3
<1>9. CASE said.k = "if"
  BY <1>1, <1>9 DEF Understood, Meant, Intents
<1> QED BY <1>1, <1>2, <1>3, <1>4, <1>5, <1>6, <1>7, <1>8, <1>9

\* So is what the resolution of a reference comes to.
LEMMA MeantSimple ==
  ASSUME NEW s \in SessionState
  PROVE  /\ \A why : Meant(s, Clarify(why))
         /\ \A item \in Items, n \in Nat, mild \in BOOLEAN : Meant(s, Food(item, n, mild))
         /\ \A at \in SUBSET DOMAIN s.order, n \in Nat : Meant(s, SetTo(at, n))
         /\ \A at \in SUBSET DOMAIN s.order : Meant(s, Adjust(at))
         /\ \A old, new \in Items : Meant(s, Replacement(s, old, new))
         /\ \A item : Meant(s, [intent |-> "remove_item", item |-> item])
         /\ \A i : Meant(s, [intent |-> "remove_index", i |-> i])
<1>1. /\ \A why : Meant(s, Clarify(why))
      /\ \A item \in Items, n \in Nat, mild \in BOOLEAN : Meant(s, Food(item, n, mild))
  BY DEF Meant, Intents, Clarify, Food
<1>2. \A at \in SUBSET DOMAIN s.order, n \in Nat : Meant(s, SetTo(at, n))
  BY DEF Meant, Intents, SetTo
<1>3. \A at \in SUBSET DOMAIN s.order : Meant(s, Adjust(at))
  BY DEF Meant, Intents, Adjust
<1>4. /\ \A old, new \in Items : Meant(s, Replacement(s, old, new))
      /\ \A item : Meant(s, [intent |-> "remove_item", item |-> item])
      /\ \A i : Meant(s, [intent |-> "remove_index", i |-> i])
  BY DEF Meant, Intents, Replacement
<1> QED BY <1>1, <1>2, <1>3, <1>4

\* So are changes to the order.
LEMMA MeantChanges ==
  ASSUME NEW s \in SessionState, NEW said \in Changes
  PROVE  Meant(s, Understood(s, said))
<1>1. /\ said.k \in {"less", "mild", "set_two", "remove", "replace_with", "mild_it", "clear",
                     "remove_category", "replace"}
      /\ said.k \in {"less", "mild", "set_two", "remove", "replace_with", "replace"} =>
           said.item \in Items
      /\ said.k = "replace" => said.new \in Items
      /\ said.k = "remove_category" => said.of \in Categories
  BY DishesAssumption DEF Changes
<1>2. /\ s.order \in Seq(Line)
      /\ \A item : Named(s.order, item) \in SUBSET DOMAIN s.order
      /\ \A item : Named(s.order, item) \in SUBSET Nat
  BY SessionFields DEF Named
<1>3. CASE said.k = "less"
  <2> DEFINE lines == Named(s.order, said.item)
             left == s.order[Min(lines)].qty - 1
  <2>1. Understood(s, said) = OneLess(s, said.item)
    BY <1>3 DEF Understood
  <2>2. CASE lines = {}
    <3>1. OneLess(s, said.item) = Food(said.item, 1, FALSE)
      BY <2>2 DEF OneLess
    <3> QED BY <1>1, <1>3, <2>1, <3>1, MeantSimple
  <2>3. CASE lines # {}
    <3>1. Min(lines) \in DOMAIN s.order
      BY <1>2, <2>3, MinIsLeast
    <3>2. left \in Nat
      BY <1>2, <3>1, DishOfLine
    <3>3. \/ OneLess(s, said.item) = [intent |-> "remove_item", item |-> said.item]
          \/ OneLess(s, said.item) = SetTo(lines, left)
      BY <2>3 DEF OneLess
    <3> HIDE DEF left
    <3> QED BY <1>2, <2>1, <3>2, <3>3, MeantSimple
  <2> QED BY <2>2, <2>3
<1>4. CASE said.k = "mild"
  <2>1. Understood(s, said) = Modifier(s, said.item)
    BY <1>4 DEF Understood
  <2>2. Modifier(s, said.item) \in
          {Food(said.item, 1, TRUE), Adjust(Named(s.order, said.item)), Clarify("ambiguous")}
    BY DEF Modifier
  <2> QED BY <1>1, <1>2, <1>4, <2>1, <2>2, MeantSimple
<1>5. CASE said.k = "set_two"
  <2>1. Understood(s, said) = SetTo(Named(s.order, said.item), 2)
    BY <1>5 DEF Understood
  <2> QED BY <1>2, <2>1, MeantSimple
<1>6. CASE said.k = "remove"
  <2>1. Understood(s, said) = [intent |-> "remove_item", item |-> said.item]
    BY <1>6 DEF Understood
  <2> QED BY <2>1, MeantSimple
<1>7. CASE said.k = "replace_with"
  <2>1. Understood(s, said) = ReplaceWith(s, said.item)
    BY <1>7 DEF Understood
  <2>2. CASE Len(s.order) = 1
    <3>1. 1 \in DOMAIN s.order
      BY <1>2, <2>2
    <3>2. s.order[1].item \in Items
      BY <1>2, <3>1, DishOfLine
    <3>3. ReplaceWith(s, said.item) = Replacement(s, s.order[1].item, said.item)
      BY <2>2 DEF ReplaceWith
    <3> QED BY <1>1, <1>7, <2>1, <3>2, <3>3, MeantSimple
  <2>3. CASE Len(s.order) # 1
    BY <2>1, <2>3, MeantSimple DEF ReplaceWith
  <2> QED BY <2>2, <2>3
<1>8. CASE said.k = "mild_it"
  <2>1. Understood(s, said) = ModifierOfIt(s)
    BY <1>8 DEF Understood
  <2>2. CASE Len(s.order) = 1
    <3>1. {1} \in SUBSET DOMAIN s.order /\ s.order # <<>>
      BY <1>2, <2>2
    <3>2. ModifierOfIt(s) = Adjust({1})
      BY <2>2, <3>1 DEF ModifierOfIt
    <3> QED BY <2>1, <3>1, <3>2, MeantSimple
  <2>3. CASE Len(s.order) # 1
    <3>1. ModifierOfIt(s) \in {Intent("ask_recommendation"), Clarify("ambiguous")}
      BY <2>3 DEF ModifierOfIt
    <3>2. Meant(s, Intent("ask_recommendation"))
      BY DEF Meant, Intents, Intent
    <3> QED BY <2>1, <3>1, <3>2, MeantSimple
  <2> QED BY <2>2, <2>3
<1>9. CASE said.k = "clear"
  BY <1>9 DEF Understood, Intent, Meant, Intents
<1>10. CASE said.k = "remove_category"
  BY <1>1, <1>10 DEF Understood, Meant, Intents
<1>11. CASE said.k = "replace"
  <2>1. Understood(s, said) \in {Clarify("ambiguous"), Replacement(s, said.item, said.new)}
    BY <1>11 DEF Understood
  <2> QED BY <1>1, <1>11, <2>1, MeantSimple
<1> QED BY <1>1, <1>3, <1>4, <1>5, <1>6, <1>7, <1>8, <1>9, <1>10, <1>11

\* So are references to a dish, a line or a recommendation.
LEMMA MeantReferences ==
  ASSUME NEW s \in SessionState, NEW said \in References
  PROVE  Meant(s, Understood(s, said))
<1>1. /\ said.k = "reference" /\ said.ref \in {"first", "second", "first_ordered", "that"}
      /\ said.verb \in {"take", "remove", "set_two", "mild", "replace"}
      /\ said.verb = "replace" => said.new \in Items
  BY DishesAssumption DEF References
<1>2. Understood(s, said) = Reference(s, said)
  BY <1>1 DEF Understood
<1>3. s.order \in Seq(Line)
  BY SessionFields
<1>4. CASE Chosen(s, said)
  <2> DEFINE at == {IndexOf(said), Len(Fragment)}
  <2>1. IndexOf(said) \in 1 .. 2
    BY <1>4 DEF Chosen, IndexOf
  <2>2. Len(Fragment) \in Nat /\ Len(Fragment) >= 1
    BY DishesAssumption
  <2>3. Min(at) \in at /\ Min(at) <= Len(Fragment)
    <3>1. at \in SUBSET Nat /\ at # {} /\ Len(Fragment) \in at
      BY <2>1, <2>2
    <3> HIDE DEF at
    <3> QED BY <3>1, MinIsLeast
  <2>4. Min(at) \in 1 .. Len(Fragment)
    <3>1. Min(at) \in Nat /\ Min(at) >= 1
      BY <2>1, <2>2, <2>3
    <3> QED BY <2>2, <2>3, <3>1
  <2>5. Fragment[Min(at)] \in Items
    BY <2>4, DishesAssumption
  <2>6. Reference(s, said) = Food(Fragment[Min(at)], 1, FALSE)
    BY <1>4 DEF Reference
  <2> HIDE DEF at
  <2> QED BY <1>2, <2>5, <2>6, MeantSimple
<1>5. CASE ~ Chosen(s, said)
  <2>1. Reference(s, said) = Resolved(s, said)
    BY <1>5 DEF Reference
  <2>2. Meant(s, ReferenceToOrder(s, said))
    <3> DEFINE i == LineOf(s, said)
    <3>1. CASE i \notin DOMAIN s.order
      <4>1. ReferenceToOrder(s, said) = Clarify("ambiguous")
        BY <3>1 DEF ReferenceToOrder
      <4> QED BY <4>1, MeantSimple
    <3>2. CASE i \in DOMAIN s.order
      <4>1. {i} \in SUBSET DOMAIN s.order /\ s.order[i].item \in Items
        BY <1>3, <3>2, DishOfLine
      <4>2. CASE said.verb = "remove"
        <5>1. ReferenceToOrder(s, said) = [intent |-> "remove_index", i |-> i]
          BY <3>2, <4>2 DEF ReferenceToOrder
        <5> HIDE DEF i
        <5> QED BY <5>1, MeantSimple
      <4>3. CASE said.verb = "set_two"
        <5>1. ReferenceToOrder(s, said) = SetTo({i}, 2)
          BY <3>2, <4>3 DEF ReferenceToOrder
        <5> HIDE DEF i
        <5> QED BY <4>1, <5>1, MeantSimple
      <4>4. CASE said.verb = "mild"
        <5>1. ReferenceToOrder(s, said) = Adjust({i})
          BY <3>2, <4>4 DEF ReferenceToOrder
        <5> HIDE DEF i
        <5> QED BY <4>1, <5>1, MeantSimple
      <4>5. CASE said.verb = "replace"
        <5>1. ReferenceToOrder(s, said) = Replacement(s, s.order[i].item, said.new)
          BY <3>2, <4>5 DEF ReferenceToOrder
        <5> HIDE DEF i
        <5> QED BY <1>1, <4>1, <4>5, <5>1, MeantSimple
      <4>6. CASE said.verb = "take"
        <5>1. ReferenceToOrder(s, said) = Clarify("unresolved")
          BY <3>2, <4>6 DEF ReferenceToOrder
        <5> QED BY <5>1, MeantSimple
      <4> QED BY <1>1, <4>2, <4>3, <4>4, <4>5, <4>6
    <3> QED BY <3>1, <3>2
  <2>3. Meant(s, ReferenceToRecommendation(s, said))
    <3>1. CASE IndexOf(said) \in DOMAIN Recommended
      <4> DEFINE mild == said.verb = "mild"
                 r == [intent |-> "select_recommendation", i |-> IndexOf(said), mild |-> mild]
      <4>1. ReferenceToRecommendation(s, said) = r
        BY <3>1 DEF ReferenceToRecommendation
      <4>2. mild \in BOOLEAN
        OBVIOUS
      <4> HIDE DEF mild
      <4>3. Meant(s, r)
        BY <3>1, <4>2 DEF Meant, Intents
      <4> QED BY <4>1, <4>3
    <3>2. CASE IndexOf(said) \notin DOMAIN Recommended
      BY <3>2, MeantSimple DEF ReferenceToRecommendation
    <3> QED BY <3>1, <3>2
  <2>4. Resolved(s, said) \in {ReferenceToOrder(s, said), ReferenceToRecommendation(s, said),
                              Clarify("unresolved")}
    BY DEF Resolved
  <2> QED BY <1>2, <2>1, <2>2, <2>3, <2>4, MeantSimple
<1> QED BY <1>4, <1>5

\* An intent without slots needs no types.
LEMMA MeantIntents ==
  ASSUME NEW s,
         NEW name \in {"provide_phone", "confirm_candidate", "confirm", "cancel_selection",
                       "reject_candidate", "cancel", "ask_menu", "smalltalk", "hold_order",
                       "fallback"}
  PROVE  Meant(s, Intent(name))
BY DEF Meant, Intents, Intent

\* So is what is said about the delivery.
LEMMA MeantDeliveries ==
  ASSUME NEW s \in SessionState, NEW said \in Deliveries
  PROVE  Meant(s, Understood(s, said))
<1>1. /\ said.k \in {"pickup", "delivery", "phone", "ask_when", "address", "place", "ask_where",
                     "order_pickup", "order_fee"}
      /\ said.k \in {"address", "place", "ask_where", "order_fee"} => said.a \in Addresses
      /\ said.k \in {"order_pickup", "order_fee"} => said.item \in Items
  BY DishesAssumption DEF Deliveries
<1>2. CASE said.k \in {"pickup", "delivery"}
  <2>1. Understood(s, said) = [intent |-> "fulfillment", how |-> said.k]
    BY <1>2 DEF Understood
  <2> QED BY <1>2, <2>1 DEF Meant, Intents
<1>3. CASE said.k = "phone"
  BY <1>3, MeantIntents DEF Understood
<1>4. CASE said.k = "ask_when"
  BY <1>4 DEF Understood, Meant, Intents, Places
<1>5. CASE said.k = "address"
  BY <1>1, <1>5 DEF Understood, Meant, Intents
<1>6. CASE said.k = "place"
  <2>1. Understood(s, said) = Place(s, said.a)
    BY <1>6 DEF Understood
  <2>2. Place(s, said.a) \in {[intent |-> "provide_address", a |-> said.a], Intent("fallback"),
                              [intent |-> "replace_candidate", a |-> said.a]}
    BY DEF Place
  <2>3. /\ Meant(s, [intent |-> "provide_address", a |-> said.a])
        /\ Meant(s, [intent |-> "replace_candidate", a |-> said.a])
    BY <1>1, <1>6 DEF Meant, Intents
  <2> QED BY <2>1, <2>2, <2>3, MeantIntents
<1>7. CASE said.k = "ask_where"
  BY <1>1, <1>7 DEF Understood, Meant, Intents, Places
<1>8. CASE said.k = "order_pickup"
  BY <1>1, <1>8 DEF Understood, Meant, Intents, Places
<1>9. CASE said.k = "order_fee"
  BY <1>1, <1>9 DEF Understood, Meant, Intents, Places
<1> QED BY <1>1, <1>2, <1>3, <1>4, <1>5, <1>6, <1>7, <1>8, <1>9

\* So are answers, asides and complaints.
LEMMA MeantRest ==
  ASSUME NEW s \in SessionState, NEW said \in Answers \cup Asides \cup {Complaint}
  PROVE  Meant(s, Understood(s, said))
<1>1. said.k \in {"yes", "no", "menu", "hello", "hold", "nonsense", "correct"}
  BY DEF Answers, Asides, Complaint
<1>2. CASE said.k = "yes"
  BY <1>2, MeantIntents DEF Understood, Yes
<1>3. CASE said.k = "no"
  <2>1. No(s) \in {Intent("cancel_selection"), Intent("reject_candidate"), Intent("cancel")}
    BY DEF No
  <2>2. Understood(s, said) = No(s)
    BY <1>3 DEF Understood
  <2> QED BY <2>1, <2>2, MeantIntents
<1>4. CASE said.k \in {"menu", "hello", "hold", "nonsense"}
  BY <1>4, MeantIntents DEF Understood
<1>5. CASE said.k = "correct"
  BY <1>5, MeantSimple DEF Understood
<1> QED BY <1>1, <1>2, <1>3, <1>4, <1>5

\* So is everything that a customer says.
LEMMA MeantSaid ==
  ASSUME NEW s \in SessionState, NEW said \in Said
  PROVE  Meant(s, Understood(s, said))
BY MeantOrders, MeantChanges, MeantReferences, MeantDeliveries, MeantRest DEF Said

-----------------------------------------------------------------------------
(* One turn *)

\* Expiry drops questions, and only those (orchestrator.py:1088); no agent but the
\* confirmation agent then meets a question that a yes answers.
LEMMA ExpiredSession ==
  ASSUME NEW s \in SessionState, Sound(s), s.submitted = FALSE, NEW i, Meant(s, i)
  PROVE  LET x == Expired(s, i)
         IN  /\ x \in SessionState /\ Sound(x) /\ x.submitted = FALSE /\ x.snapshot = s.snapshot
             /\ x.order = s.order /\ x.address = s.address /\ x.phone = s.phone
             /\ x.pending \in {s.pending, NoPending}
             /\ i.intent = "confirm" => x.pending = s.pending
             /\ i.intent \in KeepsCandidate => x.candidate = s.candidate
             /\ Meant(x, i) /\ Timely(x, i)
<1> DEFINE p == IF PendingExpires(s, i) THEN NoPending ELSE s.pending
           c == IF i.intent \in KeepsCandidate THEN s.candidate ELSE None
           x == [s EXCEPT !.pending = p, !.candidate = c]
<1>1. Expired(s, i) = x
  BY DEF Expired
<1>2. p \in Pendings /\ p \in {s.pending, NoPending} /\ c \in Places
  BY SessionFields, NoPendingType DEF Places
<1>3. i.intent = "confirm" => p = s.pending
  BY DEF PendingExpires
<1>4. i.intent \notin {"confirm", "cancel", "cancel_selection"} => p.type \notin Asking
  BY NoPendingType DEF PendingExpires, Asking
<1>5. Asks(i) => p.type # "clear"
  BY NoPendingType DEF PendingExpires, Asks, NoMutation
<1>6. i.intent \in KeepsCandidate => c = s.candidate
  OBVIOUS
<1> HIDE DEF p, c
<1>7. /\ x \in SessionState /\ x.submitted = FALSE /\ x.snapshot = s.snapshot
      /\ x.order = s.order /\ x.address = s.address /\ x.phone = s.phone
      /\ x.pending = p /\ x.candidate = c /\ x.stage = s.stage
  BY <1>2 DEF SessionState
<1> HIDE DEF x
<1>8. Sound(x)
  BY <1>7 DEF Sound
<1>9. Meant(x, i)
  BY <1>7 DEF Meant
<1>10. Timely(x, i)
  BY <1>4, <1>5, <1>7 DEF Timely
<1> QED BY <1>1, <1>2, <1>3, <1>6, <1>7, <1>8, <1>9, <1>10

\* What the agent answers, or the session as it was if the intent may not change it.
LEMMA AllowedAnswer ==
  ASSUME NEW s \in SessionState, Sound(s), s.submitted = FALSE, NEW i, Meant(s, i)
  PROVE  LET x == Expired(s, i)
             r == Dispatch(x, i)
             a == Allowed(i, x, r.session)
         IN  /\ Fine(s, Reply(a, r.asks)) /\ a \in SessionState
             /\ i.intent = "clear_order" => a.snapshot = NoSnapshot
             /\ i.intent \notin NoMutation => a = r.session
             /\ i = Clarify("correction") =>
                  /\ a.stage = "ordering" /\ a.submitted = FALSE /\ a.snapshot = s.snapshot
                  /\ a.order = s.order /\ a.address = s.address /\ a.phone = s.phone
<1> DEFINE x == Expired(s, i)
           r == Dispatch(x, i)
           a == Allowed(i, x, r.session)
<1>1. /\ x \in SessionState /\ Sound(x) /\ x.submitted = FALSE /\ x.snapshot = s.snapshot
      /\ x.order = s.order /\ x.address = s.address /\ x.phone = s.phone
      /\ x.pending \in {s.pending, NoPending} /\ Meant(x, i) /\ Timely(x, i)
  BY ExpiredSession
<1> HIDE DEF x
<1>2. Fine(x, r)
  BY <1>1, FineDispatch
<1>3. i.intent = "clear_order" => r.session.snapshot = NoSnapshot
  <2>1. i.intent = "clear_order" => r = ClearOrder(x)
    BY DEF Dispatch
  <2> HIDE DEF r
  <2> QED BY <1>1, <2>1, FineClearOrder
<1>4. i = Clarify("correction") =>
        /\ r.session.stage = "ordering" /\ r.session.submitted = FALSE
        /\ r.session.snapshot = x.snapshot /\ r.session.order = x.order
        /\ r.session.address = x.address /\ r.session.phone = x.phone
  <2> SUFFICES ASSUME i = Clarify("correction") 
               PROVE  /\ r.session.stage = "ordering" /\ r.session.submitted = FALSE
                      /\ r.session.snapshot = x.snapshot /\ r.session.order = x.order
                      /\ r.session.address = x.address /\ r.session.phone = x.phone
    OBVIOUS
  <2>1. i.intent = "context_correction" /\ i.why = "correction"
    BY DEF Clarify
  <2>2. r = Repair(x, "correction")
    BY <2>1 DEF Dispatch
  <2>3. x.pending.type \notin Asking
    BY <1>1, <2>1 DEF Timely
  <2> HIDE DEF r
  <2> QED BY <1>1, <2>2, <2>3, FineRepair
<1> HIDE DEF r
<1>5. i = Clarify("correction") => i.intent = "context_correction"
  BY DEF Clarify
<1>6. "context_correction" \notin NoMutation /\ "clear_order" \notin NoMutation
  BY DEF NoMutation
<1>7. a = r.session \/ (a = x /\ i.intent \in NoMutation)
  BY DEF Allowed
<1>8. i.intent \notin NoMutation => a = r.session
  BY DEF Allowed
<1> HIDE DEF a
<1>9. NoPending.type # "clear"
  BY NoPendingType
<1>10. Fine(s, Reply(a, r.asks)) /\ a \in SessionState
  <2>1. Reply(a, r.asks).session = a /\ Reply(a, r.asks).asks = r.asks
    BY DEF Reply
  <2>2. CASE a = r.session
    BY <1>1, <1>2, <1>9, <2>1, <2>2 DEF Fine, Questions
  <2>3. CASE a = x /\ i.intent \in NoMutation
    <3>1. x.pending.type \notin Asking /\ x.pending.type # "clear"
      BY <1>1, <2>3 DEF Timely, Asks, NoMutation
    <3> QED BY <1>1, <2>1, <2>3, <3>1 DEF Fine, Questions
  <2> QED BY <1>7, <2>2, <2>3
<1>11. /\ i.intent = "clear_order" => a.snapshot = NoSnapshot
       /\ i = Clarify("correction") =>
            /\ a.stage = "ordering" /\ a.submitted = FALSE /\ a.snapshot = s.snapshot
            /\ a.order = s.order /\ a.address = s.address /\ a.phone = s.phone
  BY <1>1, <1>3, <1>4, <1>5, <1>6, <1>8
<1> QED BY <1>8, <1>10, <1>11 DEF a, r, x

\* The draft e is what an undo would bring back, and no dishes into an empty order.
Drafts == [Undoable -> Seq(Line) \cup Places \cup Numbers]

Former(s, f) == IF f \in DOMAIN s.snapshot THEN s.snapshot[f] ELSE s[f]

Restores(s, d) ==
  s.snapshot # NoSnapshot =>
    /\ "submitted" \notin DOMAIN s.snapshot
    /\ \A f \in Undoable : d[f] = Former(s, f)
    /\ s.order = <<>> /\ "order" \in DOMAIN s.snapshot => s.snapshot["order"] = <<>>

\* A draft is the three fields that an undo is about.
LEMMA DraftFields ==
  ASSUME NEW s \in SessionState
  PROVE  /\ Draft(s) \in Drafts /\ Draft(s)["order"] = s.order
         /\ Draft(s)["address"] = s.address /\ Draft(s)["phone"] = s.phone
         /\ s["order"] = s.order /\ s["address"] = s.address /\ s["phone"] = s.phone
BY DEF SessionState, Draft, Drafts, Undoable

\* Two sessions with the same three fields have the same draft, and no change.
LEMMA SameDraft ==
  ASSUME NEW s \in SessionState, NEW t \in SessionState
  PROVE  /\ Draft(s) = Draft(t) <=> s.order = t.order /\ s.address = t.address /\ s.phone = t.phone
         /\ t.submitted = FALSE => (Changed(s, t) = {} <=> Draft(s) = Draft(t))
<1>1. Draft(s) = Draft(t) <=> s.order = t.order /\ s.address = t.address /\ s.phone = t.phone
  BY DEF SessionState, Draft, Undoable
<1>2. /\ "order" \in Changed(s, t) <=> s.order # t.order
      /\ "address" \in Changed(s, t) <=> s.address # t.address
      /\ "phone" \in Changed(s, t) <=> s.phone # t.phone
  BY DraftFields DEF Changed, Undoable
<1>3. t.submitted = FALSE => Changed(s, t) \subseteq Undoable
  BY DEF Changed
<1>4. t.submitted = FALSE => (Changed(s, t) = {} <=> Draft(s) = Draft(t))
  BY <1>1, <1>2, <1>3 DEF Undoable
<1> QED BY <1>1, <1>4

\* Any of a session's undoable fields make a snapshot.
LEMMA SavedFields ==
  ASSUME NEW s \in SessionState, NEW F \in SUBSET {"order", "address", "phone", "submitted"}
  PROVE  LET h == [f \in F |-> s[f]]
         IN  h \in Snapshots /\ DOMAIN h = F /\ \A f \in F : h[f] = s[f]
<1> DEFINE h == [f \in F |-> s[f]]
           V == Seq(Line) \cup Places \cup Numbers \cup BOOLEAN
<1>1. /\ s["order"] \in Seq(Line) /\ s["address"] \in Places /\ s["phone"] \in Numbers
      /\ s["submitted"] \in BOOLEAN
  BY DEF SessionState
<1>2. \A f \in F : s[f] \in V
  BY <1>1
<1>3. h \in [F -> V] /\ DOMAIN h = F /\ \A f \in F : h[f] = s[f]
  BY <1>2
<1>4. /\ "order" \in F => h["order"] \in Seq(Line)
      /\ "address" \in F => h["address"] \in Places
      /\ "phone" \in F => h["phone"] \in Numbers
      /\ "submitted" \in F => h["submitted"] \in BOOLEAN
  BY <1>1
<1> HIDE DEF h
<1> QED BY <1>3, <1>4 DEF Snapshots, h

\* A snapshot that saves something is not the empty one.
LEMMA NonemptySnapshot ==
  ASSUME NEW h, DOMAIN h # {} PROVE h # NoSnapshot
BY NothingSaved

\* What a turn saves: its former values, unless it emptied the order.
LEMMA RememberedDraft ==
  ASSUME NEW s \in SessionState, s.submitted = FALSE, NEW a \in SessionState,
         a.snapshot \in {s.snapshot, NoSnapshot}, NEW d \in Drafts, Restores(s, d)
  PROVE  LET t == [a EXCEPT !.snapshot = Remembered(s, a)]
         IN  /\ t \in SessionState
             /\ t.order = a.order /\ t.address = a.address /\ t.phone = a.phone
             /\ t.pending = a.pending /\ t.candidate = a.candidate /\ t.stage = a.stage
             /\ t.submitted = a.submitted /\ t.fulfillment = a.fulfillment
             /\ a.submitted = FALSE =>
                  Restores(t, IF Draft(t) # Draft(s) THEN Draft(s) ELSE d)
<1> DEFINE C == Changed(s, a)
           h == Remembered(s, a)
           t == [a EXCEPT !.snapshot = h]
<1>1. C \subseteq {"order", "address", "phone", "submitted"}
  BY DEF Changed, Undoable
<1>2. [f \in C |-> s[f]] \in Snapshots /\ DOMAIN [f \in C |-> s[f]] = C
  <2> HIDE DEF C
  <2> QED BY <1>1, SavedFields
<1>3. h \in {a.snapshot, NoSnapshot, [f \in C |-> s[f]]}
  BY DEF Remembered
<1>4. h \in Snapshots
  BY <1>2, <1>3, NothingSaved, SessionFields
<1>5. /\ C = {} => h = a.snapshot
      /\ C # {} => h = NoSnapshot \/ h = [f \in C |-> s[f]]
      /\ C # {} /\ s.order # <<>> /\ a.order = <<>> => h = NoSnapshot
  BY DEF Remembered
<1> HIDE DEF h
<1>6. /\ t \in SessionState /\ t.snapshot = h
      /\ t.order = a.order /\ t.address = a.address /\ t.phone = a.phone
      /\ t.pending = a.pending /\ t.candidate = a.candidate /\ t.stage = a.stage
      /\ t.submitted = a.submitted /\ t.fulfillment = a.fulfillment
  BY <1>4 DEF SessionState
<1> HIDE DEF t
<1>7. ASSUME a.submitted = FALSE
      PROVE  Restores(t, IF Draft(t) # Draft(s) THEN Draft(s) ELSE d)
  <2>1. /\ Draft(t) = Draft(a)
        /\ C = {} <=> Draft(s) = Draft(a)
    <3>1. Draft(t) = Draft(a)
      BY <1>6, SameDraft
    <3> QED BY <1>7, <3>1, SameDraft
  <2>2. CASE C = {}
    <3>1. h = NoSnapshot \/ h = s.snapshot
      BY <1>5, <2>2
    <3>2. Draft(t) = Draft(s)
      BY <2>1, <2>2
    <3>3. t.order = s.order /\ t.address = s.address /\ t.phone = s.phone
      BY <1>6, <3>2, SameDraft
    <3>4. t["order"] = s["order"] /\ t["address"] = s["address"] /\ t["phone"] = s["phone"]
      BY <1>6, <3>3, DraftFields
    <3>5. Restores(t, d)
      BY <1>6, <3>1, <3>3, <3>4 DEF Restores, Former, Undoable
    <3> QED BY <3>2, <3>5
  <2>3. CASE C # {}
    <3>1. Draft(t) # Draft(s)
      BY <2>1, <2>3
    <3>2. CASE h = NoSnapshot
      BY <1>6, <3>1, <3>2 DEF Restores
    <3>3. CASE h # NoSnapshot
      <4> DEFINE g == [f \in C |-> s[f]]
      <4>1. h = g
        BY <1>5, <2>3, <3>3
      <4>2. DOMAIN h = C /\ \A f \in C : h[f] = s[f]
        BY <4>1
      <4>3. C \subseteq Undoable /\ \A f \in Undoable \ C : a[f] = s[f]
        BY <1>7 DEF Changed
      <4>4. t["order"] = a["order"] /\ t["address"] = a["address"] /\ t["phone"] = a["phone"]
        BY <1>6, DraftFields
      <4> HIDE DEF C
      <4>5. "submitted" \notin DOMAIN h
        BY <4>2, <4>3 DEF Undoable
      <4>6. \A f \in Undoable : Draft(s)[f] = Former(t, f)
        <5>1. \A f \in Undoable : Draft(s)[f] = s[f]
          BY DEF Draft
        <5>2. \A f \in Undoable : t[f] = a[f]
          BY <4>4 DEF Undoable
        <5> QED BY <1>6, <4>2, <4>3, <5>1, <5>2 DEF Former
      <4>7. t.order = <<>> /\ "order" \in DOMAIN h => h["order"] = <<>>
        <5> SUFFICES ASSUME t.order = <<>>, "order" \in DOMAIN h PROVE h["order"] = <<>>
          OBVIOUS
        <5>1. h["order"] = s.order
          BY <4>2, DraftFields
        <5>2. CASE s.order # <<>>
          <6>1. a.order = <<>>
            BY <1>6
          <6> QED BY <1>5, <2>3, <3>3, <5>2, <6>1
        <5> QED BY <5>1, <5>2
      <4> QED BY <1>6, <3>1, <4>5, <4>6, <4>7 DEF Restores
    <3> QED BY <3>2, <3>3
  <2> QED BY <2>2, <2>3
<1> QED BY <1>6, <1>7 DEF t, h

\* What an undo leaves.
LEMMA UndoneDraft ==
  ASSUME NEW a \in SessionState, a.submitted = FALSE, NEW d \in Drafts, Restores(a, d), CanUndo(a)
  PROVE  LET t == Undone(a)
         IN  /\ t \in SessionState /\ t.submitted = FALSE /\ t.stage = a.stage
             /\ t.pending = NoPending /\ t.snapshot = NoSnapshot
             /\ Draft(t) = d /\ (a.order = <<>> => t.order = <<>>)
<1> DEFINE t == Undone(a)
           h == a.snapshot
           Back(f) == IF f \in DOMAIN h THEN h[f] ELSE a[f]
<1>1. /\ h \in Snapshots /\ "submitted" \notin DOMAIN h
      /\ DOMAIN h \subseteq {"order", "address", "phone", "submitted"}
      /\ \A f \in Undoable : d[f] = Back(f)
      /\ a.order = <<>> /\ "order" \in DOMAIN h => h["order"] = <<>>
  <2>1. h \in Snapshots
    BY SessionFields
  <2>2. DOMAIN h \subseteq {"order", "address", "phone", "submitted"}
    BY <2>1 DEF Snapshots
  <2>3. /\ "submitted" \notin DOMAIN h
        /\ \A f \in Undoable : d[f] = Former(a, f)
        /\ a.order = <<>> /\ "order" \in DOMAIN h => h["order"] = <<>>
    BY DEF CanUndo, Restores
  <2>4. \A f \in Undoable : Former(a, f) = Back(f)
    BY DEF Former
  <2> HIDE DEF h, Back
  <2> QED BY <2>1, <2>2, <2>3, <2>4
<1>2. Back("order") \in Seq(Line) /\ Back("address") \in Places /\ Back("phone") \in Numbers
  BY <1>1, SessionFields, DraftFields DEF Snapshots
<1>3. DOMAIN a = {"order", "pending", "candidate", "address", "phone", "fulfillment", "stage",
                  "recommended", "last", "snapshot", "submitted"}
  BY DEF SessionState
<1>4. t = [order |-> Back("order"), pending |-> NoPending, candidate |-> a.candidate,
           address |-> Back("address"), phone |-> Back("phone"), fulfillment |-> a.fulfillment,
           stage |-> a.stage, recommended |-> a.recommended, last |-> a.last,
           snapshot |-> NoSnapshot, submitted |-> a.submitted]
  BY <1>1, <1>3 DEF Undone, SessionState
<1> HIDE DEF t, Back
<1>5. /\ t \in SessionState /\ t.submitted = FALSE /\ t.stage = a.stage
      /\ t.pending = NoPending /\ t.snapshot = NoSnapshot
      /\ t.order = Back("order") /\ t.address = Back("address") /\ t.phone = Back("phone")
  BY <1>2, <1>4, NothingSaved, NoPendingType DEF SessionState
<1>6. Draft(t) = d
  <2>1. Draft(t)["order"] = d["order"] /\ Draft(t)["address"] = d["address"]
        /\ Draft(t)["phone"] = d["phone"]
    BY <1>1, <1>5, DraftFields DEF Undoable
  <2> QED BY <1>5, <2>1, DraftFields DEF Drafts, Undoable
<1>7. a.order = <<>> => t.order = <<>>
  BY <1>1, <1>5, DraftFields DEF Back
<1> QED BY <1>5, <1>6, <1>7 DEF t

-----------------------------------------------------------------------------
(* The inductive invariant *)

\* A question that waits for an answer is the last reply's; one whether to clear
\* the order is about dishes that were there when it was asked, and no other
\* question was answered since.
OpenQuestion(s, asks, list) ==
  /\ s.pending.type \in Asking => asks = s.pending.type
  /\ s.pending.type = "clear" =>
       /\ \A items : Portions(s.order, items) <= Portions(list, items)
       /\ s.candidate = None => asks \notin {"informed", "address"}

DialogueInv ==
  /\ session \in SessionState /\ Sound(session)
  /\ earlier \in Drafts /\ (session.submitted = FALSE => Restores(session, earlier))
  /\ listed \in Seq(Line) /\ OpenQuestion(session, asked, listed)

\* A fresh session.
LEMMA FreshSession ==
  /\ Fresh \in SessionState /\ Fresh.submitted = FALSE /\ Fresh.stage = "ordering"
  /\ Fresh.snapshot = NoSnapshot /\ Fresh.pending = NoPending
<1> DEFINE o == <<>>
           h == NoSnapshot
           p == NoPending
<1>1. Fresh = [order |-> o, pending |-> p, candidate |-> None, address |-> None,
               phone |-> None, fulfillment |-> "delivery", stage |-> "ordering",
               recommended |-> FALSE, last |-> None, snapshot |-> h, submitted |-> FALSE]
  BY DEF Fresh
<1>2. o \in Seq(Line) /\ h \in Snapshots /\ p \in Pendings
  BY NothingSaved, NoPendingType
<1> HIDE DEF o, h, p
<1>3. None \in Places /\ None \in Numbers /\ "ordering" \in Stages
  BY DEF Places, Numbers, Stages
<1>4. Fresh \in SessionState
  BY <1>1, <1>2, <1>3 DEF SessionState
<1>5. /\ Fresh.submitted = FALSE /\ Fresh.stage = "ordering"
      /\ Fresh.snapshot = h /\ Fresh.pending = p
  BY <1>1
<1> QED BY <1>4, <1>5 DEF h, p

\* The first session satisfies the invariant.
LEMMA InitDialogue == DialogueInit => DialogueInv
<1> SUFFICES ASSUME DialogueInit PROVE DialogueInv
  OBVIOUS
<1>1. session = Fresh /\ earlier = Draft(Fresh) /\ listed = <<>>
  BY DEF DialogueInit
<1>2. Sound(session) /\ Restores(session, earlier) /\ OpenQuestion(session, asked, listed)
  BY <1>1, FreshSession, NoPendingType DEF Sound, Restores, OpenQuestion
<1>3. earlier \in Drafts /\ listed \in Seq(Line)
  BY <1>1, FreshSession, DraftFields
<1> QED BY <1>1, <1>2, <1>3, FreshSession DEF DialogueInv

\* A turn, with the answer that counts: an undo, a clearing, or one that is saved.
LEMMA AnsweredTurn ==
  ASSUME DialogueInv, session.submitted = FALSE, NEW said \in Said, Answered(said)
  PROVE  LET i == Understood(session, said)
             x == Expired(session, i)
             r == Dispatch(x, i)
             a == Allowed(i, x, r.session)
         IN  /\ Meant(session, i) /\ a \in SessionState /\ Fine(session, Reply(a, r.asks))
             /\ asked' = r.asks /\ History(session', r.asks)
             /\ i.intent \notin NoMutation => a = r.session
             /\ \/ /\ i = Clarify("correction") /\ CanUndo(a) /\ session' = Undone(a)
                   /\ a.stage = "ordering" /\ a.submitted = FALSE /\ a.snapshot = session.snapshot
                   /\ a.order = session.order /\ a.address = session.address
                   /\ a.phone = session.phone
                \/ i.intent = "clear_order" /\ session' = a /\ a.snapshot = NoSnapshot
                \/ /\ session' = [a EXCEPT !.snapshot = Remembered(session, a)]
                   /\ i = Clarify("correction") =>
                        /\ ~ CanUndo(a) /\ a.snapshot = session.snapshot
                        /\ a.order = session.order /\ a.address = session.address
                        /\ a.phone = session.phone
<1> DEFINE i == Understood(session, said)
           x == Expired(session, i)
           r == Dispatch(x, i)
           a == Allowed(i, x, r.session)
<1>1. session \in SessionState /\ Sound(session)
  BY DEF DialogueInv
<1>2. Meant(session, i)
  BY <1>1, MeantSaid
<1>3. session' = Kept(session, a, i) /\ asked' = r.asks /\ History(session', r.asks)
  BY DEF Answered
<1> HIDE DEF i
<1>4. /\ Fine(session, Reply(a, r.asks)) /\ a \in SessionState
      /\ i.intent = "clear_order" => a.snapshot = NoSnapshot
      /\ i.intent \notin NoMutation => a = r.session
      /\ i = Clarify("correction") =>
           /\ a.stage = "ordering" /\ a.submitted = FALSE /\ a.snapshot = session.snapshot
           /\ a.order = session.order /\ a.address = session.address /\ a.phone = session.phone
  BY <1>1, <1>2, AllowedAnswer
<1> HIDE DEF x, r, a
<1>5. CASE i = Clarify("correction") /\ CanUndo(a)
  <2>1. i.intent # "clear_order"
    BY <1>5 DEF Clarify
  <2>2. Kept(session, a, i) = Undone(a)
    BY <1>5, <2>1 DEF Kept
  <2> QED BY <1>2, <1>3, <1>4, <1>5, <2>2 DEF i, x, r, a
<1>6. CASE i.intent = "clear_order"
  <2>1. i # Clarify("correction")
    BY <1>6 DEF Clarify
  <2>2. Kept(session, a, i) = a
    BY <1>6, <2>1 DEF Kept
  <2> QED BY <1>2, <1>3, <1>4, <1>6, <2>2 DEF i, x, r, a
<1>7. CASE ~ (i = Clarify("correction") /\ CanUndo(a)) /\ i.intent # "clear_order"
  <2>1. Kept(session, a, i) = [a EXCEPT !.snapshot = Remembered(session, a)]
    BY <1>7 DEF Kept
  <2> QED BY <1>2, <1>3, <1>4, <1>7, <2>1 DEF i, x, r, a
<1> QED BY <1>5, <1>6, <1>7

\* The history of a turn whose question about the order stays open.
LEMMA TurnHistory ==
  ASSUME DialogueInv, NEW t \in SessionState, session' = t, NEW asks, asked' = asks,
         History(t, asks),
         t.pending.type \in Asking => asks = t.pending.type,
         t.pending.type = "clear" =>
           /\ \A items : Portions(t.order, items) <= Portions(session.order, items)
           /\ session.pending.type = "clear" \/ asks = "clear"
           /\ t.candidate = None => asks \notin {"informed", "address"}
  PROVE  /\ listed' \in Seq(Line) /\ OpenQuestion(session', asked', listed')
         /\ earlier' = IF Draft(t) # Draft(session) THEN Draft(session) ELSE earlier
         /\ earlier' \in Drafts
<1>1. /\ listed' = CASE asks = "clear" -> session.order
                     [] asks # "clear" /\ t.pending.type = "clear" -> listed
                     [] OTHER -> <<>>
      /\ earlier' = IF Draft(t) # Draft(session) THEN Draft(session) ELSE earlier
  BY DEF History
<1>2. /\ session \in SessionState /\ earlier \in Drafts /\ listed \in Seq(Line)
      /\ OpenQuestion(session, asked, listed)
  BY DEF DialogueInv
<1>3. session.order \in Seq(Line) /\ t.order \in Seq(Line)
  BY <1>2, SessionFields
<1>4. listed' \in Seq(Line)
  <2>1. <<>> \in Seq(Line)
    OBVIOUS
  <2>2. listed' \in {session.order, listed, <<>>}
    BY <1>1
  <2> QED BY <1>2, <1>3, <2>1, <2>2
<1>5. ASSUME t.pending.type = "clear", NEW items
      PROVE  Portions(t.order, items) <= Portions(listed', items)
  <2>1. Portions(t.order, items) <= Portions(session.order, items)
    BY <1>5
  <2>2. CASE asks = "clear"
    <3>1. listed' = session.order
      BY <1>1, <2>2
    <3> QED BY <2>1, <3>1
  <2>3. CASE asks # "clear"
    <3>1. listed' = listed /\ session.pending.type = "clear"
      BY <1>1, <1>5, <2>3
    <3>2. Portions(session.order, items) <= Portions(listed, items)
      BY <1>2, <3>1 DEF OpenQuestion
    <3>3. /\ Portions(t.order, items) \in Nat /\ Portions(session.order, items) \in Nat
          /\ Portions(listed, items) \in Nat
      BY <1>2, <1>3, PortionsNat
    <3>4. Portions(t.order, items) <= Portions(listed, items)
      BY <2>1, <3>2, <3>3
    <3> QED BY <3>1, <3>4
  <2> QED BY <2>2, <2>3
<1>6. OpenQuestion(session', asked', listed')
  BY <1>5 DEF OpenQuestion
<1>7. earlier' \in Drafts
  BY <1>1, <1>2, DraftFields
<1> QED BY <1>1, <1>4, <1>6, <1>7

\* Every turn preserves the invariant.
LEMMA TurnInv ==
  ASSUME DialogueInv, session.submitted = FALSE, NEW said \in Said, Answered(said)
  PROVE  DialogueInv'
<1> DEFINE i == Understood(session, said)
           x == Expired(session, i)
           r == Dispatch(x, i)
           a == Allowed(i, x, r.session)
           t == session'
<1>1. /\ session \in SessionState /\ Sound(session) /\ earlier \in Drafts
      /\ Restores(session, earlier)
  BY DEF DialogueInv
<1>2. /\ a \in SessionState /\ Fine(session, Reply(a, r.asks))
      /\ asked' = r.asks /\ History(t, r.asks)
      /\ \/ /\ CanUndo(a) /\ t = Undone(a)
            /\ a.stage = "ordering" /\ a.submitted = FALSE /\ a.snapshot = session.snapshot
            /\ a.order = session.order /\ a.address = session.address
            /\ a.phone = session.phone
         \/ t = a /\ a.snapshot = NoSnapshot
         \/ t = [a EXCEPT !.snapshot = Remembered(session, a)]
  BY AnsweredTurn
<1> DEFINE asks == r.asks
<1> HIDE DEF i, x, r, a, t, asks
<1>3. /\ Sound(a) /\ a.snapshot \in {session.snapshot, NoSnapshot}
      /\ a.pending.type \in Asking => asks = a.pending.type
      /\ a.pending.type = "clear" =>
           /\ \A items : Portions(a.order, items) <= Portions(session.order, items)
           /\ session.pending.type = "clear" \/ asks = "clear"
           /\ a.candidate = None => asks \notin {"informed", "address"}
  BY <1>2 DEF Fine, Questions, Reply, asks
<1> DEFINE d == IF Draft(t) # Draft(session) THEN Draft(session) ELSE earlier
<1>4. CASE /\ CanUndo(a) /\ t = Undone(a)
           /\ a.stage = "ordering" /\ a.submitted = FALSE /\ a.snapshot = session.snapshot
           /\ a.order = session.order /\ a.address = session.address
           /\ a.phone = session.phone
  <2>1. Restores(a, earlier)
    <3>1. a["order"] = session["order"] /\ a["address"] = session["address"]
          /\ a["phone"] = session["phone"]
      BY <1>1, <1>2, <1>4, DraftFields
    <3> QED BY <1>1, <1>4, <3>1 DEF Restores, Former, Undoable
  <2>2. /\ t \in SessionState /\ t.submitted = FALSE /\ t.stage = "ordering"
        /\ t.pending = NoPending /\ t.snapshot = NoSnapshot
    BY <1>1, <1>2, <1>4, <2>1, UndoneDraft
  <2>3. Sound(t) /\ Restores(t, d)
    BY <2>2 DEF Sound, Restores
  <2>4. t.pending.type \notin Asking /\ t.pending.type # "clear"
    BY <2>2, NoPendingType
  <2>5. /\ listed' \in Seq(Line) /\ OpenQuestion(session', asked', listed')
        /\ earlier' = d /\ earlier' \in Drafts
    BY <1>2, <2>2, <2>4, TurnHistory DEF t, asks
  <2> HIDE DEF d
  <2> QED BY <2>2, <2>3, <2>5 DEF DialogueInv, t
<1>5. CASE t = a /\ a.snapshot = NoSnapshot
  <2>1. Restores(t, d)
    BY <1>5 DEF Restores
  <2>2. /\ listed' \in Seq(Line) /\ OpenQuestion(session', asked', listed')
        /\ earlier' = d /\ earlier' \in Drafts
    BY <1>2, <1>3, <1>5, TurnHistory DEF t, asks
  <2> HIDE DEF d
  <2> QED BY <1>2, <1>3, <1>5, <2>1, <2>2 DEF DialogueInv, t
<1>6. CASE t = [a EXCEPT !.snapshot = Remembered(session, a)]
  <2>1. session.submitted = FALSE
    OBVIOUS
  <2>2. /\ t \in SessionState
        /\ t.order = a.order /\ t.address = a.address /\ t.phone = a.phone
        /\ t.pending = a.pending /\ t.candidate = a.candidate /\ t.stage = a.stage
        /\ t.submitted = a.submitted /\ t.fulfillment = a.fulfillment
        /\ a.submitted = FALSE => Restores(t, d)
    BY <1>1, <1>2, <1>3, <1>6, <2>1, RememberedDraft
  <2>3. Sound(t)
    BY <1>3, <2>2 DEF Sound, Missing
  <2>4. /\ listed' \in Seq(Line) /\ OpenQuestion(session', asked', listed')
        /\ earlier' = d /\ earlier' \in Drafts
    BY <1>2, <1>3, <2>2, TurnHistory DEF t, asks
  <2> HIDE DEF d
  <2> QED BY <2>2, <2>3, <2>4 DEF DialogueInv, t
<1> QED BY <1>2, <1>4, <1>5, <1>6

\* So does every step, the new order after a submission included.
LEMMA DialogueStep == DialogueInv /\ [DialogueNext]_vars => DialogueInv'
<1> SUFFICES ASSUME DialogueInv, [DialogueNext]_vars PROVE DialogueInv'
  OBVIOUS
<1>1. ASSUME NEW said \in Said, Turn(said) PROVE DialogueInv'
  <2>1. session.submitted = FALSE /\ Answered(said)
    <3>1. session.submitted \in BOOLEAN
      BY SessionFields DEF DialogueInv
    <3> QED BY <1>1, <3>1 DEF Turn
  <2> QED BY <2>1, TurnInv
<1>2. CASE NewOrder
  <2>1. session' = Fresh /\ asked' = None /\ History(Fresh, None)
    BY <1>2 DEF NewOrder
  <2>2. Fresh.pending.type \notin Asking /\ Fresh.pending.type # "clear"
    BY FreshSession, NoPendingType
  <2>3. /\ listed' \in Seq(Line) /\ OpenQuestion(session', asked', listed') /\ earlier' \in Drafts
    BY <2>1, <2>2, FreshSession, TurnHistory
  <2>4. Sound(session') /\ Restores(session', earlier')
    BY <2>1, FreshSession DEF Sound, Restores
  <2> QED BY <2>1, <2>3, <2>4, FreshSession DEF DialogueInv
<1>3. CASE UNCHANGED vars
  BY <1>3 DEF DialogueInv, vars, OpenQuestion
<1>4. DialogueNext => NewOrder \/ \E said \in Said : Turn(said)
  BY DEF DialogueNext, Ordering, Changing, Referring, Delivering, Answering, Chatting,
         Complaining, Said
<1> QED BY <1>1, <1>2, <1>3, <1>4

-----------------------------------------------------------------------------
(* What a complaint and what a yes may do *)

\* A complaint that changes the draft brings back the former one.
LEMMA ComplaintUndoes ==
  ASSUME DialogueInv, Turn(Complaint), Draft(session') # Draft(session)
  PROVE  Draft(session') = earlier /\ (session.order = <<>> => session'.order = <<>>)
<1> DEFINE i == Understood(session, Complaint)
           x == Expired(session, i)
           r == Dispatch(x, i)
           a == Allowed(i, x, r.session)
<1>1. /\ session \in SessionState /\ earlier \in Drafts /\ session.submitted = FALSE
      /\ Restores(session, earlier) /\ Answered(Complaint)
  BY SessionFields DEF DialogueInv, Turn
<1>2. i = Clarify("correction")
  BY DEF Understood, Complaint
<1>3. /\ a \in SessionState
      /\ \/ /\ CanUndo(a) /\ session' = Undone(a)
            /\ a.submitted = FALSE /\ a.snapshot = session.snapshot
            /\ a.order = session.order /\ a.address = session.address
            /\ a.phone = session.phone
         \/ i.intent = "clear_order"
         \/ /\ session' = [a EXCEPT !.snapshot = Remembered(session, a)]
            /\ a.snapshot = session.snapshot
            /\ a.order = session.order /\ a.address = session.address
            /\ a.phone = session.phone
  <2>1. Complaint \in Said
    BY DEF Said
  <2> QED BY <1>1, <1>2, <2>1, AnsweredTurn
<1>4. i.intent # "clear_order"
  BY <1>2 DEF Clarify
<1> HIDE DEF i, x, r, a
<1>5. CASE /\ CanUndo(a) /\ session' = Undone(a)
           /\ a.submitted = FALSE /\ a.snapshot = session.snapshot
           /\ a.order = session.order /\ a.address = session.address
           /\ a.phone = session.phone
  <2>1. a["order"] = session["order"] /\ a["address"] = session["address"]
        /\ a["phone"] = session["phone"]
    BY <1>1, <1>3, <1>5, DraftFields
  <2>2. Restores(a, earlier)
    BY <1>1, <1>5, <2>1 DEF Restores, Former, Undoable
  <2> QED BY <1>1, <1>3, <1>5, <2>2, UndoneDraft
<1>6. CASE /\ session' = [a EXCEPT !.snapshot = Remembered(session, a)]
           /\ a.snapshot = session.snapshot
           /\ a.order = session.order /\ a.address = session.address
           /\ a.phone = session.phone
  <2>1. /\ session' \in SessionState /\ session'.order = session.order
        /\ session'.address = session.address /\ session'.phone = session.phone
    BY <1>1, <1>3, <1>6, RememberedDraft
  <2> QED BY <1>1, <2>1, SameDraft
<1> QED BY <1>3, <1>4, <1>5, <1>6

\* What a yes may do: adopt the address that was offered, leave order and address
\* alone, or answer the pending question.
LEMMA YesTurn ==
  ASSUME DialogueInv, SaidYes
  PROVE  \/ session'.order = session.order /\ session'.address = session.candidate
         \/ session'.order = session.order /\ session'.address = session.address
         \/ /\ session'.address = session.address /\ session.candidate = None
            /\ session.pending.type \in Asking \cup {"clear"}
            /\ session.pending.type \in {"addAll", "item"} =>
                 /\ Len(session'.order) >= Len(session.order)
                 /\ \A items : Portions(session'.order, items) >= Portions(session.order, items)
            /\ session.pending.type = "removeAll" =>
                 \A items : Portions(session'.order, items) <= Portions(session.order, items)
            /\ session.pending.type = "clear" => session'.order = <<>>
<1> DEFINE said == [k |-> "yes"]
           i == Understood(session, said)
           x == Expired(session, i)
           r == Dispatch(x, i)
           a == Allowed(i, x, r.session)
<1>1. /\ session \in SessionState /\ Sound(session) /\ earlier \in Drafts
      /\ session.submitted = FALSE /\ Restores(session, earlier) /\ Answered(said)
  BY SessionFields DEF DialogueInv, SaidYes, Turn
<1>2. said \in Said
  BY DEF Said, Answers
<1>3. i = Intent(IF session.candidate # None THEN "confirm_candidate" ELSE "confirm")
  BY DEF Understood, Yes
<1>4. /\ i.intent = IF session.candidate # None THEN "confirm_candidate" ELSE "confirm"
      /\ i.intent # "clear_order" /\ i.intent \notin NoMutation /\ i # Clarify("correction")
  BY <1>3 DEF Intent, Clarify, NoMutation
<1>5. /\ Meant(session, i) /\ a \in SessionState /\ a = r.session
      /\ Fine(session, Reply(a, r.asks))
      /\ session' = [a EXCEPT !.snapshot = Remembered(session, a)]
  BY <1>1, <1>2, <1>4, AnsweredTurn
<1>6. /\ x \in SessionState /\ Sound(x) /\ x.submitted = FALSE /\ x.order = session.order
      /\ x.address = session.address
      /\ i.intent = "confirm" => x.pending = session.pending
      /\ i.intent \in KeepsCandidate => x.candidate = session.candidate
      /\ Timely(x, i)
  BY <1>1, <1>5, ExpiredSession
<1>7. /\ i.intent = "confirm_candidate" => r = ConfirmCandidate(x)
      /\ i.intent = "confirm" => r = Confirm(x)
  BY DEF Dispatch
<1> HIDE DEF i, x, r, a
<1>8. session'.order = r.session.order /\ session'.address = r.session.address
  <2>1. a.snapshot \in {session.snapshot, NoSnapshot}
    BY <1>5 DEF Fine, Reply
  <2> QED BY <1>1, <1>5, <2>1, RememberedDraft
<1>9. CASE session.candidate # None
  <2>1. i.intent = "confirm_candidate" /\ x.candidate = session.candidate
    BY <1>4, <1>6, <1>9 DEF KeepsCandidate
  <2>2. x.candidate \in Addresses /\ x.candidate # None
    BY <1>6, <1>9, <2>1, SessionFields DEF Places
  <2>3. x.pending.type \notin Asking
    BY <1>6, <2>1 DEF Timely
  <2>4. r = ProvideAddress(x, x.candidate)
    BY <1>7, <2>1, <2>2 DEF ConfirmCandidate
  <2>5. r.session.order = x.order /\ r.session.address = x.candidate
    BY <1>6, <2>2, <2>3, <2>4, FineProvideAddress
  <2> QED BY <1>6, <1>8, <2>1, <2>5
<1>10. CASE session.candidate = None
  <2>1. i.intent = "confirm" /\ x.pending = session.pending /\ r = Confirm(x)
    BY <1>4, <1>6, <1>7, <1>10
  <2>2. CASE x.pending.type \in {None, "which"}
    <3>1. r.session.order = x.order /\ r.session.address = x.address
      BY <1>6, <2>1, <2>2, FineConfirmOrder
    <3> QED BY <1>6, <1>8, <3>1
  <2>3. CASE x.pending.type \notin {None, "which"}
    <3>1. x.pending.type \in Asking \cup {"clear"}
      BY <1>6, <2>3, PendingTypes
    <3>2. r = ConfirmPending(x)
      BY <2>1, <2>3 DEF Confirm
    <3>3. /\ r.session.address = x.address
          /\ x.pending.type \in {"addAll", "item"} =>
               /\ Len(r.session.order) >= Len(x.order)
               /\ \A items : Portions(r.session.order, items) >= Portions(x.order, items)
          /\ x.pending.type = "removeAll" =>
               \A items : Portions(r.session.order, items) <= Portions(x.order, items)
          /\ x.pending.type = "clear" => r.session.order = <<>>
      BY <1>6, <3>1, <3>2, FineConfirmPending
    <3> QED BY <1>6, <1>8, <1>10, <2>1, <3>1, <3>3
  <2> QED BY <2>2, <2>3
<1> QED BY <1>9, <1>10

\* A yes changes the number of portions only as it was asked to.
LEMMA YesPortions ==
  ASSUME DialogueInv, DialogueInv', SaidYes
  PROVE  /\ Total(session'.order) > Total(session.order) => asked \in {"addAll", "item"}
         /\ Total(session'.order) < Total(session.order) /\ session'.order # <<>>
              => asked = "removeAll"
         /\ session'.address # session.address => session'.address = session.candidate
<1>1. /\ session.order \in Seq(Line) /\ session'.order \in Seq(Line)
      /\ session.pending.type \in Asking => asked = session.pending.type
  BY SessionFields DEF DialogueInv, OpenQuestion
<1>2. Total(session.order) \in Nat /\ Total(session'.order) \in Nat
      /\ (session'.order = <<>> => Total(session'.order) = 0)
  BY <1>1, PortionsNat DEF Total
<1>3. CASE session'.order = session.order
  BY <1>2, <1>3, YesTurn
<1>4. CASE session'.order # session.order
  <2>1. /\ session'.address = session.address
        /\ session.pending.type \in Asking \cup {"clear"}
        /\ session.pending.type \in {"addAll", "item"} =>
             Total(session'.order) >= Total(session.order)
        /\ session.pending.type = "removeAll" => Total(session'.order) <= Total(session.order)
        /\ session.pending.type = "clear" => session'.order = <<>>
    BY <1>4, YesTurn DEF Total
  <2>2. session.pending.type \in {"addAll", "item", "removeAll", "clear"}
    BY <2>1 DEF Asking
  <2>3. CASE session.pending.type \in {"addAll", "item"}
    <3>1. asked \in {"addAll", "item"}
      BY <1>1, <2>3 DEF Asking
    <3> QED BY <1>2, <2>1, <2>3, <3>1
  <2>4. CASE session.pending.type = "removeAll"
    <3>1. asked = "removeAll"
      BY <1>1, <2>4 DEF Asking
    <3> QED BY <1>2, <2>1, <2>4, <3>1
  <2>5. CASE session.pending.type = "clear"
    BY <1>2, <2>1, <2>5
  <2> QED BY <2>2, <2>3, <2>4, <2>5
<1> QED BY <1>3, <1>4

\* A yes that empties the order.
LEMMA YesClears ==
  ASSUME DialogueInv, DialogueInv', SaidYes, session.order # <<>>, session'.order = <<>>
  PROVE  /\ asked \notin {"informed", "address"}
         /\ session.pending.type = "clear" =>
              \A items : Portions(session.order, items) <= Portions(listed, items)
<1>1. /\ session.order \in Seq(Line)
      /\ session.pending.type \in Asking => asked = session.pending.type
      /\ session.pending.type = "clear" =>
           /\ \A items : Portions(session.order, items) <= Portions(listed, items)
           /\ session.candidate = None => asked \notin {"informed", "address"}
  BY SessionFields DEF DialogueInv, OpenQuestion
<1>2. /\ session.candidate = None /\ session.pending.type \in Asking \cup {"clear"}
      /\ session.pending.type \in {"addAll", "item"} => Len(session'.order) >= Len(session.order)
  BY YesTurn
<1>3. session.pending.type \notin {"addAll", "item"}
  <2>1. Len(session.order) > 0 /\ Len(session'.order) = 0 /\ Len(session.order) \in Nat
    BY <1>1
  <2> QED BY <1>2, <2>1
<1>4. asked \notin {"informed", "address"}
  BY <1>1, <1>2, <1>3 DEF Asking
<1> QED BY <1>1, <1>4

-----------------------------------------------------------------------------
(* The theorems *)

\* The session's fields, the former values that an undo would bring back, and
\* the question that is open are what the agents rely on, after every turn.
THEOREM DialogueInductive == DialogueSpec => []DialogueInv
BY InitDialogue, DialogueStep, PTL DEF DialogueSpec

\* No conversation submits an order that lacks dishes, or for a delivery the
\* address or the phone number; and while the phone number is awaited it is
\* what is missing (confirmation_agent.py, order_service.py:validate_before_submit).
THEOREM DialogueIsSound == DialogueSpec => []DialogueInvariant
<1>1. DialogueInv => DialogueInvariant
  <2> SUFFICES ASSUME DialogueInv PROVE DialogueInvariant
    OBVIOUS
  <2>1. session \in SessionState /\ Sound(session)
    BY DEF DialogueInv
  <2>2. SubmittedIsComplete /\ PhoneIsWhatIsMissing
    BY <2>1 DEF Sound, SubmittedIsComplete, PhoneIsWhatIsMissing
  <2>3. session.pending.type \in {None, "clear", "addAll", "removeAll", "item", "which"}
    BY <2>1, PendingTypes DEF Asking
  <2>4. DOMAIN session.snapshot \subseteq Undoable \cup {"submitted"}
    <3>1. session.snapshot \in Snapshots
      BY <2>1, SessionFields
    <3> QED BY <3>1 DEF Snapshots, Undoable
  <2>5. DialogueTypeOK
    BY <2>1, <2>3, <2>4, SessionFields DEF DialogueTypeOK, Places, Numbers
  <2> QED BY <2>2, <2>5 DEF DialogueInvariant
<1> QED BY <1>1, DialogueInductive, PTL

\* "That was wrong" brings back the very draft before the last turn that changed
\* it, or nothing, and no dishes into an order that is empty.
THEOREM UndoGivesBack == DialogueSpec => UndoIsExact
<1>1. DialogueInv /\ [DialogueNext]_vars =>
        [ DraftChanges /\ Complained =>
            /\ Draft(session') = earlier
            /\ (session.order = <<>> => session'.order = <<>>) ]_vars
  BY ComplaintUndoes DEF DraftChanges, Complained
<1> QED BY <1>1, DialogueInductive, PTL DEF DialogueSpec, UndoIsExact

\* A yes adds, takes away and adopts an address only when the last reply asked that.
THEOREM YesIsAnAnswer == DialogueSpec => YesAnswersTheQuestion
<1>1. DialogueInv /\ DialogueInv' /\ [DialogueNext]_vars =>
        [ DraftChanges /\ SaidYes =>
            /\ Total(session'.order) > Total(session.order) => asked \in {"addAll", "item"}
            /\ Total(session'.order) < Total(session.order) /\ session'.order # <<>>
                 => asked = "removeAll"
            /\ session'.address # session.address => session'.address = session.candidate ]_vars
  BY YesPortions
<1> QED BY <1>1, DialogueInductive, PTL DEF DialogueSpec, YesAnswersTheQuestion

\* A yes empties the order only of what was in it when that was asked.
THEOREM YesClearsNoMore == DialogueSpec => YesClearsWhatWasAsked
<1>1. DialogueInv /\ DialogueInv' /\ [DialogueNext]_vars =>
        [ session.order # <<>> /\ session'.order = <<>> /\ SaidYes =>
            /\ asked \notin {"informed", "address"}
            /\ session.pending.type = "clear" =>
                 \A item \in Items :
                   Portions(session.order, {item}) <= Portions(listed, {item}) ]_vars
  BY YesClears
<1> QED BY <1>1, DialogueInductive, PTL DEF DialogueSpec, YesClearsWhatWasAsked
=============================================================================
