------------------------ MODULE SingletonFollowProofs ------------------------
(***************************************************************************)
(* For every set of blocks, every window and every bound: once a peak has  *)
(* been handled without trouble, the state the listener serves is the one  *)
(* on that peak's chain, and the history it kept reaches back to the state *)
(* below every height of the remembered window.                            *)
(*                                                                         *)
(* The argument.  At rest the listener holds what it had when it followed  *)
(* some chain `old` up to a height `at`: a window of that chain's peaks    *)
(* from a height lo on, or none yet, and an unbroken line of states up to  *)
(* the chain's end, which is above `at` if a registry's spend went ahead   *)
(* of the peak.  The canonical chain leaves `old` at lo or above, drops no *)
(* block of it without one up to `at`, and spends the singleton at most    *)
(* once in each of its own blocks.  A connection gets there when the       *)
(* catch-up ends with such a line and no spend lies between it and the     *)
(* height followed from. The check finds the height where the two part,    *)
(* unless the peak is lower (a rewind), and the rollback makes `old` the   *)
(* part they share.  Then the blocks above are followed; a registry's      *)
(* spend may take one out of turn, up to height m, which changes nothing   *)
(* if a block before it still holds a spend to follow.                     *)
(***************************************************************************)
EXTENDS SingletonFollow, CommonLemmas, SequenceTheorems

-----------------------------------------------------------------------------
\* Types.

Spends == {"a", "b", Melt}
Coin == Seq(Spends \cup {"none"})
State == [coin : Coin, height : Nat]

\* The spends in the first h blocks of c.
Spent(c, h) == SpendsOf(SubSeq(c, 1, h))
Count(c, h) == Len(Spent(c, h))

Legal(c) == \A i \in 1 .. Len(SpendsOf(c)) - 1 : SpendsOf(c)[i] # Melt

-----------------------------------------------------------------------------
\* Flattening.

\* g holds the concatenations of the first parts of q.
Concatenated(g, q, n, X) ==
    /\ g \in [0 .. n -> Seq(X)]
    /\ \A i \in 1 .. n : g[i] = IF i = 1 THEN q[i] ELSE g[i - 1] \o q[i]

\* Such a function exists.
LEMMA Concatenations ==
    ASSUME NEW X, NEW n \in Nat, NEW q, \A i \in 1 .. n : q[i] \in Seq(X)
    PROVE  \E g : Concatenated(g, q, n, X)
<1> DEFINE S == Seq(X)
           G == [i \in 1 .. n |-> [x \in S |-> IF i = 1 THEN q[i] ELSE x \o q[i]]]
<1>1. ASSUME NEW i \in 1 .. n, NEW x \in S PROVE (IF i = 1 THEN q[i] ELSE x \o q[i]) \in S
  BY ConcatProperties
<1>2. Steps(G, n, S)
  BY <1>1 DEF Steps
<1>3. \E b : b \in S
  <2>1. <<>> \in S
    OBVIOUS
  <2> QED BY <2>1
<1>g. PICK b, g : Iterates(g, G, b, n, S)
  <2> HIDE DEF S, G
  <2> QED BY <1>2, <1>3, Recursion
<1>4. g \in [0 .. n -> S] /\ \A i \in 1 .. n : g[i] = G[i][g[i - 1]]
  BY <1>g DEF Iterates
<1>5. ASSUME NEW i \in 1 .. n PROVE g[i] = IF i = 1 THEN q[i] ELSE g[i - 1] \o q[i]
  <2>1. g[i - 1] \in S
    BY <1>4
  <2> QED BY <1>4, <2>1
<1> QED BY <1>4, <1>5 DEF Concatenated

\* A flattened sequence of sequences ends with the last of them.
LEMMA FlattenLast ==
    ASSUME NEW X, NEW q \in Seq(Seq(X)), q # <<>>
    PROVE  /\ FlattenSeq(SubSeq(q, 1, Len(q) - 1)) \in Seq(X)
           /\ FlattenSeq(q) = FlattenSeq(SubSeq(q, 1, Len(q) - 1)) \o q[Len(q)]
<1> DEFINE Rec(f, n) == f = [i \in 1 .. n |-> IF i = 1 THEN q[i] ELSE f[i - 1] \o q[i]]
           F(n) == CHOOSE f : Rec(f, n)
           p == SubSeq(q, 1, Len(q) - 1)
<1>1. Len(q) \in Nat \ {0} /\ DOMAIN q = 1 .. Len(q) /\ \A i \in 1 .. Len(q) : q[i] \in Seq(X)
  BY EmptySeq
<1>t. ASSUME NEW n \in Nat, n <= Len(q)
      PROVE  \E g : Concatenated(g, q, n, X)
  <2>1. \A i \in 1 .. n : q[i] \in Seq(X)
    BY <1>1, <1>t
  <2> QED BY <2>1, Concatenations
<1>2. ASSUME NEW n \in 1 .. Len(q)
      PROVE  \E f : /\ Rec(f, n) /\ f[1] = q[1] /\ \A i \in 1 .. n : f[i] \in Seq(X)
                    /\ \A i \in 2 .. n : f[i] = f[i - 1] \o q[i]
  <2>1. n \in Nat /\ 1 \in 1 .. n
    BY <1>1
  <2>c. PICK g : Concatenated(g, q, n, X)
    <3>1. n <= Len(q)
      BY <1>1
    <3> QED BY <1>t, <2>1, <3>1
  <2>2. g \in [0 .. n -> Seq(X)] /\ \A i \in 1 .. n : g[i] = IF i = 1 THEN q[i] ELSE g[i - 1] \o q[i]
    BY <2>c DEF Concatenated
  <2> DEFINE f == [i \in 1 .. n |-> g[i]]
  <2>3. \A i \in 1 .. n : f[i] = g[i] /\ g[i] \in Seq(X) /\ (i # 1 => i - 1 \in 1 .. n)
    BY <2>1, <2>2
  <2>4. f = [i \in 1 .. n |-> f[i]]
    OBVIOUS
  <2> HIDE DEF f
  <2>5. \A i \in 1 .. n : f[i] = IF i = 1 THEN q[i] ELSE f[i - 1] \o q[i]
    BY <2>2, <2>3
  <2>6. Rec(f, n)
    BY <2>4, <2>5
  <2>7. f[1] = q[1] /\ \A i \in 2 .. n : f[i] = f[i - 1] \o q[i]
    <3>1. \A i \in 2 .. n : i \in 1 .. n /\ i # 1
      BY <2>1
    <3> QED BY <2>1, <2>5, <3>1
  <2> HIDE DEF Rec
  <2> QED BY <2>3, <2>6, <2>7
<1>3. ASSUME NEW n \in 1 .. Len(q), NEW f, NEW g, Rec(f, n), Rec(g, n)
      PROVE  f = g
  <2> DEFINE T == {i \in Nat : i + 1 \in 1 .. n => f[i + 1] = g[i + 1]}
  <2>1. /\ f = [i \in 1 .. n |-> IF i = 1 THEN q[i] ELSE f[i - 1] \o q[i]]
        /\ g = [i \in 1 .. n |-> IF i = 1 THEN q[i] ELSE g[i - 1] \o q[i]]
    BY <1>3
  <2>2. \A i \in 1 .. n : f[i] = IF i = 1 THEN q[i] ELSE f[i - 1] \o q[i]
    BY <2>1
  <2>3. \A i \in 1 .. n : g[i] = IF i = 1 THEN q[i] ELSE g[i - 1] \o q[i]
    BY <2>1
  <2>4. 0 \in T
    BY <2>2, <2>3
  <2>5. ASSUME NEW i \in Nat, i \in T PROVE i + 1 \in T
    <3> SUFFICES ASSUME i + 2 \in 1 .. n PROVE f[i + 2] = g[i + 2]
      OBVIOUS
    <3>1. f[i + 1] = g[i + 1] /\ i + 2 # 1 /\ i + 2 - 1 = i + 1
      BY <2>5
    <3> QED BY <2>2, <2>3, <3>1
  <2>6. Nat \subseteq T
    <3> HIDE DEF T
    <3> QED BY <2>4, <2>5, AllNat
  <2>7. \A i \in 1 .. n : f[i] = g[i]
    <3> SUFFICES ASSUME NEW i \in 1 .. n PROVE f[i] = g[i]
      OBVIOUS
    <3>1. i - 1 \in Nat /\ i - 1 + 1 = i
      OBVIOUS
    <3> QED BY <2>6, <3>1
  <2>8. f = [i \in 1 .. n |-> f[i]] /\ g = [i \in 1 .. n |-> g[i]]
    BY <2>1
  <2> QED BY <2>7, <2>8
<1>4. ASSUME NEW n \in 1 .. Len(q)
      PROVE  /\ Rec(F(n), n) /\ F(n)[1] = q[1] /\ \A i \in 1 .. n : F(n)[i] \in Seq(X)
             /\ \A i \in 2 .. n : F(n)[i] = F(n)[i - 1] \o q[i]
  <2>1. PICK f : /\ Rec(f, n) /\ f[1] = q[1] /\ \A i \in 1 .. n : f[i] \in Seq(X)
                 /\ \A i \in 2 .. n : f[i] = f[i - 1] \o q[i]
    <3> HIDE DEF Rec
    <3> QED BY <1>2
  <2>2. Rec(F(n), n)
    <3> HIDE DEF Rec
    <3> QED BY <2>1
  <2> HIDE DEF Rec, F
  <2>3. F(n) = f
    BY <1>3, <2>1, <2>2
  <2> QED BY <2>1, <2>3
<1>5. FlattenSeq(q) = F(Len(q))[Len(q)]
  BY <1>1 DEF FlattenSeq
<1>6. /\ Len(p) = Len(q) - 1 /\ \A i \in 1 .. Len(q) - 1 : p[i] = q[i]
  BY <1>1, SubSeqProperties
<1>7. CASE Len(q) = 1
  <2>1. p = <<>>
    BY <1>1, <1>7
  <2>2. FlattenSeq(p) = <<>>
    BY <2>1 DEF FlattenSeq
  <2>3. FlattenSeq(q) = q[1]
    <3> HIDE DEF F
    <3> QED BY <1>1, <1>4, <1>5, <1>7
  <2>4. q[1] \in Seq(X) /\ q[Len(q)] = q[1]
    BY <1>1, <1>7
  <2>5. <<>> \o q[1] = q[1]
    BY <2>4, ConcatEmptySeq
  <2>6. <<>> \in Seq(X)
    OBVIOUS
  <2> HIDE DEF F, Rec
  <2> QED BY <2>2, <2>3, <2>4, <2>5, <2>6
<1>8. CASE Len(q) # 1
  <2> DEFINE n == Len(q) - 1
             RecP(f) == f = [i \in 1 .. n |-> IF i = 1 THEN p[i] ELSE f[i - 1] \o p[i]]
  <2>1. n \in 1 .. Len(q) /\ n # 0 /\ Len(q) \in 2 .. Len(q) /\ Len(q) \in 1 .. Len(q) /\ n \in 1 .. n
    BY <1>1, <1>8
  <2>2. FlattenSeq(p) = (CHOOSE f : RecP(f))[n]
    <3>1. Len(p) = n
      BY <1>6
    <3> HIDE DEF p
    <3> QED BY <2>1, <3>1 DEF FlattenSeq
  <2>3. ASSUME NEW f PROVE RecP(f) <=> Rec(f, n)
    <3>1. [i \in 1 .. n |-> IF i = 1 THEN p[i] ELSE f[i - 1] \o p[i]]
            = [i \in 1 .. n |-> IF i = 1 THEN q[i] ELSE f[i - 1] \o q[i]]
      <4> HIDE DEF p
      <4> QED BY <1>6
    <3> HIDE DEF p
    <3> QED BY <3>1
  <2>4. FlattenSeq(p) = F(n)[n]
    <3> HIDE DEF RecP, Rec, p
    <3> QED BY <2>2, <2>3
  <2>5. /\ FlattenSeq(p) \in Seq(X)
    <3> HIDE DEF F, p, n
    <3> QED BY <1>4, <2>1, <2>4
  <2> DEFINE f == F(Len(q))
             g == [i \in 1 .. n |-> f[i]]
  <2>6. Rec(f, Len(q))
    <3> HIDE DEF F, Rec
    <3> QED BY <1>4, <2>1
  <2>7. Rec(g, n)
    <3> HIDE DEF f
    <3>1. \A i \in 1 .. n : g[i] = f[i] /\ i \in 1 .. Len(q) /\ (i # 1 => i - 1 \in 1 .. n)
      BY <1>1
    <3>2. \A i \in 1 .. Len(q) : f[i] = IF i = 1 THEN q[i] ELSE f[i - 1] \o q[i]
      BY <2>6
    <3>3. \A i \in 1 .. n : g[i] = IF i = 1 THEN q[i] ELSE g[i - 1] \o q[i]
      <4> HIDE DEF g, n
      <4> QED BY <3>1, <3>2
    <3>4. g = [i \in 1 .. n |-> g[i]]
      OBVIOUS
    <3> HIDE DEF g
    <3> QED BY <3>3, <3>4
  <2>8. g = F(n)
    <3> HIDE DEF g, F, Rec, n
    <3> QED BY <1>3, <1>4, <2>1, <2>7
  <2>9. f[n] = FlattenSeq(p)
    <3>1. g[n] = f[n]
      <4> HIDE DEF f, n
      <4> QED BY <2>1
    <3> HIDE DEF f, g, F, p, n
    <3> QED BY <2>4, <2>8, <3>1
  <2>10. f[Len(q)] = f[Len(q) - 1] \o q[Len(q)]
    <3> HIDE DEF F, Rec
    <3> QED BY <1>4, <2>1
  <2> HIDE DEF F
  <2> QED BY <1>5, <2>5, <2>9, <2>10
<1> QED BY <1>7, <1>8

-----------------------------------------------------------------------------
\* The spends on a chain.

\* What a chain is made of.
LEMMA BlockType ==
    ASSUME NEW c \in Seq(Blocks)
    PROVE  /\ Len(c) \in Nat /\ DOMAIN c = 1 .. Len(c)
           /\ \A h \in 1 .. Len(c) : c[h] \in Blocks /\ c[h].spends \in Seq(Spends)
           /\ \A h \in 0 .. Len(c) : SubSeq(c, 1, h) \in Seq(Blocks) /\ Len(SubSeq(c, 1, h)) = h
           /\ SubSeq(c, 1, Len(c)) = c
           /\ \A h \in 0 .. Len(c), i \in 1 .. Len(c) : i <= h => SubSeq(c, 1, h)[i] = c[i]
           /\ \A g, h \in 0 .. Len(c) : g <= h => SubSeq(SubSeq(c, 1, h), 1, g) = SubSeq(c, 1, g)
<1>1. Len(c) \in Nat /\ DOMAIN c = 1 .. Len(c) /\ \A h \in 1 .. Len(c) : c[h] \in Blocks
  OBVIOUS
<1>2. \A b \in Blocks : b.spends \in Seq(Spends)
  BY FollowAssumption DEF Spends
<1>3. ASSUME NEW h \in 0 .. Len(c)
      PROVE  /\ SubSeq(c, 1, h) \in Seq(Blocks) /\ Len(SubSeq(c, 1, h)) = h
             /\ \A i \in 1 .. h : SubSeq(c, 1, h)[i] = c[i]
  BY <1>1, SubSeqProperties
<1>4. SubSeq(c, 1, Len(c)) = c
  BY SubSeqFull
<1>5. ASSUME NEW g \in 0 .. Len(c), NEW h \in 0 .. Len(c), g <= h
      PROVE  SubSeq(SubSeq(c, 1, h), 1, g) = SubSeq(c, 1, g)
  <2> DEFINE p == SubSeq(c, 1, h)
  <2>1. p \in Seq(Blocks) /\ Len(p) = h /\ g \in 0 .. Len(p)
    BY <1>3, <1>5
  <2>2. \A i \in 1 .. g : p[i] = c[i] /\ p[i] \in Blocks /\ c[i] \in Blocks
    BY <1>1, <1>3, <1>5
  <2> HIDE DEF p
  <2>3. /\ SubSeq(p, 1, g) \in Seq(Blocks) /\ Len(SubSeq(p, 1, g)) = g
        /\ \A i \in 1 .. g : SubSeq(p, 1, g)[i] = p[i]
    BY <1>1, <2>2, SubSeqProperties
  <2>4. /\ SubSeq(c, 1, g) \in Seq(Blocks) /\ Len(SubSeq(c, 1, g)) = g
        /\ \A i \in 1 .. g : SubSeq(c, 1, g)[i] = c[i]
    BY <1>3
  <2>5. SubSeq(p, 1, g) = SubSeq(c, 1, g)
    BY <2>2, <2>3, <2>4, SeqEqual
  <2> QED BY <2>5 DEF p
<1> QED BY <1>1, <1>2, <1>3, <1>4, <1>5

\* The spends of a chain end with those of its last block.
LEMMA SpendsLast ==
    ASSUME NEW c \in Seq(Blocks), c # <<>>
    PROVE  /\ SpendsOf(SubSeq(c, 1, Len(c) - 1)) \in Seq(Spends)
           /\ SpendsOf(c) = SpendsOf(SubSeq(c, 1, Len(c) - 1)) \o c[Len(c)].spends
<1> DEFINE q == [i \in DOMAIN c |-> c[i].spends]
           p == SubSeq(c, 1, Len(c) - 1)
           r == [i \in DOMAIN p |-> p[i].spends]
<1>1. /\ Len(c) \in Nat \ {0} /\ DOMAIN c = 1 .. Len(c)
      /\ \A h \in 1 .. Len(c) : c[h].spends \in Seq(Spends)
  BY BlockType, EmptySeq
<1>2. q \in Seq(Seq(Spends)) /\ Len(q) = Len(c) /\ \A i \in 1 .. Len(c) : q[i] = c[i].spends
  BY <1>1
<1>3. p \in Seq(Blocks) /\ Len(p) = Len(c) - 1 /\ \A i \in 1 .. Len(c) - 1 : p[i] = c[i]
  BY <1>1, SubSeqProperties
<1>4. DOMAIN p = 1 .. Len(c) - 1
  BY <1>3
<1>5. r = SubSeq(q, 1, Len(q) - 1)
  <2>1. \A i \in 1 .. Len(c) - 1 : q[i] \in Seq(Spends)
    BY <1>1, <1>2
  <2>2. /\ SubSeq(q, 1, Len(c) - 1) \in Seq(Seq(Spends)) /\ Len(SubSeq(q, 1, Len(c) - 1)) = Len(c) - 1
        /\ \A i \in 1 .. Len(c) - 1 : SubSeq(q, 1, Len(c) - 1)[i] = q[i]
    <3> HIDE DEF q
    <3> QED BY <1>1, <2>1, SubSeqProperties
  <2>3. r = [i \in 1 .. Len(c) - 1 |-> c[i].spends]
    <3> HIDE DEF p
    <3> QED BY <1>3, <1>4
  <2>4. r \in Seq(Seq(Spends)) /\ Len(r) = Len(c) - 1 /\ \A i \in 1 .. Len(c) - 1 : r[i] = q[i]
    <3> HIDE DEF r
    <3> QED BY <1>1, <2>3
  <2> HIDE DEF r, q
  <2> QED BY <1>2, <2>2, <2>4, SeqEqual
<1>6. q # <<>>
  <2> HIDE DEF q
  <2> QED BY <1>1, <1>2
<1>7. SpendsOf(c) = FlattenSeq(q) /\ SpendsOf(p) = FlattenSeq(r)
  BY DEF SpendsOf
<1>8. /\ FlattenSeq(r) \in Seq(Spends)
      /\ FlattenSeq(q) = FlattenSeq(r) \o q[Len(q)]
  <2> HIDE DEF q, r
  <2> QED BY <1>2, <1>5, <1>6, FlattenLast
<1>9. q[Len(q)] = c[Len(c)].spends
  <2> HIDE DEF q
  <2> QED BY <1>1, <1>2
<1> HIDE DEF q, r
<1> QED BY <1>7, <1>8, <1>9

\* The spends up to a height, block by block.
LEMMA SpentStep ==
    ASSUME NEW c \in Seq(Blocks)
    PROVE  /\ Spent(c, 0) = <<>> /\ Spent(c, Len(c)) = SpendsOf(c)
           /\ \A h \in 0 .. Len(c) : Spent(c, h) \in Seq(Spends) /\ Count(c, h) \in Nat
           /\ \A h \in 1 .. Len(c) :
                 /\ Spent(c, h) = Spent(c, h - 1) \o c[h].spends
                 /\ Count(c, h) = Count(c, h - 1) + Len(c[h].spends)
<1>1. SubSeq(c, 1, 0) = <<>> /\ SubSeq(c, 1, Len(c)) = c
  BY BlockType, SubSeqEmpty
<1>2. Spent(c, 0) = <<>>
  BY <1>1 DEF Spent, SpendsOf, FlattenSeq
<1>3. ASSUME NEW h \in 1 .. Len(c)
      PROVE  /\ Spent(c, h - 1) \in Seq(Spends) /\ c[h].spends \in Seq(Spends)
             /\ Spent(c, h) = Spent(c, h - 1) \o c[h].spends
  <2> DEFINE p == SubSeq(c, 1, h)
  <2>1. /\ Len(c) \in Nat /\ p \in Seq(Blocks) /\ Len(p) = h /\ p[h] = c[h]
        /\ SubSeq(p, 1, h - 1) = SubSeq(c, 1, h - 1)
        /\ c[h].spends \in Seq(Spends)
    BY BlockType
  <2>2. p # <<>>
    BY <2>1
  <2> HIDE DEF p
  <2>3. /\ SpendsOf(SubSeq(p, 1, Len(p) - 1)) \in Seq(Spends)
        /\ SpendsOf(p) = SpendsOf(SubSeq(p, 1, Len(p) - 1)) \o p[Len(p)].spends
    BY <2>1, <2>2, SpendsLast
  <2> QED BY <2>1, <2>3 DEF Spent, p
<1>4. \A h \in 0 .. Len(c) : Spent(c, h) \in Seq(Spends)
  <2> SUFFICES ASSUME NEW h \in 0 .. Len(c) PROVE Spent(c, h) \in Seq(Spends)
    OBVIOUS
  <2>1. CASE h = 0
    <3>1. <<>> \in Seq(Spends) /\ Spent(c, h) = <<>>
      BY <1>2, <2>1
    <3> QED BY <3>1
  <2>2. CASE h # 0
    <3>1. h \in 1 .. Len(c)
      BY <2>2
    <3> QED BY <1>3, <3>1, ConcatProperties
  <2> QED BY <2>1, <2>2
<1>5. \A h \in 1 .. Len(c) : Count(c, h) = Count(c, h - 1) + Len(c[h].spends)
  BY <1>3, ConcatProperties DEF Count
<1>6. \A h \in 0 .. Len(c) : Count(c, h) \in Nat
  BY <1>4, LenProperties DEF Count
<1> QED BY <1>1, <1>2, <1>3, <1>4, <1>5, <1>6 DEF Spent

\* What was spent up to a height is a prefix of all that was spent.
LEMMA SpentPrefix ==
    ASSUME NEW c \in Seq(Blocks), NEW g \in 0 .. Len(c), NEW h \in 0 .. Len(c), g <= h
    PROVE  Count(c, g) <= Count(c, h) /\ Spent(c, g) = SubSeq(Spent(c, h), 1, Count(c, g))
<1> DEFINE Holds(k) == Count(c, g) <= Count(c, k) /\ Spent(c, g) = SubSeq(Spent(c, k), 1, Count(c, g))
           T == {i \in Nat : g + i <= Len(c) => Holds(g + i)}
<1>1. Len(c) \in Nat /\ Spent(c, g) \in Seq(Spends) /\ Count(c, g) \in Nat
  BY SpentStep, BlockType
<1>2. 0 \in T
  <2>1. SubSeq(Spent(c, g), 1, Len(Spent(c, g))) = Spent(c, g)
    BY <1>1, SubSeqFull
  <2> QED BY <1>1, <2>1 DEF Count
<1>3. ASSUME NEW i \in Nat, i \in T PROVE i + 1 \in T
  <2> SUFFICES ASSUME g + (i + 1) <= Len(c) PROVE Holds(g + (i + 1))
    OBVIOUS
  <2> DEFINE k == g + i + 1
  <2>1. k - 1 \in 0 .. Len(c) /\ k \in 1 .. Len(c) /\ k - 1 = g + i /\ g + (i + 1) = k
    BY <1>1
  <2>2. Holds(k - 1)
    BY <1>3, <2>1
  <2> HIDE DEF k
  <2>3. /\ Spent(c, k) = Spent(c, k - 1) \o c[k].spends
        /\ Count(c, k) = Count(c, k - 1) + Len(c[k].spends)
        /\ Spent(c, k - 1) \in Seq(Spends) /\ c[k].spends \in Seq(Spends)
        /\ Count(c, k - 1) \in Nat /\ Len(c[k].spends) \in Nat
    <3>1. /\ Spent(c, k) = Spent(c, k - 1) \o c[k].spends
          /\ Count(c, k) = Count(c, k - 1) + Len(c[k].spends)
      BY <2>1, SpentStep
    <3>2. Spent(c, k - 1) \in Seq(Spends) /\ Count(c, k - 1) \in Nat
      BY <2>1, SpentStep
    <3>3. c[k].spends \in Seq(Spends) /\ Len(c[k].spends) \in Nat
      BY <2>1, BlockType, LenProperties
    <3> QED BY <2>1, <3>1, <3>2, <3>3
  <2>4. SubSeq(Spent(c, k), 1, Count(c, g)) = SubSeq(Spent(c, k - 1), 1, Count(c, g))
    <3> DEFINE n == Count(c, g)
               s == Spent(c, k - 1)
               t == Spent(c, k)
    <3>1. n \in Nat /\ n <= Len(s)
      BY <1>1, <2>2 DEF Count
    <3>2. \A j \in 1 .. Len(s) : t[j] = s[j] /\ s[j] \in Spends
      BY <2>3, ConcatProperties
    <3> HIDE DEF n, s, t
    <3>3. \A j \in 1 .. n : t[j] = s[j] /\ t[j] \in Spends /\ s[j] \in Spends
      <4>1. \A j \in 1 .. n : j \in 1 .. Len(s)
        BY <2>3, <3>1 DEF s
      <4> QED BY <3>2, <4>1
    <3>4. /\ SubSeq(s, 1, n) \in Seq(Spends) /\ Len(SubSeq(s, 1, n)) = n
          /\ \A j \in 1 .. n : SubSeq(s, 1, n)[j] = s[j]
      BY <3>1, <3>3, SubSeqProperties
    <3>5. /\ SubSeq(t, 1, n) \in Seq(Spends) /\ Len(SubSeq(t, 1, n)) = n
          /\ \A j \in 1 .. n : SubSeq(t, 1, n)[j] = t[j]
      BY <3>1, <3>3, SubSeqProperties
    <3>6. SubSeq(t, 1, n) = SubSeq(s, 1, n)
      BY <3>3, <3>4, <3>5, SeqEqual
    <3> QED BY <3>6 DEF n, s, t
  <2>5. Holds(k)
    <3>1. Count(c, g) <= Count(c, k)
      BY <1>1, <2>2, <2>3
    <3>2. Spent(c, g) = SubSeq(Spent(c, k), 1, Count(c, g))
      BY <2>2, <2>4, Zenon
    <3> QED BY <3>1, <3>2
  <2> HIDE DEF Holds
  <2> QED BY <2>1, <2>5
<1>4. Nat \subseteq T
  <2> HIDE DEF T
  <2> QED BY <1>2, <1>3, AllNat
<1>5. h - g \in Nat /\ g + (h - g) = h
  BY <1>1
<1>6. Holds(h)
  <2> HIDE DEF Holds
  <2> QED BY <1>1, <1>4, <1>5
<1> QED BY <1>6

-----------------------------------------------------------------------------
\* States on a chain.

\* The largest and the least of some numbers.
LEMMA MaxIs ==
    ASSUME NEW b \in Nat, NEW T, T \subseteq 0 .. b, T # {}
    PROVE  Max(T) \in T /\ \A n \in T : n <= Max(T)
<1>1. \E m \in T : \A n \in T : m >= n
  <2>1. PICK m \in T : \A n \in T : n <= m
    BY GreatestNat
  <2> QED BY <2>1
<1> DEFINE P(m) == m \in T /\ \A n \in T : m >= n
<1>2. Max(T) = CHOOSE m \in T : \A n \in T : m >= n
  BY DEF Max
<1>3. Max(T) \in T /\ \A n \in T : Max(T) >= n
  BY <1>1, <1>2
<1> QED BY <1>3

LEMMA MinIs ==
    ASSUME NEW T, T \subseteq Nat, T # {}
    PROVE  Min(T) \in T /\ \A n \in T : Min(T) <= n
<1>1. \E m \in T : \A n \in T : m <= n
  BY LeastNat
<1>2. Min(T) = CHOOSE m \in T : \A n \in T : m <= n
  BY DEF Min
<1> QED BY <1>1, <1>2

\* The n first spends, seen from a height above.
LEMMA SpentShort ==
    ASSUME NEW c \in Seq(Blocks), NEW h \in 0 .. Len(c), NEW n \in Nat, n <= Count(c, h)
    PROVE  /\ n <= Len(SpendsOf(c))
           /\ SubSeq(Spent(c, h), 1, n) = SubSeq(SpendsOf(c), 1, n)
           /\ SubSeq(SpendsOf(c), 1, n) \in Coin
           /\ Len(SubSeq(SpendsOf(c), 1, n)) = n
<1>1. /\ Len(c) \in Nat /\ Spent(c, Len(c)) = SpendsOf(c)
      /\ Spent(c, h) \in Seq(Spends) /\ SpendsOf(c) \in Seq(Spends)
      /\ Count(c, h) = Len(Spent(c, h)) /\ Count(c, Len(c)) = Len(SpendsOf(c))
      /\ Count(c, h) \in Nat /\ Count(c, Len(c)) \in Nat
  <2>1. Len(c) \in Nat /\ Len(c) \in 0 .. Len(c)
    BY BlockType
  <2>2. /\ Spent(c, Len(c)) = SpendsOf(c) /\ Spent(c, h) \in Seq(Spends)
        /\ Spent(c, Len(c)) \in Seq(Spends)
        /\ Count(c, h) \in Nat /\ Count(c, Len(c)) \in Nat
    BY <2>1, SpentStep
  <2> QED BY <2>1, <2>2 DEF Count
<1>2. Count(c, h) <= Count(c, Len(c)) /\ Spent(c, h) = SubSeq(SpendsOf(c), 1, Count(c, h))
  <2>1. Len(c) \in 0 .. Len(c) /\ h <= Len(c)
    BY <1>1
  <2> QED BY <1>1, <2>1, SpentPrefix
<1> DEFINE s == Spent(c, h)
           t == SpendsOf(c)
<1>3. s \in Seq(Spends) /\ t \in Seq(Spends) /\ n <= Len(s) /\ Len(s) <= Len(t) /\ s = SubSeq(t, 1, Len(s))
  BY <1>1, <1>2
<1> HIDE DEF s, t
<1>4. Len(s) \in Nat /\ Len(t) \in Nat
  BY <1>3
<1>5. \A j \in 1 .. n : s[j] \in Spends /\ t[j] \in Spends /\ s[j] = t[j]
  <2>1. \A j \in 1 .. Len(s) : t[j] \in Spends
    BY <1>3, <1>4
  <2>2. \A j \in 1 .. Len(s) : SubSeq(t, 1, Len(s))[j] = t[j]
    BY <1>4, <2>1, SubSeqProperties
  <2>3. \A j \in 1 .. n : j \in 1 .. Len(s)
    BY <1>3, <1>4
  <2> QED BY <1>3, <2>1, <2>2, <2>3
<1>6. /\ SubSeq(s, 1, n) \in Seq(Spends) /\ Len(SubSeq(s, 1, n)) = n
      /\ \A j \in 1 .. n : SubSeq(s, 1, n)[j] = s[j]
  BY <1>5, SubSeqProperties
<1>7. /\ SubSeq(t, 1, n) \in Seq(Spends) /\ Len(SubSeq(t, 1, n)) = n
      /\ \A j \in 1 .. n : SubSeq(t, 1, n)[j] = t[j]
  BY <1>5, SubSeqProperties
<1>8. SubSeq(s, 1, n) = SubSeq(t, 1, n)
  BY <1>5, <1>6, <1>7, SeqEqual
<1>9. SubSeq(t, 1, n) \in Coin
  BY <1>7 DEF Coin
<1>10. n <= Len(t)
  BY <1>3, <1>4
<1> QED BY <1>7, <1>8, <1>9, <1>10 DEF s, t

\* A state is on a chain if its coin is made of the chain's first spends, the
\* last of which is at its height.
LEMMA OnChainIs ==
    ASSUME NEW c \in Seq(Blocks), NEW s \in State
    PROVE  /\ Len(s.coin) \in Nat /\ s.height \in Nat
           /\ OnChain(s, c) <=>
                 /\ s.height <= Len(c)
                 /\ Len(s.coin) <= Count(c, s.height)
                 /\ s.coin = SubSeq(SpendsOf(c), 1, Len(s.coin))
                 /\ s.height > 0 => Len(s.coin) > Count(c, s.height - 1)
<1> DEFINE n == Len(s.coin)
           h == s.height
<1>1. n \in Nat /\ h \in Nat /\ SubSeq(s.coin, 1, n) = s.coin
  <2>1. s.coin \in Seq(Spends \cup {"none"}) /\ h \in Nat
    BY DEF State, Coin
  <2> QED BY <2>1, SubSeqFull, LenProperties
<1>2. OnChain(s, c) <=>
        /\ h <= Len(c)
        /\ n <= Count(c, h) /\ s.coin = SubSeq(Spent(c, h), 1, n)
        /\ h > 0 => n > Count(c, h - 1)
  <2> HIDE DEF n, h
  <2>1. IsPrefix(s.coin, Spent(c, h)) <=> n <= Count(c, h) /\ s.coin = SubSeq(Spent(c, h), 1, n)
    BY <1>1 DEF IsPrefix, Count, n
  <2> QED BY <2>1 DEF OnChain, Spent, Count, n, h
<1>3. ASSUME h <= Len(c), n <= Count(c, h)
      PROVE  SubSeq(Spent(c, h), 1, n) = SubSeq(SpendsOf(c), 1, n)
  <2>1. h \in 0 .. Len(c)
    BY <1>1, <1>3, BlockType
  <2> HIDE DEF n, h
  <2> QED BY <1>1, <1>3, <2>1, SpentShort
<1> QED BY <1>1, <1>2, <1>3

\* A coin has one height on a chain, and later coins are not lower.
LEMMA Placed ==
    ASSUME NEW c \in Seq(Blocks), NEW s \in State, NEW t \in State,
           OnChain(s, c), OnChain(t, c), Len(s.coin) <= Len(t.coin)
    PROVE  s.height <= t.height /\ (Len(s.coin) = Len(t.coin) => s = t)
<1>1. \A x, y \in State :
         OnChain(x, c) /\ OnChain(y, c) /\ Len(x.coin) <= Len(y.coin) => x.height <= y.height
  <2> SUFFICES ASSUME NEW x \in State, NEW y \in State,
                      OnChain(x, c), OnChain(y, c), Len(x.coin) <= Len(y.coin),
                      ~ (x.height <= y.height)
               PROVE  FALSE
    OBVIOUS
  <2>1. /\ x.height \in Nat /\ x.height <= Len(c) /\ (x.height > 0 => Len(x.coin) > Count(c, x.height - 1))
        /\ y.height \in Nat /\ Len(y.coin) <= Count(c, y.height)
        /\ Len(x.coin) \in Nat /\ Len(y.coin) \in Nat /\ Len(c) \in Nat
    BY OnChainIs, BlockType
  <2>2. y.height \in 0 .. Len(c) /\ x.height - 1 \in 0 .. Len(c) /\ y.height <= x.height - 1 /\ x.height > 0
    BY <2>1
  <2>3. Count(c, y.height) <= Count(c, x.height - 1) /\ Count(c, y.height) \in Nat /\ Count(c, x.height - 1) \in Nat
    BY <2>2, SpentPrefix, SpentStep
  <2> QED BY <2>1, <2>2, <2>3
<1>2. s.height <= t.height
  BY <1>1
<1>3. ASSUME Len(s.coin) = Len(t.coin) PROVE s = t
  <2>1. t.height <= s.height
    BY <1>1, <1>3, OnChainIs
  <2>2. s.height = t.height
    BY <1>2, <2>1, OnChainIs
  <2>3. s.coin = t.coin
    BY <1>3, OnChainIs
  <2> QED BY <2>2, <2>3 DEF State
<1> QED BY <1>2, <1>3

\* Whether a state is on a chain is settled by the blocks up to its height.
LEMMA OnPrefix ==
    ASSUME NEW c \in Seq(Blocks), NEW s \in State, NEW h \in 0 .. Len(c), s.height <= h
    PROVE  OnChain(s, c) <=> OnChain(s, SubSeq(c, 1, h))
<1>1. s.height \in Nat /\ Len(c) \in Nat /\ s.height \in 0 .. Len(c) /\ s.height <= Len(c)
  BY BlockType DEF State
<1>2. Len(SubSeq(c, 1, h)) = h /\ SubSeq(SubSeq(c, 1, h), 1, s.height) = SubSeq(c, 1, s.height)
  BY <1>1, BlockType
<1>3. CASE s.height = 0
  <2>1. ~ (s.height > 0)
    BY <1>3
  <2> QED BY <1>1, <1>2, <2>1, Zenon DEF OnChain
<1>4. CASE s.height # 0
  <2>1. s.height - 1 \in 0 .. Len(c) /\ s.height - 1 <= h
    BY <1>1, <1>4
  <2>2. SubSeq(SubSeq(c, 1, h), 1, s.height - 1) = SubSeq(c, 1, s.height - 1)
    BY <2>1, BlockType
  <2> QED BY <1>1, <1>2, <2>2 DEF OnChain
<1> QED BY <1>3, <1>4

\* Blocks without spends do not count.
LEMMA NoSpends ==
    ASSUME NEW c \in Seq(Blocks), NEW g \in 0 .. Len(c), NEW h \in 0 .. Len(c), g <= h,
           \A i \in g + 1 .. h : c[i].spends = <<>>
    PROVE  Count(c, g) = Count(c, h) /\ Spent(c, g) = Spent(c, h)
<1>1. Len(c) \in Nat
  BY BlockType
<1> DEFINE T == {i \in g .. h : Spent(c, i) = Spent(c, g)}
<1>2. PICK m \in T : \A i \in T : i <= m
  <2>1. g \in T /\ T \subseteq 0 .. h /\ h \in Nat
    BY <1>1
  <2> HIDE DEF T
  <2> QED BY <2>1, GreatestNat
<1>3. m = h
  <2> SUFFICES ASSUME m # h PROVE FALSE
    OBVIOUS
  <2> DEFINE k == m + 1
  <2>1. k \in g + 1 .. h /\ k \in 1 .. Len(c) /\ k - 1 = m /\ ~ (k <= m)
    BY <1>1
  <2> HIDE DEF k
  <2>2. Spent(c, k) = Spent(c, k - 1) \o c[k].spends /\ Spent(c, k - 1) \in Seq(Spends)
    <3>1. k - 1 \in 0 .. Len(c)
      BY <1>1, <2>1
    <3> QED BY <2>1, <3>1, SpentStep
  <2>3. c[k].spends = <<>>
    BY <2>1
  <2>4. Spent(c, k) = Spent(c, g)
    BY <2>1, <2>2, <2>3, ConcatEmptySeq
  <2>5. k \in T
    BY <1>1, <2>1, <2>4
  <2> HIDE DEF T
  <2> QED BY <1>2, <2>1, <2>5
<1> QED BY <1>3 DEF Count

\* The state a chain implies is on it, and is the only one with its coin.
LEMMA StateOnIs ==
    ASSUME NEW c \in Seq(Blocks)
    PROVE  /\ StateOn(c) \in State /\ OnChain(StateOn(c), c) /\ StateOn(c).coin = SpendsOf(c)
           /\ \A s \in State : OnChain(s, c) /\ Len(s.coin) = Len(SpendsOf(c)) => s = StateOn(c)
<1> DEFINE hs == {i \in DOMAIN c : c[i].spends # <<>>}
           H == IF hs = {} THEN 0 ELSE Max(hs)
<1>1. /\ Len(c) \in Nat /\ DOMAIN c = 1 .. Len(c) /\ Len(c) \in 0 .. Len(c)
      /\ \A i \in 1 .. Len(c) : c[i].spends \in Seq(Spends)
  BY BlockType
<1>2. SpendsOf(c) \in Coin /\ SpendsOf(c) \in Seq(Spends)
  <2>1. Spent(c, Len(c)) \in Seq(Spends) /\ Spent(c, Len(c)) = SpendsOf(c)
    BY <1>1, SpentStep
  <2> QED BY <2>1 DEF Coin
<1>3. H \in 0 .. Len(c) /\ (H > 0 => H \in hs) /\ \A i \in H + 1 .. Len(c) : c[i].spends = <<>>
  <2>1. CASE hs = {}
    BY <1>1, <2>1
  <2>2. CASE hs # {}
    <3>1. hs \subseteq 0 .. Len(c)
      BY <1>1
    <3>2. H = Max(hs)
      BY <2>2
    <3> HIDE DEF H
    <3>3. H \in hs /\ \A n \in hs : n <= H
      <4> HIDE DEF hs
      <4> QED BY <1>1, <2>2, <3>1, <3>2, MaxIs
    <3>4. H \in 1 .. Len(c)
      BY <1>1, <3>3
    <3>5. ASSUME NEW i \in H + 1 .. Len(c) PROVE c[i].spends = <<>>
      <4>1. i \in DOMAIN c /\ ~ (i <= H)
        BY <1>1, <3>4
      <4> QED BY <3>3, <4>1
    <3> QED BY <1>1, <3>3, <3>4, <3>5
  <2> QED BY <2>1, <2>2
<1>4. StateOn(c) = [coin |-> SpendsOf(c), height |-> H]
  BY DEF StateOn
<1> HIDE DEF H
<1>5. StateOn(c) \in State /\ StateOn(c).coin = SpendsOf(c) /\ StateOn(c).height = H
  BY <1>1, <1>2, <1>3, <1>4 DEF State
<1>6. Count(c, H) = Len(SpendsOf(c))
  <2>1. Count(c, H) = Count(c, Len(c))
    BY <1>1, <1>3, NoSpends
  <2>2. Count(c, Len(c)) = Len(SpendsOf(c))
    BY SpentStep DEF Count
  <2> QED BY <2>1, <2>2
<1>7. ASSUME H > 0 PROVE Len(SpendsOf(c)) > Count(c, H - 1)
  <2>1. H \in 1 .. Len(c) /\ c[H].spends # <<>> /\ H - 1 \in 0 .. Len(c)
    BY <1>1, <1>3, <1>7
  <2>2. Count(c, H) = Count(c, H - 1) + Len(c[H].spends) /\ Count(c, H - 1) \in Nat
    BY <2>1, SpentStep
  <2>3. Len(c[H].spends) \in Nat \ {0}
    BY <1>1, <2>1, EmptySeq
  <2> QED BY <1>6, <2>2, <2>3
<1>8. SpendsOf(c) = SubSeq(SpendsOf(c), 1, Len(SpendsOf(c))) /\ Len(SpendsOf(c)) \in Nat
  BY <1>2, SubSeqFull, LenProperties
<1>9. OnChain(StateOn(c), c)
  BY <1>1, <1>3, <1>5, <1>6, <1>7, <1>8, OnChainIs
<1>10. \A s \in State : OnChain(s, c) /\ Len(s.coin) = Len(SpendsOf(c)) => s = StateOn(c)
  <2>1. ASSUME NEW s \in State, OnChain(s, c), Len(s.coin) = Len(SpendsOf(c))
        PROVE  s = StateOn(c)
    <3>1. Len(s.coin) <= Len(StateOn(c).coin) /\ Len(s.coin) = Len(StateOn(c).coin)
      BY <1>5, <1>8, <2>1
    <3> QED BY <1>5, <1>9, <2>1, <3>1, Placed
  <2> QED BY <2>1
<1> QED BY <1>5, <1>9, <1>10

-----------------------------------------------------------------------------
\* on_block.

Spender(st, c, h) ==
    {i \in DOMAIN c[h].spends :
        st.cur.coin = SpendsOf(SubSeq(c, 1, h - 1)) \o SubSeq(c[h].spends, 1, i - 1)}

\* What the chain holds up to the i-th spend of block h.
LEMMA SpentWithin ==
    ASSUME NEW c \in Seq(Blocks), NEW h \in 1 .. Len(c), NEW i \in 1 .. Len(c[h].spends)
    PROVE  /\ Count(c, h - 1) + i <= Count(c, h)
           /\ Spent(c, h - 1) \o SubSeq(c[h].spends, 1, i - 1)
                = SubSeq(SpendsOf(c), 1, Count(c, h - 1) + i - 1)
           /\ c[h].spends[i] = SpendsOf(c)[Count(c, h - 1) + i]
<1> DEFINE g == h - 1
           b == Spent(c, g)
           s == c[h].spends
           t == SpendsOf(c)
           n == Len(b)
           p == SubSeq(s, 1, i - 1)
<1>1. Len(c) \in Nat /\ g \in 0 .. Len(c) /\ h \in 0 .. Len(c) /\ s \in Seq(Spends)
  BY BlockType
<1>2. b \in Seq(Spends) /\ n \in Nat /\ Count(c, g) = n /\ Spent(c, h) = b \o s
  <2>1. b \in Seq(Spends)
    BY <1>1, SpentStep
  <2>2. Spent(c, h) = b \o s
    BY SpentStep
  <2> QED BY <2>1, <2>2, LenProperties DEF Count
<1>3. Count(c, h) = n + Len(s) /\ Len(s) \in Nat
  <2>1. Count(c, h) = Count(c, h - 1) + Len(c[h].spends)
    BY SpentStep
  <2> QED BY <1>1, <1>2, <2>1, LenProperties
<1>4. /\ \A j \in 1 .. n : (b \o s)[j] = b[j]
      /\ \A j \in 1 .. Len(s) : (b \o s)[n + j] = s[j]
      /\ b \o s \in Seq(Spends) /\ Len(b \o s) = n + Len(s)
  <2> HIDE DEF b, s
  <2>1. n \in Nat /\ Len(s) \in Nat
    BY <1>2, <1>3
  <2>2. /\ b \o s \in Seq(Spends) /\ Len(b \o s) = n + Len(s)
        /\ \A j \in 1 .. Len(b) + Len(s) : (b \o s)[j] = IF j <= Len(b) THEN b[j] ELSE s[j - Len(b)]
    BY <1>1, <1>2, ConcatProperties
  <2>3. ASSUME NEW j \in 1 .. n PROVE (b \o s)[j] = b[j]
    BY <2>1, <2>2, <2>3
  <2>4. ASSUME NEW j \in 1 .. Len(s) PROVE (b \o s)[n + j] = s[j]
    <3>1. n + j \in 1 .. Len(b) + Len(s) /\ ~ (n + j <= Len(b)) /\ n + j - Len(b) = j
      BY <2>1
    <3> QED BY <2>2, <3>1
  <2> QED BY <2>2, <2>3, <2>4
<1>5. t \in Seq(Spends) /\ Len(t) \in Nat /\ n + Len(s) <= Len(t)
      /\ \A j \in 1 .. n + Len(s) : (b \o s)[j] = t[j] /\ t[j] \in Spends
  <2> DEFINE L == n + Len(s)
  <2>1. L \in Nat /\ L <= Count(c, h)
    <3> HIDE DEF b, s
    <3>1. n \in Nat /\ Len(s) \in Nat /\ Count(c, h) = n + Len(s)
      BY <1>2, <1>3
    <3> HIDE DEF n
    <3> QED BY <3>1
  <2> HIDE DEF L
  <2>2. L <= Len(SpendsOf(c)) /\ SubSeq(Spent(c, h), 1, L) = SubSeq(SpendsOf(c), 1, L)
    BY <1>1, <2>1, SpentShort
  <2>3. t \in Seq(Spends)
    <3>1. Len(c) \in 0 .. Len(c)
      BY <1>1
    <3>2. Spent(c, Len(c)) \in Seq(Spends) /\ Spent(c, Len(c)) = SpendsOf(c)
      BY <3>1, SpentStep
    <3> QED BY <3>2
  <2> DEFINE u == b \o s
  <2>4. u \in Seq(Spends) /\ Len(u) = L /\ SubSeq(u, 1, L) = SubSeq(t, 1, L) /\ L <= Len(t)
    BY <1>2, <1>4, <2>2 DEF L
  <2> HIDE DEF u, t
  <2>5. \A j \in 1 .. L : u[j] \in Spends /\ t[j] \in Spends
    <3>1. Len(t) \in Nat
      BY <2>3
    <3> QED BY <2>1, <2>3, <2>4, <3>1
  <2>6. \A j \in 1 .. L : SubSeq(u, 1, L)[j] = u[j]
    BY <2>1, <2>5, SubSeqProperties
  <2>7. \A j \in 1 .. L : SubSeq(t, 1, L)[j] = t[j]
    BY <2>1, <2>5, SubSeqProperties
  <2>8. \A j \in 1 .. L : u[j] = t[j] /\ t[j] \in Spends
    BY <2>4, <2>5, <2>6, <2>7
  <2>9. Len(t) \in Nat
    BY <2>3
  <2> QED BY <2>3, <2>4, <2>8, <2>9 DEF u, L
<1> HIDE DEF b, s, t
<1>6. i \in Nat /\ i >= 1 /\ i <= Len(s) /\ n + i \in 1 .. n + Len(s)
  BY <1>2, <1>3 DEF s
<1>7. s[i] = t[n + i]
  <2>1. (b \o s)[n + i] = s[i] /\ (b \o s)[n + i] = t[n + i]
    BY <1>4, <1>5, <1>6
  <2> QED BY <2>1
<1>8. p \in Seq(Spends) /\ Len(p) = i - 1 /\ \A j \in 1 .. i - 1 : p[j] = s[j]
  <2>1. \A j \in 1 .. i - 1 : s[j] \in Spends
    BY <1>1, <1>3, <1>6
  <2> QED BY <1>6, <2>1, SubSeqProperties
<1> HIDE DEF p
<1> DEFINE k == n + i - 1
           x == b \o p
           y == SubSeq(t, 1, k)
<1>9. k \in Nat /\ k = n + (i - 1) /\ k <= n + Len(s)
  BY <1>2, <1>3, <1>6
<1>10. x \in Seq(Spends) /\ Len(x) = k
       /\ \A j \in 1 .. k : x[j] = IF j <= n THEN b[j] ELSE p[j - n]
  <2>1. /\ x \in Seq(Spends) /\ Len(x) = Len(b) + Len(p)
        /\ \A j \in 1 .. Len(b) + Len(p) : x[j] = IF j <= Len(b) THEN b[j] ELSE p[j - Len(b)]
    <3>1. b \in Seq(Spends) /\ p \in Seq(Spends)
      BY <1>2, <1>8
    <3> QED BY ONLY <3>1, ConcatProperties
  <2>2. Len(b) + Len(p) = k
    BY <1>8, <1>9
  <2> HIDE DEF k
  <2> QED BY <2>1, <2>2
<1>11. y \in Seq(Spends) /\ Len(y) = k /\ \A j \in 1 .. k : y[j] = t[j]
  <2>1. \A j \in 1 .. k : j \in 1 .. n + Len(s)
    BY <1>2, <1>3, <1>9
  <2>2. \A j \in 1 .. k : t[j] \in Spends
    BY <1>5, <2>1
  <2> HIDE DEF k
  <2> QED BY <1>9, <2>2, SubSeqProperties
<1>12. \A j \in 1 .. k : x[j] = t[j]
  <2> SUFFICES ASSUME NEW j \in 1 .. k PROVE x[j] = t[j]
    OBVIOUS
  <2>1. j \in 1 .. n + Len(s)
    BY <1>2, <1>3, <1>9
  <2>2. (b \o s)[j] = t[j]
    BY <1>5, <2>1
  <2>3. CASE j <= n
    <3>1. j \in 1 .. n
      BY <1>2, <1>9, <2>3
    <3> QED BY <1>4, <1>10, <2>2, <2>3, <3>1
  <2>4. CASE ~ (j <= n)
    <3> DEFINE l == j - n
    <3>1. l \in 1 .. i - 1 /\ l \in 1 .. Len(s) /\ n + l = j
      BY <1>2, <1>3, <1>6, <1>9, <2>4
    <3>2. (b \o s)[n + l] = s[l] /\ p[l] = s[l]
      <4> HIDE DEF l
      <4> QED BY <1>4, <1>8, <3>1
    <3> QED BY <1>10, <2>2, <2>4, <3>1, <3>2
  <2> QED BY <2>3, <2>4
<1>13. x = y
  <2> HIDE DEF x, y
  <2>1. \A j \in 1 .. k : x[j] = y[j]
    BY <1>11, <1>12
  <2>2. Len(x) = Len(y) /\ \A j \in 1 .. Len(x) : x[j] = y[j]
    BY <1>10, <1>11, <2>1
  <2> QED BY <1>10, <1>11, <2>2, SeqEqual
<1>14. n + i <= Count(c, h)
  BY <1>2, <1>3, <1>6
<1>15. /\ Spent(c, h - 1) = b /\ Count(c, h - 1) = n /\ c[h].spends = s /\ SpendsOf(c) = t
  BY <1>2 DEF b, s, t
<1> QED BY <1>7, <1>13, <1>14, <1>15 DEF p

-----------------------------------------------------------------------------
\* Entries kept of a sequence.

Kept(k, q, I) ==
    k = [i \in 0 .. Len(q) |->
            IF i = 0 THEN <<>> ELSE IF i \in I THEN Append(k[i - 1], q[i]) ELSE k[i - 1]]

\* f holds what is kept of the first parts of q.
KeptUpTo(f, q, I, n, X) ==
    /\ f \in [0 .. n -> Seq(X)] /\ f[0] = <<>>
    /\ \A i \in 1 .. n : f[i] = IF i \in I THEN Append(f[i - 1], q[i]) ELSE f[i - 1]

\* There is a function of the kept entries of each first part.
LEMMA KeepParts ==
    ASSUME NEW X, NEW n \in Nat, NEW q, NEW I, \A i \in 1 .. n : q[i] \in X
    PROVE  \E f : KeptUpTo(f, q, I, n, X)
<1> DEFINE S == Seq(X)
           G == [i \in 1 .. n |-> [x \in S |-> IF i \in I THEN Append(x, q[i]) ELSE x]]
<1>1. ASSUME NEW i \in 1 .. n, NEW x \in S PROVE (IF i \in I THEN Append(x, q[i]) ELSE x) \in S
  BY AppendProperties
<1>2. Steps(G, n, S)
  BY <1>1 DEF Steps
<1>3. \E b : b \in S /\ b = <<>>
  <2>1. <<>> \in S
    OBVIOUS
  <2> QED BY <2>1
<1>4. PICK b : b \in S /\ b = <<>>
  BY <1>3
<1>f. PICK f : Iterates(f, G, b, n, S)
  <2>1. b \in S
    BY <1>4
  <2> HIDE DEF S, G
  <2> QED BY <1>2, <2>1, Recursion
<1>5. f \in [0 .. n -> S] /\ f[0] = b /\ \A i \in 1 .. n : f[i] = G[i][f[i - 1]]
  BY <1>f DEF Iterates
<1>6. ASSUME NEW i \in 1 .. n PROVE f[i] = IF i \in I THEN Append(f[i - 1], q[i]) ELSE f[i - 1]
  <2>1. f[i - 1] \in S
    BY <1>5
  <2> QED BY <1>5, <2>1
<1>7. f[0] = <<>>
  BY <1>4, <1>5
<1> QED BY <1>5, <1>6, <1>7 DEF KeptUpTo

KeptTo(k, q, I, X) ==
    /\ Keep(q, I) = k[Len(q)] /\ k[0] = <<>>
    /\ \A i \in 0 .. Len(q) : k[i] \in Seq(X)
    /\ \A i \in 1 .. Len(q) : k[i] = IF i \in I THEN Append(k[i - 1], q[i]) ELSE k[i - 1]

\* Keep goes through the sequence entry by entry.
LEMMA KeepSteps ==
    ASSUME NEW X, NEW q \in Seq(X), NEW I
    PROVE  \E k : KeptTo(k, q, I, X)
<1> DEFINE n == Len(q)
           S == Seq(X)
<1>1. n \in Nat /\ \A i \in 1 .. n : q[i] \in X
  OBVIOUS
<1>2. PICK f : KeptUpTo(f, q, I, n, X)
  <2> HIDE DEF n
  <2> QED BY <1>1, KeepParts
<1>4. f \in [0 .. n -> S] /\ f[0] = <<>>
  BY <1>2 DEF KeptUpTo
<1>5. \A i \in 1 .. n : f[i] = IF i \in I THEN Append(f[i - 1], q[i]) ELSE f[i - 1]
  BY <1>2 DEF KeptUpTo
<1>6. \A i \in 0 .. n : f[i] = IF i = 0 THEN <<>> ELSE IF i \in I THEN Append(f[i - 1], q[i]) ELSE f[i - 1]
  <2>1. \A i \in 0 .. n : i # 0 => i \in 1 .. n
    BY <1>1
  <2> HIDE DEF S, n
  <2> QED BY <1>4, <1>5, <2>1
<1>7. \E k : Kept(k, q, I)
  <2>1. f = [i \in 0 .. n |-> f[i]]
    BY <1>4
  <2>2. Kept(f, q, I)
    <3> HIDE DEF S
    <3> QED BY <1>6, <2>1 DEF Kept
  <2> QED BY <2>2
<1> DEFINE k == CHOOSE kk : Kept(kk, q, I)
<1>8. Kept(k, q, I)
  BY <1>7
<1>9. Keep(q, I) = k[n]
  BY DEF Keep, Kept
<1> HIDE DEF k
<1>10. k[0] = <<>> /\ \A i \in 1 .. n : k[i] = IF i \in I THEN Append(k[i - 1], q[i]) ELSE k[i - 1]
  <2>1. \A i \in 0 .. n : k[i] = IF i = 0 THEN <<>> ELSE IF i \in I THEN Append(k[i - 1], q[i]) ELSE k[i - 1]
    BY <1>8, Zenon DEF Kept
  <2>2. 0 \in 0 .. n /\ \A i \in 1 .. n : i \in 0 .. n /\ i # 0
    BY <1>1
  <2> HIDE DEF S, n
  <2> QED BY <2>1, <2>2
<1>11. \A i \in 0 .. n : k[i] \in S
  <2> DEFINE T == {i \in Nat : i <= n => k[i] = f[i]}
  <2> HIDE DEF n, S
  <2>1. 0 \in T
    BY <1>4, <1>10
  <2>2. ASSUME NEW i \in Nat, i \in T PROVE i + 1 \in T
    <3> SUFFICES ASSUME i + 1 <= n PROVE k[i + 1] = f[i + 1]
      OBVIOUS
    <3>1. k[i] = f[i] /\ i + 1 \in 1 .. n /\ i + 1 - 1 = i
      BY <1>1, <2>2
    <3> QED BY <1>5, <1>10, <3>1
  <2>3. Nat \subseteq T
    <3> HIDE DEF T
    <3> QED BY <2>1, <2>2, AllNat
  <2> QED BY <1>1, <1>4, <2>3
<1> QED BY <1>9, <1>10, <1>11 DEF KeptTo

\* If the kept indices are an interval, Keep is that part of the sequence.
LEMMA KeepRange ==
    ASSUME NEW X, NEW q \in Seq(X), NEW I, NEW a \in Nat, NEW b \in Nat,
           a <= b, b <= Len(q), \A i \in 1 .. Len(q) : i \in I <=> a < i /\ i <= b
    PROVE  Keep(q, I) = SubSeq(q, a + 1, b)
<1>0. PICK k : KeptTo(k, q, I, X)
  BY KeepSteps
<1>1. /\ Keep(q, I) = k[Len(q)] /\ k[0] = <<>>
      /\ \A i \in 0 .. Len(q) : k[i] \in Seq(X)
      /\ \A i \in 1 .. Len(q) : k[i] = IF i \in I THEN Append(k[i - 1], q[i]) ELSE k[i - 1]
  BY <1>0 DEF KeptTo
<1> DEFINE n == Len(q)
           End(i) == IF i <= b THEN i ELSE b
           T == {i \in Nat : i <= n => k[i] = SubSeq(q, a + 1, End(i))}
<1>2. n \in Nat /\ \A i \in 1 .. n : q[i] \in X
  OBVIOUS
<1>3. 0 \in T
  <2>1. SubSeq(q, a + 1, 0) = <<>>
    BY SubSeqEmpty
  <2>2. End(0) = 0
    OBVIOUS
  <2> HIDE DEF End
  <2> QED BY <1>1, <2>1, <2>2
<1>4. ASSUME NEW i \in Nat, i \in T PROVE i + 1 \in T
  <2> SUFFICES ASSUME i + 1 <= n PROVE k[i + 1] = SubSeq(q, a + 1, End(i + 1))
    OBVIOUS
  <2> DEFINE j == i + 1
  <2>1. j \in 1 .. n /\ j - 1 = i /\ i <= n /\ j \in Nat
    BY <1>2
  <2>2. k[j] = IF j \in I THEN Append(k[j - 1], q[j]) ELSE k[j - 1]
    BY <1>1, <2>1
  <2>3. k[j - 1] = SubSeq(q, a + 1, End(j - 1))
    BY <1>4, <2>1
  <2>4. i + 1 = j
    OBVIOUS
  <2> HIDE DEF j
  <2>5. CASE a < j /\ j <= b
    <3>1. j \in I /\ End(j) = j /\ End(j - 1) = j - 1
      BY <2>1, <2>5
    <3>2. a + 1 \in 1 .. Len(q) /\ j \in a + 1 .. Len(q)
      BY <1>2, <2>1, <2>5
    <3>3. SubSeq(q, a + 1, j) = SubSeq(q, a + 1, j - 1) \o <<q[j]>>
      BY <3>2, SubSeqRecursiveSecond
    <3>4. SubSeq(q, a + 1, j - 1) \in Seq(X) /\ q[j] \in X
      <4>1. \A l \in a + 1 .. j - 1 : q[l] \in X
        BY <1>2, <2>1
      <4>2. a + 1 \in Int /\ j - 1 \in Int
        BY <2>1
      <4> QED BY <1>2, <2>1, <4>1, <4>2, SubSeqProperties
    <3>5. Append(SubSeq(q, a + 1, j - 1), q[j]) = SubSeq(q, a + 1, j - 1) \o <<q[j]>>
      BY <3>4, AppendIsConcat
    <3> HIDE DEF End
    <3> QED BY <2>2, <2>3, <2>4, <3>1, <3>3, <3>5
  <2>6. CASE ~ (a < j)
    <3>1. j \notin I /\ End(j) = j /\ End(j - 1) = j - 1
      BY <2>1, <2>6
    <3>2. j < a + 1 /\ j - 1 < a + 1 /\ a + 1 \in Int /\ j \in Int /\ j - 1 \in Int
      BY <2>1, <2>6
    <3>3. SubSeq(q, a + 1, j) = <<>> /\ SubSeq(q, a + 1, j - 1) = <<>>
      BY <3>2, SubSeqEmpty
    <3> HIDE DEF End
    <3> QED BY <2>2, <2>3, <2>4, <3>1, <3>3
  <2>7. CASE ~ (j <= b)
    <3>1. j \notin I /\ End(j) = b /\ End(j - 1) = b
      BY <2>1, <2>7
    <3> HIDE DEF End
    <3> QED BY <2>2, <2>3, <2>4, <3>1
  <2> QED BY <2>5, <2>6, <2>7
<1>5. n \in T
  <2> HIDE DEF T, n
  <2> QED BY <1>2, <1>3, <1>4, AllNat
<1>6. End(n) = b
  BY <1>2
<1> HIDE DEF End
<1> QED BY <1>1, <1>2, <1>5, <1>6

-----------------------------------------------------------------------------
\* Sequences in order of height.

Sorted(q) == \A i, j \in DOMAIN q : i <= j => q[i].height <= q[j].height

\* The first k entries of q are the ones below a height.
Split(q, k, from) ==
    /\ \A i \in 1 .. k : q[i].height < from
    /\ \A i \in k + 1 .. Len(q) : q[i].height >= from

\* A sequence ordered by height splits at any height ...
LEMMA SplitAt ==
    ASSUME NEW X, \A x \in X : x.height \in Nat, NEW q \in Seq(X), Sorted(q), NEW from \in Int
    PROVE  \E k \in 0 .. Len(q) : Split(q, k, from)
<1>1. Len(q) \in Nat /\ DOMAIN q = 1 .. Len(q) /\ \A i \in 1 .. Len(q) : q[i].height \in Nat
  OBVIOUS
<1> DEFINE T == {i \in 0 .. Len(q) : i # 0 => q[i].height < from}
<1>2. PICK k \in T : \A i \in T : i <= k
  <2>1. 0 \in T /\ T \subseteq 0 .. Len(q)
    BY <1>1
  <2> HIDE DEF T
  <2> QED BY <1>1, <2>1, GreatestNat
<1>3. k \in 0 .. Len(q)
  OBVIOUS
<1>4. ASSUME NEW i \in 1 .. k PROVE q[i].height < from
  <2>1. q[k].height < from /\ k \in DOMAIN q /\ i \in DOMAIN q /\ i <= k
    BY <1>1, <1>3
  <2>2. q[i].height <= q[k].height
    BY <2>1 DEF Sorted
  <2> QED BY <1>1, <2>1, <2>2
<1>5. ASSUME NEW i \in k + 1 .. Len(q) PROVE q[i].height >= from
  <2>1. i \in 1 .. Len(q) /\ i \notin T
    BY <1>1, <1>2, <1>3
  <2>2. ~ (q[i].height < from)
    BY <1>1, <2>1
  <2> QED BY <1>1, <2>1, <2>2
<1> QED BY <1>3, <1>4, <1>5 DEF Split

\* ... and what is below that height is the first part.
LEMMA BelowIs ==
    ASSUME NEW X, \A x \in X : x.height \in Nat, NEW q \in Seq(X), NEW from \in Int,
           NEW k \in 0 .. Len(q), Split(q, k, from)
    PROVE  Below(q, from) = SubSeq(q, 1, k)
<1>1. Len(q) \in Nat /\ DOMAIN q = 1 .. Len(q) /\ \A i \in 1 .. Len(q) : q[i].height \in Nat
  OBVIOUS
<1> DEFINE I == {i \in DOMAIN q : q[i].height < from}
<1>2. ASSUME NEW i \in 1 .. Len(q) PROVE i \in I <=> 0 < i /\ i <= k
  <2>1. CASE i <= k
    <3>1. i \in 1 .. k
      BY <2>1
    <3> QED BY <1>1, <2>1, <3>1 DEF Split
  <2>2. CASE ~ (i <= k)
    <3>1. i \in k + 1 .. Len(q)
      BY <1>1, <2>2
    <3>2. ~ (q[i].height < from)
      BY <1>1, <3>1 DEF Split
    <3> QED BY <1>1, <2>2, <3>2
  <2> QED BY <2>1, <2>2
<1>3. Below(q, from) = Keep(q, I)
  BY DEF Below
<1> HIDE DEF I
<1>4. 0 \in Nat /\ k \in Nat /\ 0 <= k /\ k <= Len(q)
  BY <1>1
<1>5. Keep(q, I) = SubSeq(q, 0 + 1, k)
  BY <1>2, <1>4, KeepRange
<1> QED BY <1>3, <1>5

\* Pruning drops states from the front, and only with an older one left.
LEMMA PruneIs ==
    ASSUME NEW q \in Seq(State), Sorted(q), NEW peak \in Int
    PROVE  \E k \in 0 .. Len(q) :
              /\ Prune(q, peak) = SubSeq(q, k + 1, Len(q))
              /\ k > 0 => k + 1 <= Len(q) /\ q[k + 1].height < peak - Window
<1>1. Len(q) \in Nat /\ DOMAIN q = 1 .. Len(q) /\ \A i \in 1 .. Len(q) : q[i].height \in Nat
  <2>1. Len(q) \in Nat /\ DOMAIN q = 1 .. Len(q) /\ \A i \in 1 .. Len(q) : q[i] \in State
    OBVIOUS
  <2>2. \A x \in State : x.height \in Nat
    BY DEF State
  <2> QED BY <2>1, <2>2
<1>2. Window \in Nat
  BY FollowAssumption
<1>3. PICK m \in 0 .. Len(q) : Split(q, m, peak - Window)
  <2> DEFINE from == peak - Window
  <2>1. from \in Int /\ \A x \in State : x.height \in Nat
    BY <1>2 DEF State
  <2> HIDE DEF from
  <2>2. \E m \in 0 .. Len(q) : Split(q, m, from)
    BY <2>1, SplitAt
  <2> QED BY <2>2 DEF from
<1>4. m \in Nat /\ m <= Len(q)
  BY <1>1
<1> DEFINE old == {i \in DOMAIN q : q[i].height < peak - Window}
<1>5. old = 1 .. m
  <2>1. \A i \in 1 .. Len(q) : q[i].height < peak - Window <=> i <= m
    <3> SUFFICES ASSUME NEW i \in 1 .. Len(q)
                 PROVE  q[i].height < peak - Window <=> i <= m
      OBVIOUS
    <3>1. CASE i <= m
      <4>1. i \in 1 .. m
        BY <1>4, <3>1
      <4> QED BY <1>3, <3>1, <4>1 DEF Split
    <3>2. CASE ~ (i <= m)
      <4>1. i \in m + 1 .. Len(q)
        BY <1>1, <1>4, <3>2
      <4> QED BY <1>1, <1>2, <1>3, <3>2, <4>1 DEF Split
    <3> QED BY <3>1, <3>2
  <2> QED BY <1>1, <1>4, <2>1
<1>6. Keep(q, DOMAIN q \ old) = SubSeq(q, m + 1, Len(q))
  <2>1. \A i \in 1 .. Len(q) : i \in (DOMAIN q \ old) <=> m < i /\ i <= Len(q)
    BY <1>1, <1>4, <1>5
  <2> DEFINE I == DOMAIN q \ old
             n == Len(q)
  <2>2. n \in Nat /\ m <= n /\ n <= Len(q)
    BY <1>1, <1>4
  <2>3. \A i \in 1 .. Len(q) : i \in I <=> m < i /\ i <= n
    BY <2>1
  <2> HIDE DEF I, n
  <2>4. Keep(q, I) = SubSeq(q, m + 1, n)
    BY <1>4, <2>2, <2>3, KeepRange
  <2> QED BY <2>4 DEF I, n
<1>7. Prune(q, peak) = (IF old = {} THEN <<>> ELSE <<q[Max(old)]>>) \o Keep(q, DOMAIN q \ old)
  BY DEF Prune
<1>8. SubSeq(q, m + 1, Len(q)) \in Seq(State)
  <2>1. \A i \in m + 1 .. Len(q) : q[i] \in State
    BY <1>1, <1>4
  <2>2. m + 1 \in Int /\ Len(q) \in Int
    BY <1>1, <1>4
  <2> QED BY <2>1, <2>2, SubSeqProperties
<1>9. CASE m = 0
  <2>1. old = {}
    BY <1>5, <1>9
  <2>2. <<>> \o SubSeq(q, m + 1, Len(q)) = SubSeq(q, m + 1, Len(q))
    BY <1>8, ConcatEmptySeq
  <2> HIDE DEF old
  <2>3. Prune(q, peak) = SubSeq(q, m + 1, Len(q))
    BY <1>6, <1>7, <2>1, <2>2
  <2> QED BY <1>9, <2>3
<1>10. CASE m # 0
  <2>1. old # {} /\ old \subseteq 0 .. m /\ m \in old
    BY <1>4, <1>5, <1>10
  <2>2. Max(old) = m
    <3>1. Max(old) \in old /\ \A n \in old : n <= Max(old)
      <4> HIDE DEF old
      <4> QED BY <1>4, <2>1, MaxIs
    <3> HIDE DEF old
    <3> QED BY <1>4, <1>5, <2>1, <3>1
  <2> HIDE DEF old
  <2>3. Prune(q, peak) = <<q[m]>> \o SubSeq(q, m + 1, Len(q))
    BY <1>6, <1>7, <2>1, <2>2
  <2>4. SubSeq(q, m, Len(q)) = <<q[m]>> \o SubSeq(q, m + 1, Len(q))
    <3>1. m \in 1 .. Len(q) /\ Len(q) \in m .. Len(q)
      BY <1>1, <1>4, <1>10
    <3> QED BY <3>1, SubSeqRecursiveFirst
  <2> DEFINE k == m - 1
  <2>5. k \in 0 .. Len(q) /\ k + 1 = m /\ k + 1 <= Len(q)
    BY <1>1, <1>4, <1>10
  <2>6. q[m].height < peak - Window
    <3>1. m \in 1 .. m
      BY <1>4, <1>10
    <3> QED BY <1>3, <3>1 DEF Split
  <2> HIDE DEF k
  <2> QED BY <2>3, <2>4, <2>5, <2>6
<1> QED BY <1>9, <1>10

\* Which spend of a block is the one of a coin on the chain.
LEMMA SpenderIs ==
    ASSUME NEW c \in Seq(Blocks), NEW h \in 1 .. Len(c), NEW st,
           st.cur \in State, OnChain(st.cur, c)
    PROVE  /\ Spender(st, c, h) \subseteq 1 .. Len(c[h].spends)
           /\ \A i \in 1 .. Len(c[h].spends) :
                 i \in Spender(st, c, h) <=> Len(st.cur.coin) = Count(c, h - 1) + i - 1
<1> DEFINE n == Len(st.cur.coin)
<1>1. DOMAIN c[h].spends = 1 .. Len(c[h].spends) /\ Len(c[h].spends) \in Nat /\ Len(c) \in Nat
  <2>1. c[h].spends \in Seq(Spends) /\ Len(c) \in Nat
    BY BlockType
  <2> QED BY <2>1, LenProperties
<1>2. n \in Nat /\ st.cur.coin = SubSeq(SpendsOf(c), 1, n)
  BY OnChainIs
<1>3. ASSUME NEW i \in 1 .. Len(c[h].spends)
      PROVE  i \in Spender(st, c, h) <=> n = Count(c, h - 1) + i - 1
  <2> DEFINE k == Count(c, h - 1) + i - 1
  <2>1. /\ Count(c, h - 1) + i <= Count(c, h)
        /\ Spent(c, h - 1) \o SubSeq(c[h].spends, 1, i - 1) = SubSeq(SpendsOf(c), 1, k)
    BY SpentWithin
  <2>2. Count(c, h - 1) \in Nat /\ Count(c, h) \in Nat /\ h \in 0 .. Len(c)
    <3>1. h - 1 \in 0 .. Len(c) /\ h \in 0 .. Len(c)
      BY <1>1
    <3> QED BY <3>1, SpentStep
  <2>3. k \in Nat /\ k <= Count(c, h)
    BY <2>1, <2>2
  <2>4. i \in Spender(st, c, h) <=> st.cur.coin = SubSeq(SpendsOf(c), 1, k)
    <3> HIDE DEF k
    <3> QED BY <1>1, <2>1 DEF Spender, Spent
  <2> HIDE DEF k
  <2>5. Len(SubSeq(SpendsOf(c), 1, k)) = k
    BY <2>2, <2>3, SpentShort
  <2>6. st.cur.coin = SubSeq(SpendsOf(c), 1, k) <=> n = k
    BY <1>2, <2>5
  <2> QED BY <2>4, <2>6 DEF k
<1>4. Spender(st, c, h) \subseteq 1 .. Len(c[h].spends)
  BY <1>1 DEF Spender
<1> QED BY <1>3, <1>4

LEMMA OnBlockDef ==
    ASSUME NEW c, NEW h, NEW st
    PROVE  OnBlock(st, c, h) =
              IF st.cur = NoState \/ Melted(st.cur.coin) \/ Spender(st, c, h) = {} THEN st
              ELSE [cur  |-> [coin |-> Append(st.cur.coin, c[h].spends[Min(Spender(st, c, h))]), height |-> h],
                    hist |-> Prune(Append(st.hist, st.cur), h)]
BY DEF OnBlock, Spender

\* A block that does not spend the coin changes nothing.
LEMMA OnBlockStays ==
    ASSUME NEW c \in Seq(Blocks), NEW h \in 1 .. Len(c), NEW st,
           st.cur \in State, OnChain(st.cur, c),
           Len(st.cur.coin) < Count(c, h - 1) \/ Len(st.cur.coin) >= Count(c, h)
    PROVE  OnBlock(st, c, h) = st
<1>1. Count(c, h - 1) \in Nat /\ Count(c, h) = Count(c, h - 1) + Len(c[h].spends)
      /\ Len(c[h].spends) \in Nat
  <2>1. h - 1 \in 0 .. Len(c) /\ c[h].spends \in Seq(Spends)
    BY BlockType
  <2> QED BY <2>1, SpentStep, LenProperties
<1>2. Len(st.cur.coin) \in Nat
  BY OnChainIs
<1>3. Spender(st, c, h) = {}
  <2> SUFFICES ASSUME NEW i \in Spender(st, c, h) PROVE FALSE
    OBVIOUS
  <2>1. i \in 1 .. Len(c[h].spends)
    BY SpenderIs
  <2>2. Len(st.cur.coin) = Count(c, h - 1) + i - 1
    BY <2>1, SpenderIs
  <2> QED BY <1>1, <1>2, <2>1, <2>2
<1> QED BY <1>3, OnBlockDef

\* A block that spends it moves the state on to the next coin of the chain.
LEMMA OnBlockSpends ==
    ASSUME NEW c \in Seq(Blocks), Legal(c), NEW h \in 1 .. Len(c), NEW st,
           st.cur \in State, OnChain(st.cur, c),
           Count(c, h - 1) <= Len(st.cur.coin), Len(st.cur.coin) < Count(c, h)
    PROVE  \E s \in State :
              /\ OnBlock(st, c, h) = [cur |-> s, hist |-> Prune(Append(st.hist, st.cur), h)]
              /\ OnChain(s, c) /\ Len(s.coin) = Len(st.cur.coin) + 1 /\ s.height = h
<1> DEFINE n == Len(st.cur.coin)
           t == SpendsOf(c)
           s == [coin |-> SubSeq(t, 1, n + 1), height |-> h]
<1>1. /\ Count(c, h - 1) \in Nat /\ Count(c, h) = Count(c, h - 1) + Len(c[h].spends)
      /\ Len(c[h].spends) \in Nat /\ h \in 0 .. Len(c) /\ h \in Nat /\ Len(c) \in Nat
      /\ Count(c, h) \in Nat
  <2>1. h - 1 \in 0 .. Len(c) /\ c[h].spends \in Seq(Spends) /\ h \in 0 .. Len(c) /\ Len(c) \in Nat
    BY BlockType
  <2>2. Count(c, h - 1) \in Nat /\ Count(c, h) \in Nat /\ Count(c, h) = Count(c, h - 1) + Len(c[h].spends)
    BY <2>1, SpentStep
  <2>3. Len(c[h].spends) \in Nat
    BY <2>1, LenProperties
  <2> QED BY <2>1, <2>2, <2>3
<1>0. Count(c, h - 1) <= n /\ n < Count(c, h)
  OBVIOUS
<1>2. n \in Nat /\ st.cur.coin = SubSeq(t, 1, n)
  BY OnChainIs
<1>3. /\ n + 1 <= Len(t) /\ SubSeq(t, 1, n + 1) \in Coin /\ Len(SubSeq(t, 1, n + 1)) = n + 1
      /\ Len(SubSeq(t, 1, n)) = n /\ t \in Seq(Spends) /\ Len(t) \in Nat
  <2> HIDE DEF n, t
  <2>1. n + 1 \in Nat /\ n + 1 <= Count(c, h) /\ n <= Count(c, h)
    BY <1>0, <1>1, <1>2
  <2>2. /\ n + 1 <= Len(SpendsOf(c)) /\ SubSeq(SpendsOf(c), 1, n + 1) \in Coin
        /\ Len(SubSeq(SpendsOf(c), 1, n + 1)) = n + 1
    BY <1>1, <2>1, SpentShort
  <2>3. Len(SubSeq(SpendsOf(c), 1, n)) = n
    BY <1>1, <1>2, <2>1, SpentShort
  <2>4. Len(c) \in 0 .. Len(c)
    BY <1>1
  <2>5. SpendsOf(c) \in Seq(Spends)
    BY <2>4, SpentStep
  <2> QED BY <2>2, <2>3, <2>5, LenProperties DEF t
<1> DEFINE i == n - Count(c, h - 1) + 1
<1>4. i \in 1 .. Len(c[h].spends) /\ n = Count(c, h - 1) + i - 1 /\ Count(c, h - 1) + i = n + 1
  <2> HIDE DEF n, t
  <2> QED BY <1>0, <1>1, <1>2
<1> HIDE DEF i
<1>5. Spender(st, c, h) = {i}
  <2>1. Spender(st, c, h) \subseteq 1 .. Len(c[h].spends)
    BY SpenderIs
  <2>2. \A j \in 1 .. Len(c[h].spends) : j \in Spender(st, c, h) <=> n = Count(c, h - 1) + j - 1
    BY SpenderIs
  <2>3. ASSUME NEW j \in 1 .. Len(c[h].spends) PROVE j \in Spender(st, c, h) <=> j = i
    <3> HIDE DEF n, t
    <3>1. j \in Nat /\ i \in Nat /\ Count(c, h - 1) \in Nat
      BY <1>1, <1>4
    <3>2. \A k, x, y \in Nat : k + x - 1 = k + y - 1 <=> x = y
      OBVIOUS
    <3>3. Count(c, h - 1) + i - 1 = Count(c, h - 1) + j - 1 <=> i = j
      BY ONLY <3>1, <3>2, Zenon
    <3> QED BY <1>4, <2>2, <3>3, Zenon
  <2> QED BY <1>4, <2>1, <2>3
<1>6. Min(Spender(st, c, h)) = i /\ Spender(st, c, h) # {}
  <2>1. {i} \subseteq Nat /\ {i} # {}
    BY <1>1, <1>4
  <2>2. Min({i}) \in {i}
    BY <2>1, MinIs
  <2> QED BY <1>5, <2>2
<1>7. c[h].spends[i] = t[n + 1]
  <2>1. c[h].spends[i] = SpendsOf(c)[Count(c, h - 1) + i]
    BY <1>4, SpentWithin
  <2> QED BY <1>4, <2>1
<1>8. Append(st.cur.coin, t[n + 1]) = SubSeq(t, 1, n + 1)
  <2> HIDE DEF t, n
  <2>1. n + 1 \in 1 .. Len(t) /\ 1 \in 1 .. Len(t) /\ n + 1 - 1 = n
    BY <1>2, <1>3
  <2> DEFINE k == n + 1
  <2>2. k \in 1 .. Len(t)
    BY <2>1
  <2> HIDE DEF k
  <2>3. SubSeq(t, 1, k) = SubSeq(t, 1, k - 1) \o <<t[k]>>
    BY <1>3, <2>1, <2>2, SubSeqRecursiveSecond
  <2>4. \A j \in 1 .. n : t[j] \in Spends
    BY <1>2, <1>3, <2>1
  <2>5. SubSeq(t, 1, n) \in Seq(Spends) /\ t[n + 1] \in Spends
    BY <1>2, <1>3, <2>1, <2>4, SubSeqProperties
  <2>6. Append(SubSeq(t, 1, n), t[n + 1]) = SubSeq(t, 1, n) \o <<t[n + 1]>>
    BY <2>5, AppendIsConcat
  <2> QED BY <1>2, <2>1, <2>3, <2>6 DEF k
<1>9. st.cur # NoState
  <2> SUFFICES ASSUME st.cur = NoState PROVE FALSE
    OBVIOUS
  <2>1. st.cur.coin = <<"none">>
    BY DEF NoState
  <2>2. Len(<<"none">>) = 1 /\ <<"none">>[1] = "none"
    OBVIOUS
  <2>3. n = 1
    BY <2>1, <2>2
  <2>4. SubSeq(t, 1, 1)[1] = t[1] /\ t[1] \in Spends
    <3> HIDE DEF t
    <3>1. \A j \in 1 .. 1 : t[j] \in Spends
      BY <1>3, <2>3
    <3>2. \A j \in 1 .. 1 : SubSeq(t, 1, 1)[j] = t[j]
      BY <3>1, SubSeqProperties
    <3> QED BY <3>1, <3>2
  <2>5. "none" \in Spends
    <3> HIDE DEF n, t
    <3> QED BY <1>2, <2>1, <2>2, <2>3, <2>4
  <2> QED BY <2>5 DEF Spends, Melt
<1>10. ~ Melted(st.cur.coin)
  <2> SUFFICES ASSUME Melted(st.cur.coin) PROVE FALSE
    OBVIOUS
  <2> DEFINE x == st.cur.coin
  <2>1. x # <<>> /\ x[Len(x)] = Melt
    BY DEF Melted, Last
  <2>2. n # 0
    <3>1. x \in Seq(Spends \cup {"none"})
      BY DEF State, Coin
    <3>2. Len(x) # 0
      BY <2>1, <3>1, EmptySeq
    <3> QED BY <3>2
  <2>3. x[n] = t[n]
    <3> HIDE DEF t, n
    <3>1. \A j \in 1 .. n : t[j] \in Spends
      BY <1>2, <1>3
    <3>2. \A j \in 1 .. n : SubSeq(t, 1, n)[j] = t[j]
      BY <1>2, <3>1, SubSeqProperties
    <3>3. n \in 1 .. n
      BY <1>2, <2>2
    <3> QED BY <1>2, <3>2, <3>3
  <2>4. t[n] # Melt
    <3>1. n \in 1 .. Len(SpendsOf(c)) - 1
      <4> HIDE DEF n
      <4> QED BY <1>2, <1>3, <2>2
    <3> HIDE DEF n
    <3> QED BY <3>1 DEF Legal
  <2> QED BY <2>1, <2>3, <2>4
<1>11. OnBlock(st, c, h) = [cur |-> s, hist |-> Prune(Append(st.hist, st.cur), h)]
  <2> HIDE DEF t, n
  <2> QED BY <1>6, <1>7, <1>8, <1>9, <1>10, OnBlockDef
<1>12. s \in State /\ s.height = h /\ s.coin = SubSeq(t, 1, n + 1) /\ Len(s.coin) = n + 1
  <2> HIDE DEF t, n
  <2> QED BY <1>1, <1>3 DEF State
<1> HIDE DEF s
<1>13. OnChain(s, c)
  <2>1. n + 1 <= Count(c, h) /\ h <= Len(c) /\ n + 1 > Count(c, h - 1)
    <3> HIDE DEF n
    <3> QED BY <1>1, <1>2 DEF n
  <2> HIDE DEF n
  <2> QED BY <1>12, <2>1, OnChainIs
<1> QED BY <1>11, <1>12, <1>13

LEMMA PruneType ==
    ASSUME NEW q \in Seq(State), NEW peak \in Int
    PROVE  Prune(q, peak) \in Seq(State)
<1> DEFINE old == {i \in DOMAIN q : q[i].height < peak - Window}
           I == DOMAIN q \ old
<1>1. Len(q) \in Nat /\ DOMAIN q = 1 .. Len(q) /\ \A i \in 1 .. Len(q) : q[i] \in State
  OBVIOUS
<1>2. Keep(q, I) \in Seq(State)
  <2> HIDE DEF I
  <2>1. PICK k : KeptTo(k, q, I, State)
    BY KeepSteps
  <2> QED BY <1>1, <2>1 DEF KeptTo
<1>3. (IF old = {} THEN <<>> ELSE <<q[Max(old)]>>) \in Seq(State)
  <2>1. CASE old = {}
    <3>1. <<>> \in Seq(State)
      OBVIOUS
    <3> QED BY <2>1, <3>1
  <2>2. CASE old # {}
    <3>1. old \subseteq 0 .. Len(q) /\ old \subseteq 1 .. Len(q)
      BY <1>1
    <3> HIDE DEF old
    <3>2. Max(old) \in old
      BY <1>1, <2>2, <3>1, MaxIs
    <3>3. q[Max(old)] \in State
      BY <1>1, <3>1, <3>2
    <3>4. <<q[Max(old)]>> \in Seq(State)
      BY <3>3
    <3> QED BY <2>2, <3>4
  <2> QED BY <2>1, <2>2
<1>4. Prune(q, peak) = (IF old = {} THEN <<>> ELSE <<q[Max(old)]>>) \o Keep(q, I)
  BY DEF Prune
<1> HIDE DEF old, I
<1> QED BY <1>2, <1>3, <1>4, ConcatProperties

\* on_block keeps the types, whatever the state.
LEMMA OnBlockType ==
    ASSUME NEW c \in Seq(Blocks), NEW h \in 1 .. Len(c), NEW st,
           st.cur \in State, st.hist \in Seq(State)
    PROVE  OnBlock(st, c, h).cur \in State /\ OnBlock(st, c, h).hist \in Seq(State)
<1>1. CASE st.cur = NoState \/ Melted(st.cur.coin) \/ Spender(st, c, h) = {}
  BY <1>1, OnBlockDef
<1>2. CASE ~ (st.cur = NoState \/ Melted(st.cur.coin) \/ Spender(st, c, h) = {})
  <2> DEFINE i == Min(Spender(st, c, h))
             s == [coin |-> Append(st.cur.coin, c[h].spends[i]), height |-> h]
  <2>1. c[h].spends \in Seq(Spends) /\ h \in Nat /\ h \in Int
    BY BlockType
  <2>2. Spender(st, c, h) \subseteq 1 .. Len(c[h].spends)
    BY <2>1, LenProperties DEF Spender
  <2>3. i \in Spender(st, c, h)
    <3>1. Spender(st, c, h) \subseteq Nat /\ Spender(st, c, h) # {}
      BY <1>2, <2>2
    <3> QED BY <3>1, MinIs
  <2> HIDE DEF i
  <2>4. c[h].spends[i] \in Spends \cup {"none"}
    BY <2>1, <2>2, <2>3, ElementOfSeq
  <2>5. s \in State
    <3>1. st.cur.coin \in Seq(Spends \cup {"none"})
      BY DEF State, Coin
    <3>2. Append(st.cur.coin, c[h].spends[i]) \in Seq(Spends \cup {"none"})
      BY <2>4, <3>1, AppendProperties
    <3> QED BY <2>1, <3>2 DEF State, Coin
  <2>6. Append(st.hist, st.cur) \in Seq(State)
    BY AppendProperties
  <2>7. Prune(Append(st.hist, st.cur), h) \in Seq(State)
    BY <2>1, <2>6, PruneType
  <2>8. OnBlock(st, c, h) = [cur |-> s, hist |-> Prune(Append(st.hist, st.cur), h)]
    BY <1>2, OnBlockDef DEF i
  <2> HIDE DEF s
  <2> QED BY <2>5, <2>7, <2>8
<1> QED BY <1>1, <1>2

-----------------------------------------------------------------------------
\* Unbroken lines of states.

\* What an unbroken line says, over the indices of its sequence.
LEMMA UnbrokenIs ==
    ASSUME NEW q \in Seq(State), NEW c, NEW low
    PROVE  Unbroken(q, c, low) <=>
              /\ \A i \in 1 .. Len(q) : OnChain(q[i], c)
              /\ \A i \in 2 .. Len(q) : Len(q[i].coin) - Len(q[i - 1].coin) \in {0, 1}
              /\ q[1].height = 0 \/ q[1].height < low
<1>1. DOMAIN q = 1 .. Len(q)
  OBVIOUS
<1> QED BY <1>1, Zenon DEF Unbroken

\* The states of a line are in order.
LEMMA Ordered ==
    ASSUME NEW c \in Seq(Blocks), NEW q \in Seq(State), NEW low, Unbroken(q, c, low)
    PROVE  Sorted(q)
<1>1. /\ \A i \in 1 .. Len(q) : OnChain(q[i], c)
      /\ \A i \in 2 .. Len(q) : Len(q[i].coin) - Len(q[i - 1].coin) \in {0, 1}
  BY UnbrokenIs
<1>2. Len(q) \in Nat /\ DOMAIN q = 1 .. Len(q) /\ \A i \in 1 .. Len(q) : q[i] \in State
  OBVIOUS
<1>3. \A i \in 1 .. Len(q) : Len(q[i].coin) \in Nat
  BY <1>2, OnChainIs
<1>4. ASSUME NEW i \in 1 .. Len(q), NEW j \in 1 .. Len(q), i <= j
      PROVE  Len(q[i].coin) <= Len(q[j].coin)
  <2> DEFINE T == {l \in Nat : i + l <= Len(q) => Len(q[i].coin) <= Len(q[i + l].coin)}
  <2>1. 0 \in T
    BY <1>3
  <2>2. ASSUME NEW l \in Nat, l \in T PROVE l + 1 \in T
    <3> SUFFICES ASSUME i + (l + 1) <= Len(q) PROVE Len(q[i].coin) <= Len(q[i + (l + 1)].coin)
      OBVIOUS
    <3> DEFINE m == i + l + 1
    <3>1. m \in 2 .. Len(q) /\ m - 1 = i + l /\ m - 1 \in 1 .. Len(q) /\ m \in 1 .. Len(q) /\ i + (l + 1) = m
      BY <1>2
    <3>2. Len(q[i].coin) <= Len(q[m - 1].coin)
      BY <2>2, <3>1
    <3> HIDE DEF m
    <3>3. Len(q[m].coin) - Len(q[m - 1].coin) \in {0, 1}
      BY <1>1, <3>1
    <3>4. Len(q[i].coin) <= Len(q[m].coin)
      BY <1>3, <3>1, <3>2, <3>3
    <3> QED BY <3>1, <3>4
  <2>3. j - i \in T
    <3>1. j - i \in Nat
      BY <1>2, <1>4
    <3> HIDE DEF T
    <3> QED BY <2>1, <2>2, <3>1, AllNat
  <2>4. i + (j - i) = j /\ j <= Len(q) /\ j - i \in Nat
    BY <1>2, <1>4
  <2> QED BY <2>3, <2>4
<1>5. ASSUME NEW i \in 1 .. Len(q), NEW j \in 1 .. Len(q), i <= j
      PROVE  q[i].height <= q[j].height
  BY <1>1, <1>2, <1>4, <1>5, Placed
<1> QED BY <1>2, <1>5 DEF Sorted

\* A line that goes back to below a height goes back to below a higher one.
LEMMA UnbrokenLow ==
    ASSUME NEW q \in Seq(State), q # <<>>, NEW c, NEW low \in Int, NEW high \in Int, low <= high,
           Unbroken(q, c, low)
    PROVE  Unbroken(q, c, high)
<1>1. q[1].height = 0 \/ q[1].height < low
  BY UnbrokenIs
<1>2. q[1].height \in Nat
  <2>1. q[1] \in State
    BY EmptySeq
  <2> QED BY <2>1 DEF State
<1>3. q[1].height = 0 \/ q[1].height < high
  BY <1>1, <1>2
<1> QED BY <1>3, UnbrokenIs

\* Two chains with a common part have the lines within it in common.
LEMMA UnbrokenOn ==
    ASSUME NEW q \in Seq(State), NEW c \in Seq(Blocks), NEW d \in Seq(Blocks), NEW low,
           NEW h \in Nat, h <= Len(c), h <= Len(d), SubSeq(c, 1, h) = SubSeq(d, 1, h),
           \A i \in 1 .. Len(q) : q[i].height <= h,
           Unbroken(q, c, low)
    PROVE  Unbroken(q, d, low)
<1>1. h \in 0 .. Len(c) /\ h \in 0 .. Len(d)
  OBVIOUS
<1>2. ASSUME NEW i \in 1 .. Len(q) PROVE OnChain(q[i], d)
  <2>1. q[i] \in State /\ q[i].height <= h
    BY ElementOfSeq
  <2>2. OnChain(q[i], c)
    BY UnbrokenIs
  <2> DEFINE s == q[i]
  <2>3. s \in State /\ s.height <= h /\ OnChain(s, c)
    BY <2>1, <2>2
  <2> HIDE DEF s
  <2>4. OnChain(s, c) <=> OnChain(s, SubSeq(c, 1, h))
    BY <1>1, <2>3, OnPrefix
  <2>5. OnChain(s, d) <=> OnChain(s, SubSeq(d, 1, h))
    BY <1>1, <2>3, OnPrefix
  <2> QED BY <2>3, <2>4, <2>5 DEF s
<1> QED BY <1>2, UnbrokenIs

\* A sequence and one element more.
LEMMA AppendIs ==
    ASSUME NEW p \in Seq(State), NEW s \in State
    PROVE  /\ Append(p, s) \in Seq(State) /\ Append(p, s) # <<>> /\ Len(p) \in Nat
           /\ Len(Append(p, s)) = Len(p) + 1 /\ Append(p, s)[Len(p) + 1] = s
           /\ Last(Append(p, s)) = s
           /\ \A i \in 1 .. Len(p) : Append(p, s)[i] = p[i]
BY AppendProperties DEF Last

\* A block that spends the coin makes the line one state longer, and drops
\* states only from its front, none if the history grows.
LEMMA FollowGood ==
    ASSUME NEW c \in Seq(Blocks), Legal(c), NEW h \in 1 .. Len(c), NEW st, NEW low,
           st.cur \in State, st.hist \in Seq(State), Unbroken(Append(st.hist, st.cur), c, low),
           Count(c, h - 1) <= Len(st.cur.coin), Len(st.cur.coin) < Count(c, h)
    PROVE  LET o == OnBlock(st, c, h)
               q == Append(o.hist, o.cur)
           IN  /\ o.cur \in State /\ o.hist \in Seq(State)
               /\ OnChain(o.cur, c) /\ Len(o.cur.coin) = Len(st.cur.coin) + 1
               /\ Unbroken(q, c, low) \/ Unbroken(q, c, h - Window)
               /\ Len(o.hist) > Len(st.hist) => Unbroken(q, c, low)
<1> DEFINE p == Append(st.hist, st.cur)
<1>1. /\ p \in Seq(State) /\ p # <<>> /\ Len(p) \in Nat \ {0} /\ p[Len(p)] = st.cur
      /\ \A i \in 1 .. Len(p) : p[i] \in State
      /\ Len(st.hist) \in Nat /\ Len(p) = Len(st.hist) + 1
  <2>1. p \in Seq(State) /\ p # <<>> /\ Len(st.hist) \in Nat /\ Len(p) = Len(st.hist) + 1 /\ p[Len(st.hist) + 1] = st.cur
    BY AppendIs
  <2> HIDE DEF p
  <2> QED BY <2>1, ElementOfSeq
<1>2. /\ \A i \in 1 .. Len(p) : OnChain(p[i], c)
      /\ \A i \in 2 .. Len(p) : Len(p[i].coin) - Len(p[i - 1].coin) \in {0, 1}
      /\ p[1].height = 0 \/ p[1].height < low
  <2> HIDE DEF p
  <2>1. Unbroken(p, c, low)
    BY DEF p
  <2> QED BY <1>1, <2>1, UnbrokenIs
<1>3. Sorted(p)
  <2>1. Unbroken(p, c, low)
    OBVIOUS
  <2> HIDE DEF p
  <2> QED BY <1>1, <2>1, Ordered
<1>4. OnChain(st.cur, c)
  <2> HIDE DEF p
  <2>1. Len(p) \in 1 .. Len(p)
    BY <1>1
  <2> QED BY <1>1, <1>2, <2>1
<1>5. PICK s \in State : /\ OnBlock(st, c, h) = [cur |-> s, hist |-> Prune(p, h)]
                         /\ OnChain(s, c) /\ Len(s.coin) = Len(st.cur.coin) + 1 /\ s.height = h
  BY <1>4, OnBlockSpends
<1> HIDE DEF p
<1>6. PICK k \in 0 .. Len(p) : /\ Prune(p, h) = SubSeq(p, k + 1, Len(p))
                               /\ k > 0 => k + 1 <= Len(p) /\ p[k + 1].height < h - Window
  <2>1. h \in Int
    OBVIOUS
  <2> QED BY <1>1, <1>3, <2>1, PruneIs
<1>7. k \in Nat /\ k + 1 <= Len(p)
  BY <1>1, <1>6
<1> DEFINE r == SubSeq(p, k + 1, Len(p))
           n == Len(p) - k
<1>8. /\ r \in Seq(State) /\ Len(r) = n /\ n \in Nat \ {0} /\ \A i \in 1 .. n : r[i] = p[k + i]
  <2>1. k + 1 \in Int /\ Len(p) \in Int /\ \A i \in k + 1 .. Len(p) : p[i] \in State
    BY <1>1, <1>7
  <2>2. /\ r \in Seq(State) /\ Len(r) = IF k + 1 <= Len(p) THEN Len(p) - (k + 1) + 1 ELSE 0
        /\ \A i \in 1 .. Len(p) - (k + 1) + 1 : r[i] = p[k + 1 + i - 1]
    BY <2>1, SubSeqProperties
  <2> HIDE DEF r
  <2>3. Len(r) = n /\ n \in Nat \ {0}
    BY <1>1, <1>7, <2>2
  <2>4. ASSUME NEW i \in 1 .. n PROVE r[i] = p[k + i]
    <3>1. i \in 1 .. Len(p) - (k + 1) + 1 /\ k + 1 + i - 1 = k + i
      BY <1>1, <1>7
    <3> QED BY <2>2, <3>1
  <2> QED BY <2>2, <2>3, <2>4
<1> HIDE DEF r
<1> DEFINE q == Append(r, s)
<1>9. /\ q \in Seq(State) /\ Len(q) = n + 1 /\ q[n + 1] = s
      /\ \A i \in 1 .. n : q[i] = p[k + i]
  <2>1. q \in Seq(State) /\ Len(q) = Len(r) + 1 /\ q[Len(r) + 1] = s /\ \A i \in 1 .. Len(r) : q[i] = r[i]
    BY <1>8, AppendIs
  <2> HIDE DEF q, n
  <2> QED BY <1>8, <2>1
<1> HIDE DEF q
<1>10. ASSUME NEW i \in 1 .. Len(q) PROVE OnChain(q[i], c)
  <2>1. CASE i = n + 1
    BY <1>5, <1>9, <2>1
  <2>2. CASE i # n + 1
    <3>1. i \in 1 .. n /\ k + i \in 1 .. Len(p)
      BY <1>1, <1>7, <1>9, <2>2
    <3> QED BY <1>2, <1>9, <3>1
  <2> QED BY <2>1, <2>2
<1>11. ASSUME NEW i \in 2 .. Len(q) PROVE Len(q[i].coin) - Len(q[i - 1].coin) \in {0, 1}
  <2>1. CASE i = n + 1
    <3>1. n \in 1 .. n /\ k + n = Len(p) /\ i - 1 = n
      BY <1>1, <1>7, <2>1
    <3>2. q[i] = s /\ q[i - 1] = st.cur
      BY <1>1, <1>9, <2>1, <3>1
    <3>3. Len(st.cur.coin) \in Nat
      BY OnChainIs
    <3> QED BY <1>5, <3>2, <3>3
  <2>2. CASE i # n + 1
    <3>0. n \in Nat /\ k \in Nat /\ Len(p) \in Nat /\ Len(p) = k + n /\ Len(q) = n + 1
      BY <1>1, <1>7, <1>8, <1>9
    <3> HIDE DEF n
    <3>1. i \in 1 .. n /\ i - 1 \in 1 .. n
      BY <2>2, <3>0
    <3>2. k + i \in 2 .. Len(p) /\ k + (i - 1) = (k + i) - 1
      BY <3>0, <3>1
    <3>3. q[i] = p[k + i] /\ q[i - 1] = p[(k + i) - 1]
      BY <1>9, <3>1, <3>2
    <3>4. Len(p[k + i].coin) - Len(p[(k + i) - 1].coin) \in {0, 1}
      BY <1>2, <3>2
    <3> QED BY <3>3, <3>4
  <2> QED BY <2>1, <2>2
<1>12. /\ Unbroken(q, c, low) \/ Unbroken(q, c, h - Window)
       /\ k = 0 => Unbroken(q, c, low)
  <2>1. q[1] = p[k + 1]
    <3> HIDE DEF n
    <3>1. 1 \in 1 .. n
      BY <1>8
    <3> QED BY <1>9, <3>1
  <2>2. (q[1].height = 0 \/ q[1].height < low) \/ q[1].height < h - Window
    <3>1. CASE k = 0
      BY <1>2, <2>1, <3>1
    <3>2. CASE k # 0
      BY <1>6, <2>1, <3>2
    <3> QED BY <3>1, <3>2
  <2>3. ASSUME q[1].height = 0 \/ q[1].height < low PROVE Unbroken(q, c, low)
    BY <1>9, <1>10, <1>11, <2>3, UnbrokenIs
  <2>4. ASSUME q[1].height < h - Window PROVE Unbroken(q, c, h - Window)
    <3> DEFINE l == h - Window
    <3>1. q[1].height = 0 \/ q[1].height < l
      BY <2>4
    <3> HIDE DEF l
    <3>2. Unbroken(q, c, l)
      BY <1>9, <1>10, <1>11, <3>1, UnbrokenIs
    <3> QED BY <3>2 DEF l
  <2>5. k = 0 => Unbroken(q, c, low)
    BY <1>2, <2>1, <2>3
  <2> QED BY <2>2, <2>3, <2>4, <2>5
<1>13. OnBlock(st, c, h).cur = s /\ OnBlock(st, c, h).hist = r
  BY <1>5, <1>6 DEF r
<1>14. Len(r) > Len(st.hist) => k = 0
  BY <1>1, <1>7, <1>8
<1> QED BY <1>5, <1>8, <1>12, <1>13, <1>14 DEF q

UpTo(c, states, low) == Unbroken(states, c, low) /\ Last(states).coin = SpendsOf(c)

\* Below every height from `low` on, a line that goes up to the end of the
\* chain holds the state of the chain below that height.
LEMMA Ready ==
    ASSUME NEW c \in Seq(Blocks), NEW q \in Seq(State), q # <<>>, NEW low \in Int, UpTo(c, q, low),
           NEW from \in 1 .. Len(c) + 1, low <= from
    PROVE  \E k \in 1 .. Len(q) :
              /\ Split(q, k, from)
              /\ OnChain(q[k], SubSeq(c, 1, from - 1))
              /\ q[k] = StateOn(SubSeq(c, 1, from - 1))
<1>1. /\ Len(q) \in Nat \ {0} /\ DOMAIN q = 1 .. Len(q) /\ \A i \in 1 .. Len(q) : q[i] \in State
      /\ Len(c) \in Nat /\ Last(q) = q[Len(q)] /\ \A x \in State : x.height \in Nat
  <2>1. Len(q) \in Nat \ {0} /\ DOMAIN q = 1 .. Len(q) /\ \A i \in 1 .. Len(q) : q[i] \in State
    BY EmptySeq
  <2>2. \A x \in State : x.height \in Nat
    BY DEF State
  <2> QED BY <2>1, <2>2, BlockType DEF Last
<1>2. /\ \A i \in 1 .. Len(q) : OnChain(q[i], c)
      /\ \A i \in 2 .. Len(q) : Len(q[i].coin) - Len(q[i - 1].coin) \in {0, 1}
      /\ q[1].height = 0 \/ q[1].height < low
      /\ q[Len(q)].coin = SpendsOf(c)
      /\ Unbroken(q, c, low)
  <2>1. Unbroken(q, c, low) /\ q[Len(q)].coin = SpendsOf(c)
    BY <1>1 DEF UpTo
  <2> QED BY <2>1, UnbrokenIs
<1>3. PICK k \in 0 .. Len(q) : Split(q, k, from)
  <2>1. Sorted(q)
    BY <1>2, Ordered
  <2>2. from \in Int
    OBVIOUS
  <2> QED BY <1>1, <2>1, <2>2, SplitAt
<1>4. k \in 1 .. Len(q)
  <2> SUFFICES ASSUME k = 0 PROVE FALSE
    BY <1>1
  <2>1. 1 \in k + 1 .. Len(q)
    BY <1>1
  <2>2. q[1].height >= from /\ q[1].height \in Nat
    BY <1>1, <1>3, <2>1 DEF Split
  <2> QED BY <1>2, <2>2
<1> DEFINE g == from - 1
           d == SubSeq(c, 1, g)
           s == q[k]
<1>5. g \in 0 .. Len(c) /\ d \in Seq(Blocks) /\ Count(c, g) = Len(SpendsOf(d)) /\ Count(c, g) \in Nat
  <2>1. g \in 0 .. Len(c)
    BY <1>1
  <2> HIDE DEF g
  <2> QED BY <2>1, BlockType, SpentStep DEF Count, Spent
<1>6. s \in State /\ s.height \in Nat /\ s.height <= g /\ OnChain(s, c)
  <2>1. k \in 1 .. k
    BY <1>4
  <2>2. q[k].height < from /\ q[k] \in State /\ OnChain(q[k], c)
    BY <1>1, <1>2, <1>3, <1>4, <2>1 DEF Split
  <2>3. q[k].height \in Nat
    BY <1>1, <2>2
  <2> QED BY <2>2, <2>3
<1> HIDE DEF s
<1>7. OnChain(s, d)
  <2> HIDE DEF g
  <2> QED BY <1>5, <1>6, OnPrefix
<1>8. Len(s.coin) \in Nat /\ Len(s.coin) <= Count(c, g)
  <2>1. Len(s.coin) \in Nat /\ Len(s.coin) <= Count(c, s.height) /\ s.height <= Len(c)
    BY <1>6, OnChainIs
  <2>2. s.height \in 0 .. Len(c)
    BY <1>1, <1>6, <2>1
  <2> HIDE DEF g
  <2>3. Count(c, s.height) <= Count(c, g) /\ Count(c, s.height) \in Nat
    BY <1>5, <1>6, <2>2, SpentPrefix, SpentStep
  <2> QED BY <1>5, <2>1, <2>3
<1>9. Len(s.coin) >= Count(c, g)
  <2> HIDE DEF g
  <2>1. CASE k = Len(q)
    <3>1. Len(s.coin) = Count(c, Len(c))
      <4>1. s.coin = SpendsOf(c)
        BY <1>2, <2>1 DEF s
      <4> QED BY <4>1, SpentStep DEF Count
    <3>2. Len(c) \in 0 .. Len(c) /\ g <= Len(c)
      BY <1>1, <1>5
    <3>3. Count(c, g) <= Count(c, Len(c))
      BY <1>5, <3>2, SpentPrefix
    <3> QED BY <1>8, <3>1, <3>3
  <2>2. CASE k # Len(q)
    <3> DEFINE t == q[k + 1]
    <3>1. k + 1 \in 2 .. Len(q) /\ k + 1 \in 1 .. Len(q) /\ k + 1 \in k + 1 .. Len(q) /\ k + 1 - 1 = k
      BY <1>1, <1>4, <2>2
    <3>2. t \in State /\ OnChain(t, c) /\ t.height >= from /\ Len(t.coin) - Len(s.coin) \in {0, 1}
      <4>1. t \in State /\ OnChain(t, c)
        BY <1>1, <1>2, <3>1
      <4>2. t.height >= from
        BY <1>3, <3>1 DEF Split
      <4>3. Len(q[k + 1].coin) - Len(q[k + 1 - 1].coin) \in {0, 1}
        BY <1>2, <3>1
      <4> QED BY <3>1, <4>1, <4>2, <4>3 DEF s
    <3> HIDE DEF t
    <3>3. Len(t.coin) \in Nat /\ t.height \in Nat /\ t.height <= Len(c) /\ t.height > 0
          /\ Len(t.coin) > Count(c, t.height - 1)
      BY <1>1, <3>2, OnChainIs
    <3>4. t.height - 1 \in 0 .. Len(c) /\ g <= t.height - 1
      BY <1>1, <3>2, <3>3 DEF g
    <3>5. Count(c, g) <= Count(c, t.height - 1) /\ Count(c, t.height - 1) \in Nat
      BY <1>5, <3>4, SpentPrefix, SpentStep
    <3> QED BY <1>5, <1>8, <3>2, <3>3, <3>5
  <2> QED BY <2>1, <2>2
<1>10. s = StateOn(d)
  <2>1. Len(s.coin) = Len(SpendsOf(d))
    BY <1>5, <1>8, <1>9
  <2> HIDE DEF d
  <2> QED BY <1>5, <1>6, <1>7, <2>1, StateOnIs
<1> QED BY <1>3, <1>4, <1>7, <1>10 DEF s

RolledTo(hist, cur, from) ==
    IF cur.height < from THEN cur
    ELSE IF Below(hist, from) = <<>> THEN NoState ELSE Last(Below(hist, from))

\* A rollback of such a line leaves one of the chain below the fork.
LEMMA RollbackGood ==
    ASSUME NEW c \in Seq(Blocks), NEW hist \in Seq(State), NEW cur \in State, NEW low \in Int,
           UpTo(c, Append(hist, cur), low), NEW from \in 1 .. Len(c) + 1, low <= from
    PROVE  /\ Below(hist, from) \in Seq(State) /\ RolledTo(hist, cur, from) \in State
           /\ UpTo(SubSeq(c, 1, from - 1), Append(Below(hist, from), RolledTo(hist, cur, from)), low)
<1> DEFINE p == Append(hist, cur)
           L == Len(hist)
           g == from - 1
           d == SubSeq(c, 1, g)
           B == Below(hist, from)
           r == RolledTo(hist, cur, from)
<1>1. /\ p \in Seq(State) /\ p # <<>> /\ L \in Nat /\ Len(p) = L + 1 /\ p[L + 1] = cur
      /\ \A i \in 1 .. L : p[i] = hist[i]
  BY AppendIs
<1>2. UpTo(c, p, low)
  OBVIOUS
<1> HIDE DEF p, L
<1>3. PICK k \in 1 .. Len(p) : /\ Split(p, k, from) /\ OnChain(p[k], d) /\ p[k] = StateOn(d)
  BY <1>1, <1>2, Ready
<1>4. /\ g \in 0 .. Len(c) /\ g \in Nat /\ d \in Seq(Blocks) /\ Len(d) = g /\ SubSeq(d, 1, g) = d
      /\ Len(c) \in Nat /\ from \in Int
  <2>1. g \in 0 .. Len(c) /\ g \in Nat /\ Len(c) \in Nat /\ from \in Int
    BY BlockType
  <2> HIDE DEF g
  <2>2. d \in Seq(Blocks) /\ Len(d) = g
    BY <2>1, BlockType
  <2> HIDE DEF d
  <2>3. SubSeq(d, 1, g) = d
    BY <2>1, <2>2, BlockType
  <2> QED BY <2>1, <2>2, <2>3
<1>5. p[k].coin = SpendsOf(d) /\ \A i \in 1 .. Len(p) : p[i] \in State /\ p[i].height \in Nat
  <2>1. \A i \in 1 .. Len(p) : p[i] \in State
    BY <1>1
  <2>2. \A i \in 1 .. Len(p) : p[i].height \in Nat
    BY <2>1 DEF State
  <2>3. StateOn(d).coin = SpendsOf(d)
    BY <1>4, StateOnIs
  <2> HIDE DEF d
  <2> QED BY <1>3, <2>1, <2>2, <2>3
<1>6. \A x \in State : x.height \in Nat
  BY DEF State
<1>7. CASE k = L + 1
  <2>1. cur.height < from
    <3>1. k \in 1 .. k
      OBVIOUS
    <3> QED BY <1>1, <1>3, <1>7, <3>1 DEF Split
  <2>2. B = hist
    <3>1. Split(hist, L, from)
      <4>1. \A i \in 1 .. L : i \in 1 .. k
        BY <1>1, <1>7
      <4>2. \A i \in 1 .. L : hist[i].height < from
        BY <1>1, <1>3, <4>1 DEF Split
      <4>3. L + 1 .. Len(hist) = {}
        BY <1>1 DEF L
      <4> QED BY <4>2, <4>3 DEF Split
    <3>2. L \in 0 .. Len(hist)
      BY <1>1 DEF L
    <3>3. B = SubSeq(hist, 1, L)
      BY <1>4, <1>6, <3>1, <3>2, BelowIs
    <3> QED BY <3>3, SubSeqFull DEF L
  <2>3. r = cur
    BY <2>1 DEF RolledTo
  <2>4. Unbroken(p, d, low)
    <3>1. \A i \in 1 .. Len(p) : p[i].height <= g
      <4> SUFFICES ASSUME NEW i \in 1 .. Len(p) PROVE p[i].height <= g
        OBVIOUS
      <4>1. i \in 1 .. k
        BY <1>1, <1>7
      <4>2. p[i].height < from /\ p[i].height \in Nat
        BY <1>3, <1>5, <4>1 DEF Split
      <4> QED BY <4>2
    <3>2. Unbroken(p, c, low)
      BY <1>2 DEF UpTo
    <3>3. g <= Len(c) /\ g <= Len(d) /\ SubSeq(c, 1, g) = SubSeq(d, 1, g)
      BY <1>4
    <3> HIDE DEF g, d
    <3> QED BY <1>1, <1>4, <3>1, <3>2, <3>3, UnbrokenOn
  <2>5. Last(p).coin = SpendsOf(d)
    <3>1. Last(p) = p[k]
      BY <1>1, <1>7 DEF Last
    <3> QED BY <1>5, <3>1
  <2>6. UpTo(d, Append(B, r), low)
    <3> HIDE DEF d, B, r
    <3> QED BY <2>2, <2>3, <2>4, <2>5 DEF UpTo, p
  <2> QED BY <2>2, <2>3, <2>6
<1>8. CASE k # L + 1
  <2>1. k \in 1 .. L /\ k \in 0 .. Len(hist) /\ k \in Nat \ {0} /\ k <= L
    BY <1>1, <1>8 DEF L
  <2>2. ~ (cur.height < from)
    <3>1. L + 1 \in k + 1 .. Len(p)
      BY <1>1, <2>1
    <3>2. cur.height >= from
      BY <1>1, <1>3, <3>1 DEF Split
    <3> QED BY <1>6, <3>2
  <2>3. Split(hist, k, from)
    <3>1. \A i \in 1 .. k : i \in 1 .. L
      BY <1>1, <2>1
    <3>2. \A i \in 1 .. k : hist[i].height < from
      BY <1>1, <1>3, <3>1 DEF Split
    <3>3. \A i \in k + 1 .. Len(hist) : i \in 1 .. L /\ i \in k + 1 .. Len(p)
      BY <1>1, <2>1 DEF L
    <3>4. \A i \in k + 1 .. Len(hist) : hist[i].height >= from
      BY <1>1, <1>3, <3>3 DEF Split
    <3> QED BY <3>2, <3>4 DEF Split
  <2>4. B = SubSeq(hist, 1, k)
    BY <1>4, <1>6, <2>1, <2>3, BelowIs
  <2> HIDE DEF B
  <2>5. /\ B \in Seq(State) /\ Len(B) = k /\ \A i \in 1 .. k : B[i] = p[i] /\ p[i] \in State
    <3>1. \A i \in 1 .. k : i \in 1 .. L /\ i \in 1 .. Len(p)
      BY <1>1, <2>1
    <3>2. \A i \in 1 .. k : hist[i] = p[i] /\ hist[i] \in State
      BY <1>1, <1>5, <3>1
    <3>3. SubSeq(hist, 1, k) \in Seq(State) /\ Len(SubSeq(hist, 1, k)) = k /\ \A i \in 1 .. k : SubSeq(hist, 1, k)[i] = hist[i]
      BY <2>1, <3>2, SubSeqProperties
    <3> QED BY <2>4, <3>2, <3>3
  <2>6. r = p[k]
    <3>1. B # <<>> /\ Last(B) = B[k]
      BY <2>1, <2>5 DEF Last
    <3>2. k \in 1 .. k
      BY <2>1
    <3>3. r = Last(B)
      BY <2>2, <3>1 DEF RolledTo, B
    <3> QED BY <2>5, <3>1, <3>2, <3>3
  <2> HIDE DEF r
  <2> DEFINE q == Append(B, r)
  <2>7. /\ q \in Seq(State) /\ Len(q) = k + 1 /\ q[k + 1] = p[k] /\ \A i \in 1 .. k : q[i] = p[i]
        /\ r \in State
    <3>1. r \in State
      <4>1. k \in 1 .. k
        BY <2>1
      <4> QED BY <2>5, <2>6, <4>1
    <3>2. q \in Seq(State) /\ Len(q) = Len(B) + 1 /\ q[Len(B) + 1] = r /\ \A i \in 1 .. Len(B) : q[i] = B[i]
      BY <2>5, <3>1, AppendIs
    <3> HIDE DEF q
    <3> QED BY <2>5, <2>6, <3>1, <3>2
  <2> HIDE DEF q
  <2>8. Unbroken(p, c, low)
    BY <1>2 DEF UpTo
  <2>9. /\ \A i \in 1 .. Len(p) : OnChain(p[i], c)
        /\ \A i \in 2 .. Len(p) : Len(p[i].coin) - Len(p[i - 1].coin) \in {0, 1}
        /\ p[1].height = 0 \/ p[1].height < low
    BY <1>1, <2>8, UnbrokenIs
  <2>10. Unbroken(q, c, low)
    <3>1. ASSUME NEW i \in 1 .. Len(q) PROVE OnChain(q[i], c)
      <4>1. CASE i = k + 1
        BY <2>7, <2>9, <4>1
      <4>2. CASE i # k + 1
        <5>1. i \in 1 .. k /\ i \in 1 .. Len(p)
          BY <1>1, <2>1, <2>7, <4>2
        <5> QED BY <2>7, <2>9, <5>1
      <4> QED BY <4>1, <4>2
    <3>2. ASSUME NEW i \in 2 .. Len(q) PROVE Len(q[i].coin) - Len(q[i - 1].coin) \in {0, 1}
      <4>1. CASE i = k + 1
        <5>1. k \in 1 .. k /\ i - 1 = k
          BY <2>1, <4>1
        <5>2. q[i] = p[k] /\ q[i - 1] = p[k] /\ p[k] \in State
          BY <2>5, <2>7, <4>1, <5>1
        <5>3. Len(p[k].coin) \in Nat
          BY <1>4, <5>2, OnChainIs
        <5> QED BY <5>2, <5>3
      <4>2. CASE i # k + 1
        <5>1. i \in 1 .. k /\ i - 1 \in 1 .. k /\ i \in 2 .. Len(p)
          BY <1>1, <2>1, <2>7, <4>2
        <5> QED BY <2>7, <2>9, <5>1
      <4> QED BY <4>1, <4>2
    <3>3. q[1].height = 0 \/ q[1].height < low
      <4>1. 1 \in 1 .. k
        BY <2>1
      <4> QED BY <2>7, <2>9, <4>1
    <3> QED BY <2>7, <3>1, <3>2, <3>3, UnbrokenIs
  <2>11. Unbroken(q, d, low)
    <3>1. \A i \in 1 .. Len(q) : q[i].height <= g
      <4> SUFFICES ASSUME NEW i \in 1 .. Len(q) PROVE q[i].height <= g
        OBVIOUS
      <4>1. PICK j \in 1 .. k : q[i] = p[j]
        <5>1. k \in 1 .. k
          BY <2>1
        <5>2. i = k + 1 \/ i \in 1 .. k
          BY <2>1, <2>7
        <5> QED BY <2>7, <5>1, <5>2
      <4>2. p[j].height < from /\ j \in 1 .. Len(p)
        BY <1>1, <1>3, <2>1 DEF Split
      <4>3. p[j].height \in Nat
        BY <1>5, <4>2
      <4> QED BY <4>1, <4>2, <4>3
    <3>2. g <= Len(c) /\ g <= Len(d) /\ SubSeq(c, 1, g) = SubSeq(d, 1, g)
      BY <1>4
    <3> HIDE DEF g, d
    <3> QED BY <1>4, <2>7, <2>10, <3>1, <3>2, UnbrokenOn
  <2>12. Last(q).coin = SpendsOf(d)
    <3>1. Last(q) = p[k]
      BY <2>7 DEF Last
    <3> QED BY <1>5, <3>1
  <2>13. UpTo(d, q, low)
    <3> HIDE DEF d
    <3> QED BY <2>11, <2>12 DEF UpTo
  <2> QED BY <2>5, <2>7, <2>13 DEF q, B, r
<1> QED BY <1>7, <1>8

Index == [cur : State, hist : Seq(State)]

StatesOf(st) == Append(st.hist, st.cur)

LEMMA OnBlockIndex ==
    ASSUME NEW c \in Seq(Blocks), NEW h \in 1 .. Len(c), NEW st \in Index
    PROVE  OnBlock(st, c, h) \in Index
<1>1. st.cur \in State /\ st.hist \in Seq(State)
  BY DEF Index
<1>2. OnBlock(st, c, h).cur \in State /\ OnBlock(st, c, h).hist \in Seq(State)
  BY <1>1, OnBlockType
<1>3. CASE OnBlock(st, c, h) = st
  BY <1>3
<1>4. CASE OnBlock(st, c, h) # st
  <2> DEFINE a == [coin |-> Append(st.cur.coin, c[h].spends[Min(Spender(st, c, h))]), height |-> h]
             b == Prune(Append(st.hist, st.cur), h)
  <2>1. OnBlock(st, c, h) = [cur |-> a, hist |-> b]
    BY <1>4, OnBlockDef
  <2> HIDE DEF a, b
  <2>2. a \in State /\ b \in Seq(State)
    BY <1>2, <2>1
  <2> QED BY <2>1, <2>2 DEF Index
<1> QED BY <1>3, <1>4

-----------------------------------------------------------------------------
\* Remembered peaks.

Entry == [height : Nat, hash : Seq(Blocks)]

\* The n peaks of chain c from height lo on.
Peaks(c, lo, n) == [i \in 1 .. n |-> [height |-> lo - 1 + i, hash |-> SubSeq(c, 1, lo - 1 + i)]]

LEMMA BelowType ==
    ASSUME NEW X, NEW q \in Seq(X), NEW from
    PROVE  Below(q, from) \in Seq(X)
<1> DEFINE I == {i \in DOMAIN q : q[i].height < from}
<1>1. Keep(q, I) \in Seq(X)
  <2> HIDE DEF I
  <2>1. PICK k : KeptTo(k, q, I, X)
    BY KeepSteps
  <2>2. Len(q) \in 0 .. Len(q)
    <3>1. Len(q) \in Nat
      OBVIOUS
    <3> QED BY <3>1
  <2> QED BY <2>1, <2>2 DEF KeptTo
<1> QED BY <1>1 DEF Below

LEMMA RememberType ==
    ASSUME NEW q \in Seq(Entry), NEW e \in Entry
    PROVE  Remember(q, e) \in Seq(Entry) /\ Remember(q, e) # <<>>
<1>1. Below(q, e.height) \in Seq(Entry)
  BY BelowType
<1> QED BY <1>1, AppendProperties DEF Remember

LEMMA TrimType ==
    ASSUME NEW q \in Seq(Entry)
    PROVE  Trim(q) \in Seq(Entry)
<1>1. Len(q) \in Nat /\ Window \in Nat
  BY FollowAssumption
<1>2. CASE Len(q) > Window
  <2> DEFINE a == Len(q) - Window + 1
  <2>1. a \in Int /\ \A i \in a .. Len(q) : q[i] \in Entry
    <3>1. \A i \in a .. Len(q) : i \in 1 .. Len(q)
      BY <1>1, <1>2
    <3> QED BY <1>1, <3>1
  <2> HIDE DEF a
  <2>2. SubSeq(q, a, Len(q)) \in Seq(Entry)
    BY <1>1, <2>1, SubSeqProperties
  <2> QED BY <1>2, <2>2 DEF Trim, a
<1>3. CASE ~ (Len(q) > Window)
  BY <1>3 DEF Trim
<1> QED BY <1>2, <1>3

\* The entries of a window of one chain.
LEMMA PeaksAre ==
    ASSUME NEW c \in Seq(Blocks), NEW lo \in Nat, NEW n \in Nat, lo + n <= Len(c) + 1
    PROVE  /\ Peaks(c, lo, n) \in Seq(Entry) /\ Len(Peaks(c, lo, n)) = n
           /\ DOMAIN Peaks(c, lo, n) = 1 .. n
           /\ \A i \in 1 .. n : /\ Peaks(c, lo, n)[i].height = lo - 1 + i
                                /\ Peaks(c, lo, n)[i].hash = SubSeq(c, 1, lo - 1 + i)
<1> DEFINE p == Peaks(c, lo, n)
<1>1. \A i \in 1 .. n : p[i] = [height |-> lo - 1 + i, hash |-> SubSeq(c, 1, lo - 1 + i)]
  BY DEF Peaks
<1>2. ASSUME NEW i \in 1 .. n PROVE p[i] \in Entry
  <2> DEFINE h == lo - 1 + i
  <2>1. h \in Nat /\ h \in 0 .. Len(c)
    BY BlockType
  <2> HIDE DEF h
  <2>2. SubSeq(c, 1, h) \in Seq(Blocks)
    BY <2>1, BlockType
  <2>3. [height |-> h, hash |-> SubSeq(c, 1, h)] \in Entry
    BY <2>1, <2>2 DEF Entry
  <2> HIDE DEF p
  <2> QED BY <1>1, <2>3 DEF h
<1>3. DOMAIN p = 1 .. n
  BY DEF Peaks
<1>4. p \in [1 .. n -> Entry]
  <2>1. p = [i \in 1 .. n |-> p[i]]
    BY DEF Peaks
  <2> HIDE DEF p
  <2> QED BY <1>2, <2>1
<1> HIDE DEF p
<1>5. p \in Seq(Entry) /\ Len(p) = n
  BY <1>3, <1>4
<1>6. \A i \in 1 .. n : p[i].height = lo - 1 + i /\ p[i].hash = SubSeq(c, 1, lo - 1 + i)
  <2> SUFFICES ASSUME NEW i \in 1 .. n PROVE p[i].height = lo - 1 + i /\ p[i].hash = SubSeq(c, 1, lo - 1 + i)
    OBVIOUS
  <2> DEFINE h == lo - 1 + i
             x == SubSeq(c, 1, h)
  <2>1. p[i] = [height |-> h, hash |-> x]
    BY <1>1
  <2> HIDE DEF h, x
  <2>2. p[i].height = h /\ p[i].hash = x
    BY <2>1
  <2> QED BY <2>2 DEF h, x
<1> QED BY <1>3, <1>5, <1>6 DEF p

\* A window of no peaks.
LEMMA PeaksEmpty ==
    ASSUME NEW c, NEW lo
    PROVE  Peaks(c, lo, 0) = <<>>
<1>1. 1 .. 0 = {}
  OBVIOUS
<1>2. Peaks(c, lo, 0) = [i \in {} |-> [height |-> lo - 1 + i, hash |-> SubSeq(c, 1, lo - 1 + i)]]
  BY <1>1 DEF Peaks
<1> QED BY <1>2

\* The newest entry of a window.
LEMMA PeaksLast ==
    ASSUME NEW c \in Seq(Blocks), NEW lo \in Nat, NEW n \in Nat \ {0}, lo + n <= Len(c) + 1
    PROVE  /\ Peaks(c, lo, n) # <<>>
           /\ Last(Peaks(c, lo, n)).height = lo + n - 1
           /\ Last(Peaks(c, lo, n)).hash = SubSeq(c, 1, lo + n - 1)
<1> DEFINE p == Peaks(c, lo, n)
<1>1. /\ p \in Seq(Entry) /\ Len(p) = n
      /\ \A i \in 1 .. n : p[i].height = lo - 1 + i /\ p[i].hash = SubSeq(c, 1, lo - 1 + i)
  BY PeaksAre
<1> HIDE DEF p
<1>2. n \in 1 .. n /\ lo - 1 + n = lo + n - 1
  OBVIOUS
<1>3. Last(p) = p[n]
  BY <1>1 DEF Last
<1>4. p # <<>>
  BY <1>1
<1>5. p[n].height = lo - 1 + n /\ p[n].hash = SubSeq(c, 1, lo - 1 + n)
  BY <1>1, <1>2
<1> QED BY <1>2, <1>3, <1>4, <1>5 DEF p

\* Peaks of a common part.
LEMMA PeaksOn ==
    ASSUME NEW c \in Seq(Blocks), NEW d \in Seq(Blocks), NEW lo \in Nat, NEW n \in Nat, NEW h \in Nat,
           h <= Len(c), h <= Len(d), SubSeq(c, 1, h) = SubSeq(d, 1, h), lo + n <= h + 1
    PROVE  Peaks(c, lo, n) = Peaks(d, lo, n)
<1>1. ASSUME NEW i \in 1 .. n PROVE SubSeq(c, 1, lo - 1 + i) = SubSeq(d, 1, lo - 1 + i)
  <2> DEFINE g == lo - 1 + i
  <2>1. g \in 0 .. Len(c) /\ g \in 0 .. Len(d) /\ h \in 0 .. Len(c) /\ h \in 0 .. Len(d) /\ g <= h
    BY BlockType
  <2> HIDE DEF g
  <2>2. SubSeq(SubSeq(c, 1, h), 1, g) = SubSeq(c, 1, g) /\ SubSeq(SubSeq(d, 1, h), 1, g) = SubSeq(d, 1, g)
    BY <2>1, BlockType
  <2>3. SubSeq(c, 1, g) = SubSeq(d, 1, g)
    BY <2>2
  <2> QED BY <2>3 DEF g
<1> QED BY <1>1 DEF Peaks

\* What a rollback keeps of a window.
LEMMA PeaksBelow ==
    ASSUME NEW c \in Seq(Blocks), NEW lo \in Nat, NEW n \in Nat, lo + n <= Len(c) + 1,
           NEW k \in 0 .. n
    PROVE  Below(Peaks(c, lo, n), lo + k) = Peaks(c, lo, k)
<1> DEFINE p == Peaks(c, lo, n)
           r == Peaks(c, lo, k)
           from == lo + k
<1>1. /\ p \in Seq(Entry) /\ Len(p) = n
      /\ \A i \in 1 .. n : p[i].height = lo - 1 + i
  BY PeaksAre
<1>2. k \in Nat /\ lo + k <= Len(c) + 1
  BY BlockType
<1>3. r \in Seq(Entry) /\ Len(r) = k
  BY <1>2, PeaksAre
<1>4. \A i \in 1 .. k : i \in 1 .. n /\ p[i] = r[i]
  BY DEF Peaks
<1> HIDE DEF p, r
<1>5. from \in Int /\ \A x \in Entry : x.height \in Nat
  BY DEF Entry
<1>6. Split(p, k, from)
  <2>1. ASSUME NEW i \in 1 .. k PROVE p[i].height < from
    BY <1>1, <1>4
  <2>2. ASSUME NEW i \in k + 1 .. Len(p) PROVE p[i].height >= from
    <3>1. i \in 1 .. n
      BY <1>1, <1>2
    <3> QED BY <1>1, <3>1
  <2> QED BY <2>1, <2>2 DEF Split
<1> HIDE DEF from
<1>7. Below(p, from) = SubSeq(p, 1, k)
  <2>1. k \in 0 .. Len(p)
    BY <1>1
  <2> QED BY <1>1, <1>5, <1>6, <2>1, BelowIs
<1>8. SubSeq(p, 1, k) = r
  <2>1. \A i \in 1 .. k : p[i] \in Entry
    BY <1>1, <1>4
  <2>2. SubSeq(p, 1, k) \in Seq(Entry) /\ Len(SubSeq(p, 1, k)) = k /\ \A i \in 1 .. k : SubSeq(p, 1, k)[i] = p[i]
    BY <1>2, <2>1, SubSeqProperties
  <2>3. Len(SubSeq(p, 1, k)) = Len(r) /\ \A i \in 1 .. Len(SubSeq(p, 1, k)) : SubSeq(p, 1, k)[i] = r[i]
    BY <1>3, <1>4, <2>2
  <2> QED BY <1>3, <2>2, <2>3, SeqEqual
<1> QED BY <1>7, <1>8 DEF p, r, from

\* The next peak of the chain lengthens the window by one.
LEMMA PeaksNext ==
    ASSUME NEW c \in Seq(Blocks), NEW lo \in Nat, NEW n \in Nat, lo + n <= Len(c),
           NEW e, e = [height |-> lo + n, hash |-> SubSeq(c, 1, lo + n)]
    PROVE  /\ e \in Entry /\ Remember(Peaks(c, lo, n), e) = Peaks(c, lo, n + 1)
           /\ Append(Peaks(c, lo, n), e) = Peaks(c, lo, n + 1)
<1> DEFINE p == Peaks(c, lo, n)
           r == Peaks(c, lo, n + 1)
<1>1. Len(c) \in Nat /\ lo + n <= Len(c) + 1 /\ n + 1 \in Nat /\ lo + (n + 1) <= Len(c) + 1
  BY BlockType
<1>2. p \in Seq(Entry) /\ Len(p) = n
  BY <1>1, PeaksAre
<1>3. r \in Seq(Entry) /\ Len(r) = n + 1
  <2> DEFINE m == n + 1
  <2>1. m \in Nat /\ lo + m <= Len(c) + 1
    BY <1>1
  <2> HIDE DEF m
  <2>2. Peaks(c, lo, m) \in Seq(Entry) /\ Len(Peaks(c, lo, m)) = m
    BY <2>1, PeaksAre
  <2> QED BY <2>2 DEF m
<1>4. \A i \in 1 .. n : p[i] = r[i]
  BY DEF Peaks
<1>5. r[n + 1] = e
  <2>1. n + 1 \in 1 .. n + 1 /\ lo - 1 + (n + 1) = lo + n
    OBVIOUS
  <2>2. r[n + 1] = [height |-> lo - 1 + (n + 1), hash |-> SubSeq(c, 1, lo - 1 + (n + 1))]
    BY <2>1 DEF Peaks
  <2> HIDE DEF r
  <2> QED BY <2>1, <2>2
<1> HIDE DEF p, r
<1>6. e \in Entry
  <2>1. n + 1 \in 1 .. Len(r)
    BY <1>3
  <2> QED BY <1>3, <1>5, <2>1, ElementOfSeq
<1>7. Append(p, e) = r
  <2>1. /\ Append(p, e) \in Seq(Entry) /\ Len(Append(p, e)) = n + 1
        /\ \A i \in 1 .. n : Append(p, e)[i] = p[i]
        /\ Append(p, e)[n + 1] = e
    BY <1>2, <1>6, AppendProperties
  <2>2. ASSUME NEW i \in 1 .. Len(Append(p, e)) PROVE Append(p, e)[i] = r[i]
    <3>1. i \in 1 .. n \/ i = n + 1
      BY <2>1
    <3> QED BY <1>4, <1>5, <2>1, <3>1
  <2> QED BY <1>3, <2>1, <2>2, SeqEqual
<1>8. Below(p, e.height) = p
  <2>1. e.height = lo + n /\ n \in 0 .. n
    OBVIOUS
  <2>2. Below(Peaks(c, lo, n), lo + n) = Peaks(c, lo, n)
    BY <1>1, <2>1, PeaksBelow
  <2> QED BY <2>1, <2>2 DEF p
<1> QED BY <1>6, <1>7, <1>8 DEF Remember, p, r

\* f holds what is remembered after the first of the entries es.
Joined(f, q, es, n) ==
    /\ f \in [0 .. n -> Seq(Entry)] /\ f[0] = q
    /\ \A i \in 1 .. n : f[i] = Remember(f[i - 1], es[i])

\* There is a function of the windows after each entry.
LEMMA JoinParts ==
    ASSUME NEW q, q \in Seq(Entry), NEW n \in Nat, NEW es, \A i \in 1 .. n : es[i] \in Entry
    PROVE  \E f : Joined(f, q, es, n)
<1> DEFINE S == Seq(Entry)
           G == [i \in 1 .. n |-> [x \in S |-> Remember(x, es[i])]]
<1>1. ASSUME NEW i \in 1 .. n, NEW x \in S PROVE Remember(x, es[i]) \in S
  BY RememberType
<1>2. Steps(G, n, S)
  <2> HIDE DEF S
  <2> QED BY <1>1 DEF Steps
<1>3. PICK f : Iterates(f, G, q, n, S)
  <2>1. q \in S
    OBVIOUS
  <2> HIDE DEF S, G
  <2> QED BY <1>2, <2>1, Recursion
<1>4. f \in [0 .. n -> S] /\ f[0] = q /\ \A i \in 1 .. n : f[i] = G[i][f[i - 1]]
  BY <1>3 DEF Iterates
<1>5. ASSUME NEW i \in 1 .. n PROVE f[i] = Remember(f[i - 1], es[i])
  <2>1. f[i - 1] \in S
    <3> HIDE DEF S, G
    <3>1. i - 1 \in 0 .. n
      OBVIOUS
    <3> QED BY <1>4, <3>1
  <2> HIDE DEF S
  <2> QED BY <1>4, <2>1
<1> QED BY <1>4, <1>5 DEF Joined

JoinIs(k, q, es) ==
    k = [n \in 0 .. Len(es) |-> IF n = 0 THEN q ELSE Remember(k[n - 1], es[n])]

\* RememberAll is the last of them.
LEMMA JoinSteps ==
    ASSUME NEW q \in Seq(Entry), NEW es \in Seq(Entry)
    PROVE  \E f : Joined(f, q, es, Len(es)) /\ RememberAll(q, es) = f[Len(es)]
<1> DEFINE n == Len(es)
<1>1. n \in Nat /\ \A i \in 1 .. n : es[i] \in Entry
  OBVIOUS
<1>2. PICK f : Joined(f, q, es, n)
  <2>1. q \in Seq(Entry)
    OBVIOUS
  <2> HIDE DEF n
  <2> QED BY <1>1, <2>1, JoinParts
<1>3. f \in [0 .. n -> Seq(Entry)] /\ f[0] = q /\ \A i \in 1 .. n : f[i] = Remember(f[i - 1], es[i])
  BY <1>2 DEF Joined
<1>4. JoinIs(f, q, es)
  <2>1. f = [i \in 0 .. n |-> f[i]]
    BY <1>3
  <2>2. \A i \in 0 .. n : f[i] = IF i = 0 THEN q ELSE Remember(f[i - 1], es[i])
    <3>1. \A i \in 0 .. n : i # 0 => i \in 1 .. n
      BY <1>1
    <3> HIDE DEF n
    <3> QED BY <1>3, <3>1
  <2> QED BY <2>1, <2>2 DEF JoinIs
<1> DEFINE k == CHOOSE kk : JoinIs(kk, q, es)
<1>5. JoinIs(k, q, es)
  BY <1>4
<1>6. RememberAll(q, es) = k[n]
  BY DEF RememberAll, JoinIs
<1> HIDE DEF k
<1>7. k[0] = q /\ \A i \in 1 .. n : k[i] = Remember(k[i - 1], es[i])
  <2>1. \A i \in 0 .. n : k[i] = IF i = 0 THEN q ELSE Remember(k[i - 1], es[i])
    BY <1>5, Zenon DEF JoinIs
  <2>2. 0 \in 0 .. n /\ \A i \in 1 .. n : i \in 0 .. n /\ i # 0
    BY <1>1
  <2> HIDE DEF n
  <2> QED BY <2>1, <2>2
<1>8. k[n] = f[n]
  <2> DEFINE T == {i \in Nat : i <= n => k[i] = f[i]}
  <2> HIDE DEF n
  <2>1. 0 \in T
    BY <1>3, <1>7
  <2>2. ASSUME NEW i \in Nat, i \in T PROVE i + 1 \in T
    <3> SUFFICES ASSUME i + 1 <= n PROVE k[i + 1] = f[i + 1]
      OBVIOUS
    <3>1. k[i] = f[i] /\ i + 1 \in 1 .. n /\ i + 1 - 1 = i
      BY <1>1, <2>2
    <3> QED BY <1>3, <1>7, <3>1
  <2>3. n \in T
    <3> HIDE DEF T
    <3> QED BY <1>1, <2>1, <2>2, AllNat
  <2> QED BY <1>1, <2>3
<1> QED BY <1>2, <1>6, <1>8

LEMMA RememberAllType ==
    ASSUME NEW q \in Seq(Entry), NEW es \in Seq(Entry)
    PROVE  RememberAll(q, es) \in Seq(Entry)
<1>1. PICK f : Joined(f, q, es, Len(es)) /\ RememberAll(q, es) = f[Len(es)]
  BY JoinSteps
<1>2. Len(es) \in Nat
  OBVIOUS
<1>3. f \in [0 .. Len(es) -> Seq(Entry)]
  BY <1>1 DEF Joined
<1> QED BY <1>1, <1>2, <1>3

\* Peaks that follow the remembered ones.
LEMMA PeaksJoin ==
    ASSUME NEW c \in Seq(Blocks), NEW lo \in Nat, NEW n \in Nat, NEW m \in Nat,
           lo + n + m <= Len(c) + 1
    PROVE  RememberAll(Peaks(c, lo, n), Peaks(c, lo + n, m)) = Peaks(c, lo, n + m)
<1> DEFINE q == Peaks(c, lo, n)
           l == lo + n
           es == Peaks(c, l, m)
<1>1. Len(c) \in Nat /\ l \in Nat /\ l + m <= Len(c) + 1 /\ lo + n <= Len(c) + 1
  BY BlockType
<1>2. q \in Seq(Entry)
  BY <1>1, PeaksAre
<1> HIDE DEF l
<1>3. es \in Seq(Entry) /\ Len(es) = m
  BY <1>1, PeaksAre
<1>4. \A i \in 1 .. m : es[i] = [height |-> l - 1 + i, hash |-> SubSeq(c, 1, l - 1 + i)]
  BY DEF Peaks
<1>5. PICK f : Joined(f, q, es, Len(es)) /\ RememberAll(q, es) = f[Len(es)]
  <2> HIDE DEF q, es
  <2> QED BY <1>2, <1>3, JoinSteps
<1> HIDE DEF es
<1>6. f[0] = q /\ \A i \in 1 .. m : f[i] = Remember(f[i - 1], es[i])
  BY <1>3, <1>5 DEF Joined
<1> DEFINE T == {i \in Nat : i <= m => f[i] = Peaks(c, lo, n + i)}
<1>7. 0 \in T
  <2>1. n + 0 = n
    OBVIOUS
  <2> QED BY <1>6, <2>1
<1>8. ASSUME NEW i \in Nat, i \in T PROVE i + 1 \in T
  <2> SUFFICES ASSUME i + 1 <= m PROVE f[i + 1] = Peaks(c, lo, n + (i + 1))
    OBVIOUS
  <2> DEFINE k == n + i
             e == es[i + 1]
  <2>1. /\ i + 1 \in 1 .. m /\ i + 1 - 1 = i /\ k \in Nat /\ lo + k <= Len(c) /\ l - 1 + (i + 1) = lo + k
        /\ n + (i + 1) = k + 1
    BY <1>1 DEF l
  <2>2. f[i] = Peaks(c, lo, k)
    BY <1>8
  <2>3. f[i + 1] = Remember(f[i], e)
    BY <1>6, <2>1
  <2>4. e = [height |-> lo + k, hash |-> SubSeq(c, 1, lo + k)]
    <3> HIDE DEF k
    <3> QED BY <1>4, <2>1
  <2> HIDE DEF k, e
  <2>5. Remember(Peaks(c, lo, k), e) = Peaks(c, lo, k + 1)
    BY <2>1, <2>4, PeaksNext
  <2> QED BY <2>1, <2>2, <2>3, <2>5
<1>9. m \in T
  <2> HIDE DEF T
  <2> QED BY <1>7, <1>8, AllNat
<1>10. f[m] = Peaks(c, lo, n + m)
  BY <1>9
<1> QED BY <1>3, <1>5, <1>10 DEF es, l

\* The oldest k of the peaks are dropped.
Trims(k, c, lo, n) ==
    /\ Trim(Peaks(c, lo, n)) = Peaks(c, lo + k, n - k)
    /\ n - k <= Window
    /\ k = 0 \/ n - k = Window

\* The oldest peaks are dropped from a window that is too long.
LEMMA PeaksTrim ==
    ASSUME NEW c \in Seq(Blocks), NEW lo \in Nat, NEW n \in Nat, lo + n <= Len(c) + 1
    PROVE  \E k \in 0 .. n : Trims(k, c, lo, n)
<1> USE DEF Trims
<1> DEFINE p == Peaks(c, lo, n)
<1>1. p \in Seq(Entry) /\ Len(p) = n /\ \A i \in 1 .. n : p[i] = [height |-> lo - 1 + i, hash |-> SubSeq(c, 1, lo - 1 + i)]
  <2>1. p \in Seq(Entry) /\ Len(p) = n
    BY PeaksAre
  <2>2. \A i \in 1 .. n : p[i] = [height |-> lo - 1 + i, hash |-> SubSeq(c, 1, lo - 1 + i)]
    BY DEF Peaks
  <2> QED BY <2>1, <2>2
<1>2. Window \in Nat \ {0}
  BY FollowAssumption
<1>3. CASE n > Window
  <2> DEFINE k == n - Window
             g == lo + k
             m == n - k
             r == Peaks(c, g, m)
             s == SubSeq(p, n - Window + 1, n)
  <2>1. k \in 0 .. n /\ g \in Nat /\ m \in Nat /\ m = Window /\ g + m <= Len(c) + 1 /\ k \in Nat
    BY <1>2, <1>3
  <2>2. r \in Seq(Entry) /\ Len(r) = m
    <3> HIDE DEF g, m
    <3> QED BY <2>1, PeaksAre
  <2>3. \A i \in 1 .. m : r[i] = [height |-> g - 1 + i, hash |-> SubSeq(c, 1, g - 1 + i)]
    BY DEF Peaks
  <2>4. s \in Seq(Entry) /\ Len(s) = m /\ \A i \in 1 .. m : s[i] = p[k + i]
    <3> DEFINE a == n - Window + 1
    <3>1. a \in Int /\ n \in Int /\ a = k + 1 /\ a <= n /\ n - a + 1 = m
      BY <1>2, <1>3
    <3>2. \A i \in a .. n : i \in 1 .. Len(p)
      BY <1>1, <1>2, <1>3
    <3> HIDE DEF p
    <3>3. \A i \in a .. n : p[i] \in Entry
      BY <1>1, <3>2, ElementOfSeq
    <3>4. s = SubSeq(p, a, n)
      OBVIOUS
    <3> HIDE DEF a, s, m
    <3>5. /\ SubSeq(p, a, n) \in Seq(Entry)
          /\ Len(SubSeq(p, a, n)) = IF a <= n THEN n - a + 1 ELSE 0
          /\ \A i \in 1 .. n - a + 1 : SubSeq(p, a, n)[i] = p[a + i - 1]
      BY <3>1, <3>3, SubSeqProperties
    <3>6. \A i \in 1 .. m : a + i - 1 = k + i
      BY <2>1, <3>1
    <3> QED BY <3>1, <3>4, <3>5, <3>6
  <2> HIDE DEF p, r, s
  <2>5. ASSUME NEW i \in 1 .. m PROVE s[i] = r[i]
    <3>1. k + i \in 1 .. n /\ lo - 1 + (k + i) = g - 1 + i
      <4>1. i \in 1 .. n - k
        OBVIOUS
      <4>2. k \in Nat /\ k <= n
        BY <2>1
      <4> HIDE DEF k
      <4> QED BY <4>1, <4>2
    <3> HIDE DEF k, g, m
    <3> QED BY <1>1, <2>3, <2>4, <3>1
  <2>6. s = r
    <3>1. Len(s) = Len(r) /\ \A i \in 1 .. Len(s) : s[i] = r[i]
      BY <2>2, <2>4, <2>5
    <3> QED BY <2>2, <2>4, <3>1, SeqEqual
  <2>7. Trim(p) = s
    BY <1>1, <1>3 DEF Trim, s
  <2>8. n - k <= Window /\ n - k = Window
    BY <1>2, <2>1
  <2>9. Trim(p) = Peaks(c, lo + k, n - k)
    BY <2>6, <2>7 DEF r
  <2> HIDE DEF k
  <2> QED BY <2>1, <2>8, <2>9 DEF p
<1>4. CASE ~ (n > Window)
  <2> HIDE DEF p
  <2>1. Trim(p) = p
    BY <1>1, <1>4 DEF Trim
  <2>2. 0 \in 0 .. n /\ lo + 0 = lo /\ n - 0 = n /\ n <= Window
    BY <1>2, <1>4
  <2>3. Trim(p) = Peaks(c, lo + 0, n - 0)
    BY <2>1, <2>2 DEF p
  <2> QED BY <2>2, <2>3 DEF p
<1> QED BY <1>3, <1>4

-----------------------------------------------------------------------------
\* Chains that grow and fork.

\* A chain whose last block could follow holds no spend after a melt.
LEMMA LegalIs ==
    ASSUME NEW c \in Seq(Blocks), c # <<>>, CanFollow(SubSeq(c, 1, Len(c) - 1), c[Len(c)])
    PROVE  Legal(c)
<1>1. SpendsOf(c) = SpendsOf(SubSeq(c, 1, Len(c) - 1)) \o c[Len(c)].spends
  BY SpendsLast
<1>2. \A i \in 1 .. Len(SpendsOf(SubSeq(c, 1, Len(c) - 1)) \o c[Len(c)].spends) - 1 :
         (SpendsOf(SubSeq(c, 1, Len(c) - 1)) \o c[Len(c)].spends)[i] # Melt
  BY Zenon DEF CanFollow
<1> QED BY <1>1, <1>2 DEF Legal

LEMMA LegalStart == Legal(Start)
<1>1. Start \in Seq(Blocks) /\ \A i \in DOMAIN Start : CanFollow(SubSeq(Start, 1, i - 1), Start[i])
  BY FollowAssumption
<1>2. CASE Start = <<>>
  <2>1. SpendsOf(Start) = <<>>
    <3>1. Spent(Start, 0) = <<>>
      BY <1>1, SpentStep
    <3>2. SubSeq(Start, 1, 0) = <<>>
      BY SubSeqEmpty
    <3> QED BY <1>2, <3>1, <3>2 DEF Spent
  <2>2. 1 .. Len(<<>>) - 1 = {}
    OBVIOUS
  <2> QED BY <2>1, <2>2 DEF Legal
<1>3. CASE Start # <<>>
  <2>1. Len(Start) \in DOMAIN Start
    <3>1. Len(Start) \in Nat \ {0} /\ DOMAIN Start = 1 .. Len(Start)
      BY <1>1, <1>3, EmptySeq, LenProperties
    <3> QED BY <3>1
  <2> QED BY <1>1, <1>3, <2>1, LegalIs
<1> QED BY <1>2, <1>3

\* The part of a chain below a height.
LEMMA PrefixIs ==
    ASSUME NEW c \in Seq(Blocks), NEW h \in 0 .. Len(c)
    PROVE  /\ SubSeq(c, 1, h) \in Seq(Blocks) /\ Len(SubSeq(c, 1, h)) = h
           /\ SpendsOf(SubSeq(c, 1, h)) = Spent(c, h)
           /\ Legal(c) => Legal(SubSeq(c, 1, h))
           /\ \A g \in 0 .. h : Count(SubSeq(c, 1, h), g) = Count(c, g)
<1> DEFINE d == SubSeq(c, 1, h)
<1>1. d \in Seq(Blocks) /\ Len(d) = h /\ Len(c) \in Nat
  BY BlockType
<1>2. SpendsOf(d) = Spent(c, h)
  BY DEF Spent
<1>3. ASSUME NEW g \in 0 .. h PROVE Count(d, g) = Count(c, g)
  <2>1. g \in 0 .. Len(c) /\ g <= h
    BY <1>1
  <2>2. SubSeq(d, 1, g) = SubSeq(c, 1, g)
    BY <2>1, BlockType
  <2> QED BY <2>2 DEF Count, Spent
<1>4. ASSUME Legal(c) PROVE Legal(d)
  <2> DEFINE n == Count(c, h)
             t == SpendsOf(c)
  <2>1. Len(c) \in 0 .. Len(c) /\ h <= Len(c) /\ Spent(c, Len(c)) = t /\ Spent(c, Len(c)) \in Seq(Spends)
        /\ n \in Nat /\ Len(Spent(c, h)) = n
    <3>1. Len(c) \in 0 .. Len(c) /\ h <= Len(c)
      BY <1>1
    <3>2. Spent(c, Len(c)) = t /\ Spent(c, Len(c)) \in Seq(Spends) /\ n \in Nat
      BY <3>1, SpentStep
    <3>3. Len(Spent(c, h)) = n
      BY DEF Count
    <3> QED BY <3>1, <3>2, <3>3
  <2>2. n <= Count(c, Len(c)) /\ Spent(c, h) = SubSeq(t, 1, n)
    BY <2>1, SpentPrefix
  <2>3. Count(c, Len(c)) = Len(t) /\ Len(t) \in Nat /\ t \in Seq(Spends)
    BY <2>1, LenProperties DEF Count
  <2>l. Legal(c)
    BY <1>4
  <2> HIDE DEF n, d
  <2>4. \A i \in 1 .. n : t[i] \in Spends
    <3>1. \A i \in 1 .. n : i \in 1 .. Len(t)
      BY <2>1, <2>2, <2>3
    <3> HIDE DEF t
    <3> QED BY <2>3, <3>1, ElementOfSeq
  <2>5. \A i \in 1 .. n : SubSeq(t, 1, n)[i] = t[i]
    <3> HIDE DEF t
    <3> QED BY <2>1, <2>4, SubSeqProperties
  <2>6. \A i \in 1 .. Len(t) - 1 : t[i] # Melt
    BY <2>l DEF Legal
  <2> HIDE DEF t
  <2>7. \A i \in 1 .. n - 1 : SubSeq(t, 1, n)[i] # Melt
    <3>1. \A i \in 1 .. n - 1 : i \in 1 .. n /\ i \in 1 .. Len(t) - 1
      BY <2>1, <2>2, <2>3
    <3> QED BY <2>5, <2>6, <3>1
  <2>8. SpendsOf(d) = SubSeq(t, 1, n) /\ Len(SpendsOf(d)) = n
    BY <1>2, <2>1, <2>2
  <2> QED BY <2>7, <2>8 DEF Legal
<1> HIDE DEF d
<1> QED BY <1>1, <1>2, <1>3, <1>4 DEF d

\* The chain c is b with the n blocks s appended.
Extended(c, b, s, n) ==
    /\ s \in Seq(Blocks) /\ Len(s) = n
    /\ c \in Seq(Blocks) /\ Len(c) = Len(b) + n
    /\ \A h \in 0 .. Len(b) : SubSeq(c, 1, h) = SubSeq(b, 1, h)
    /\ \A i \in 1 .. Len(b) : c[i] = b[i]
    /\ \A i \in 1 .. n : c[Len(b) + i] = s[i]
    /\ Legal(c)

\* Each extension of a chain is such a chain, block by block.
LEMMA ExtensionIs ==
    ASSUME NEW b \in Seq(Blocks), NEW n \in Nat \ {0}, NEW s \in Extensions(b, n)
    PROVE  Extended(b \o s, b, s, n)
<1> DEFINE c == b \o s
<1>1. s \in [1 .. n -> Blocks] /\ CanFollow(b \o SubSeq(s, 1, n - 1), s[n])
  <2>1. s \in [1 .. n -> Blocks] /\ \A i \in 1 .. n : CanFollow(b \o SubSeq(s, 1, i - 1), s[i])
    BY DEF Extensions
  <2>2. n \in 1 .. n
    OBVIOUS
  <2> QED BY <2>1, <2>2
<1>2. s \in Seq(Blocks) /\ Len(s) = n /\ Len(b) \in Nat /\ s # <<>>
  <2>1. s \in Seq(Blocks) /\ DOMAIN s = 1 .. n
    BY <1>1
  <2>2. Len(s) = n
    BY <2>1
  <2> QED BY <2>1, <2>2
<1>3. c \in Seq(Blocks) /\ Len(c) = Len(b) + n
      /\ \A i \in 1 .. Len(b) + n : c[i] = IF i <= Len(b) THEN b[i] ELSE s[i - Len(b)]
  <2>1. c \in Seq(Blocks) /\ Len(c) = Len(b) + Len(s)
        /\ \A i \in 1 .. Len(b) + Len(s) : c[i] = IF i <= Len(b) THEN b[i] ELSE s[i - Len(b)]
    BY <1>2, ConcatProperties
  <2> HIDE DEF c
  <2> QED BY <1>2, <2>1
<1>c. SubSeq(c, 1, Len(c) - 1) = b \o SubSeq(s, 1, n - 1)
  <2> DEFINE m == n - 1
             p == SubSeq(s, 1, m)
             e == b \o p
             f == SubSeq(c, 1, Len(b) + m)
  <2>1. m \in Nat /\ m <= n /\ Len(c) - 1 = Len(b) + m
    BY <1>2, <1>3
  <2>2. p \in Seq(Blocks) /\ Len(p) = m /\ \A i \in 1 .. m : p[i] = s[i]
    <3> HIDE DEF m
    <3>1. \A i \in 1 .. m : s[i] \in Blocks
      BY <1>1, <2>1
    <3> QED BY <2>1, <3>1, SubSeqProperties
  <2> HIDE DEF m, p, c
  <2>3. e \in Seq(Blocks) /\ Len(e) = Len(b) + m
        /\ \A i \in 1 .. Len(b) + m : e[i] = IF i <= Len(b) THEN b[i] ELSE p[i - Len(b)]
    <3>1. e \in Seq(Blocks) /\ Len(e) = Len(b) + Len(p)
          /\ \A i \in 1 .. Len(b) + Len(p) : e[i] = IF i <= Len(b) THEN b[i] ELSE p[i - Len(b)]
      BY <2>2, ConcatProperties
    <3> QED BY <2>2, <3>1
  <2>4. f \in Seq(Blocks) /\ Len(f) = Len(b) + m /\ \A i \in 1 .. Len(b) + m : f[i] = c[i]
    <3> DEFINE l == Len(b) + m
    <3>1. l \in Nat /\ \A i \in 1 .. l : i \in 1 .. Len(c)
      BY <1>2, <1>3, <2>1
    <3>2. \A i \in 1 .. l : c[i] \in Blocks
      BY <1>3, <3>1, ElementOfSeq
    <3> HIDE DEF l
    <3>3. SubSeq(c, 1, l) \in Seq(Blocks) /\ Len(SubSeq(c, 1, l)) = l /\ \A i \in 1 .. l : SubSeq(c, 1, l)[i] = c[i]
      BY <3>1, <3>2, SubSeqProperties
    <3> QED BY <3>3 DEF l
  <2> HIDE DEF e, f
  <2>5. ASSUME NEW i \in 1 .. Len(e) PROVE e[i] = f[i]
    <3>1. i \in 1 .. Len(b) + m /\ i \in 1 .. Len(b) + n
      BY <1>2, <2>1, <2>3
    <3>2. CASE i <= Len(b)
      BY <1>3, <2>3, <2>4, <3>1, <3>2
    <3>3. CASE ~ (i <= Len(b))
      <4>1. i - Len(b) \in 1 .. m
        BY <1>2, <2>1, <3>1, <3>3
      <4> QED BY <1>3, <2>2, <2>3, <2>4, <3>1, <3>3, <4>1
    <3> QED BY <3>2, <3>3
  <2>6. e = f
    <3>1. Len(e) = Len(f)
      BY <2>3, <2>4
    <3> QED BY <2>3, <2>4, <2>5, <3>1, SeqEqual
  <2> QED BY <2>1, <2>6 DEF e, f, m, p
<1> HIDE DEF c
<1>4. ASSUME NEW i \in 1 .. Len(b) PROVE c[i] = b[i]
  <2>1. i \in 1 .. Len(b) + n /\ i <= Len(b)
    BY <1>2
  <2> QED BY <1>3, <2>1
<1>5. ASSUME NEW i \in 1 .. n PROVE c[Len(b) + i] = s[i]
  <2>1. Len(b) + i \in 1 .. Len(b) + n /\ ~ (Len(b) + i <= Len(b)) /\ Len(b) + i - Len(b) = i
    BY <1>2
  <2> QED BY <1>3, <2>1
<1>6. ASSUME NEW h \in 0 .. Len(b) PROVE SubSeq(c, 1, h) = SubSeq(b, 1, h)
  <2>1. h \in Nat /\ \A i \in 1 .. h : i \in 1 .. Len(b) /\ b[i] \in Blocks /\ c[i] = b[i]
    BY <1>2, <1>4, ElementOfSeq
  <2>2. /\ SubSeq(c, 1, h) \in Seq(Blocks) /\ Len(SubSeq(c, 1, h)) = h
        /\ \A i \in 1 .. h : SubSeq(c, 1, h)[i] = c[i]
    BY <2>1, SubSeqProperties
  <2>3. /\ SubSeq(b, 1, h) \in Seq(Blocks) /\ Len(SubSeq(b, 1, h)) = h
        /\ \A i \in 1 .. h : SubSeq(b, 1, h)[i] = b[i]
    BY <2>1, SubSeqProperties
  <2> QED BY <2>1, <2>2, <2>3, SeqEqual
<1>7. Legal(c)
  <2>1. c # <<>>
    BY <1>2, <1>3
  <2>2. c[Len(c)] = s[n]
    <3>1. n \in 1 .. n
      OBVIOUS
    <3> QED BY <1>3, <1>5, <3>1
  <2>3. CanFollow(SubSeq(c, 1, Len(c) - 1), c[Len(c)])
    BY <1>1, <1>c, <2>2
  <2> QED BY <1>3, <2>1, <2>3, LegalIs
<1>8. Extended(c, b, s, n)
  BY <1>2, <1>3, <1>4, <1>5, <1>6, <1>7 DEF Extended
<1> QED BY <1>8 DEF c

-----------------------------------------------------------------------------
\* A line held up to a height, while the blocks above are followed.

Held(c, m, st, lo, lo2) ==
    /\ Unbroken(StatesOf(st), SubSeq(c, 1, m), lo) \/ Unbroken(StatesOf(st), SubSeq(c, 1, m), lo2)
    /\ st.cur.coin = SpendsOf(SubSeq(c, 1, m))

\* What is held up to a height, unfolded.
LEMMA HeldIs ==
    ASSUME NEW c \in Seq(Blocks), NEW m \in 0 .. Len(c), NEW st \in Index, NEW lo, NEW lo2,
           Held(c, m, st, lo, lo2)
    PROVE  /\ StatesOf(st) \in Seq(State) /\ StatesOf(st) # <<>> /\ Last(StatesOf(st)) = st.cur
           /\ st.cur \in State /\ st.hist \in Seq(State)
           /\ OnChain(st.cur, SubSeq(c, 1, m)) /\ OnChain(st.cur, c)
           /\ Len(st.cur.coin) = Count(c, m)
           /\ \A i \in 1 .. Len(StatesOf(st)) : StatesOf(st)[i].height <= m
<1> DEFINE d == SubSeq(c, 1, m)
           p == StatesOf(st)
<1>1. d \in Seq(Blocks) /\ Len(d) = m /\ SpendsOf(d) = Spent(c, m) /\ Len(c) \in Nat
  BY PrefixIs, BlockType
<1>2. st.cur \in State /\ st.hist \in Seq(State)
  BY DEF Index
<1>3. /\ p \in Seq(State) /\ p # <<>> /\ Last(p) = st.cur
      /\ Len(st.hist) \in Nat /\ Len(p) = Len(st.hist) + 1 /\ p[Len(st.hist) + 1] = st.cur
  BY <1>2, AppendIs DEF StatesOf
<1>4. (Unbroken(p, d, lo) \/ Unbroken(p, d, lo2)) /\ st.cur.coin = SpendsOf(d)
  BY DEF Held
<1> HIDE DEF p, d
<1>5. \A i \in 1 .. Len(p) : OnChain(p[i], d)
  BY <1>3, <1>4, UnbrokenIs
<1>6. OnChain(st.cur, d)
  <2>1. Len(st.hist) + 1 \in 1 .. Len(p)
    BY <1>3
  <2> QED BY <1>3, <1>5, <2>1
<1>7. ASSUME NEW i \in 1 .. Len(p) PROVE p[i].height <= m
  <2>1. p[i] \in State /\ OnChain(p[i], d)
    BY <1>3, <1>5, ElementOfSeq
  <2> QED BY <1>1, <2>1, OnChainIs
<1>8. OnChain(st.cur, c)
  <2>1. st.cur.height <= m
    BY <1>1, <1>2, <1>6, OnChainIs
  <2> QED BY <1>2, <1>6, <2>1, OnPrefix DEF d
<1>9. Len(st.cur.coin) = Count(c, m)
  BY <1>1, <1>4 DEF Count
<1> QED BY <1>2, <1>3, <1>6, <1>7, <1>8, <1>9 DEF p, d

\* A block already followed changes nothing, and neither does one that is
\* not the first to spend the coin held.
LEMMA HeldStays ==
    ASSUME NEW c \in Seq(Blocks), NEW m \in 0 .. Len(c), NEW st \in Index, NEW lo, NEW lo2,
           Held(c, m, st, lo, lo2), NEW h \in 1 .. Len(c),
           h <= m \/ \E i \in m + 1 .. h - 1 : c[i].spends # <<>>
    PROVE  OnBlock(st, c, h) = st
<1>1. st.cur \in State /\ OnChain(st.cur, c) /\ Len(st.cur.coin) = Count(c, m)
  BY HeldIs
<1>2. Len(c) \in Nat /\ h \in 0 .. Len(c) /\ h - 1 \in 0 .. Len(c) /\ m \in Nat
  BY BlockType
<1>c. Count(c, m) \in Nat /\ Count(c, h) \in Nat /\ Count(c, h - 1) \in Nat
  BY <1>2, SpentStep
<1>3. CASE h <= m
  <2>1. Count(c, h) <= Count(c, m)
    BY <1>2, <1>3, SpentPrefix
  <2>2. Len(st.cur.coin) >= Count(c, h)
    BY <1>1, <1>c, <2>1
  <2> QED BY <1>1, <2>2, OnBlockStays
<1>4. CASE \E i \in m + 1 .. h - 1 : c[i].spends # <<>>
  <2>1. PICK i \in m + 1 .. h - 1 : c[i].spends # <<>>
    BY <1>4
  <2>2. i \in 1 .. Len(c) /\ i - 1 \in 0 .. Len(c) /\ i \in 0 .. Len(c) /\ m <= i - 1 /\ i <= h - 1
    BY <1>2
  <2>3. Count(c, m) <= Count(c, i - 1) /\ Count(c, i) <= Count(c, h - 1)
    BY <1>2, <2>2, SpentPrefix
  <2>4. Count(c, i) = Count(c, i - 1) + Len(c[i].spends) /\ Count(c, i - 1) \in Nat
    BY <2>2, SpentStep
  <2>5. Len(c[i].spends) \in Nat \ {0}
    <3>1. c[i].spends \in Seq(Spends)
      BY <2>2, BlockType
    <3> QED BY <2>1, <3>1, EmptySeq
  <2>6. Len(st.cur.coin) < Count(c, h - 1)
    BY <1>1, <1>c, <2>3, <2>4, <2>5
  <2> QED BY <1>1, <2>6, OnBlockStays
<1> QED BY <1>3, <1>4

\* The next block, above blocks without spends, moves the line up to it.
LEMMA HeldMoves ==
    ASSUME NEW c \in Seq(Blocks), Legal(c), NEW m \in 0 .. Len(c), NEW st \in Index,
           NEW lo \in Int, NEW lo2 \in Int,
           Held(c, m, st, lo, lo2), NEW h \in 1 .. Len(c), m < h,
           h - Window <= lo2 \/ Len(OnBlock(st, c, h).hist) > Len(st.hist),
           \A i \in m + 1 .. h - 1 : c[i].spends = <<>>, Len(c[h].spends) <= 1
    PROVE  Held(c, h, OnBlock(st, c, h), lo, lo2)
<1> DEFINE d == SubSeq(c, 1, m)
           e == SubSeq(c, 1, h)
           p == StatesOf(st)
<1>1. /\ p \in Seq(State) /\ p # <<>> /\ st.cur \in State /\ st.hist \in Seq(State)
      /\ OnChain(st.cur, c) /\ Len(st.cur.coin) = Count(c, m)
      /\ \A i \in 1 .. Len(p) : p[i].height <= m
  BY HeldIs
<1>2. /\ Len(c) \in Nat /\ h \in 0 .. Len(c) /\ h - 1 \in 0 .. Len(c) /\ m \in Nat /\ h \in Nat
      /\ m <= h - 1 /\ m <= h
  BY BlockType
<1>3. /\ d \in Seq(Blocks) /\ Len(d) = m /\ SpendsOf(d) = Spent(c, m) /\ SubSeq(d, 1, m) = d
  <2>1. d \in Seq(Blocks) /\ Len(d) = m /\ SpendsOf(d) = Spent(c, m)
    BY PrefixIs
  <2> HIDE DEF d
  <2>2. SubSeq(d, 1, m) = d
    BY <2>1, BlockType
  <2> QED BY <2>1, <2>2
<1>4. /\ e \in Seq(Blocks) /\ Len(e) = h /\ SpendsOf(e) = Spent(c, h) /\ SubSeq(e, 1, m) = d
      /\ e[h] = c[h] /\ SubSeq(e, 1, h - 1) = SubSeq(c, 1, h - 1) /\ Legal(e)
      /\ Count(e, h - 1) = Count(c, h - 1) /\ Count(e, h) = Count(c, h)
  <2>1. e \in Seq(Blocks) /\ Len(e) = h /\ SpendsOf(e) = Spent(c, h) /\ Legal(e)
    BY <1>2, PrefixIs
  <2>2. SubSeq(e, 1, m) = d /\ SubSeq(e, 1, h - 1) = SubSeq(c, 1, h - 1)
    BY <1>2, BlockType
  <2>3. e[h] = c[h]
    BY <1>2, BlockType
  <2>4. h - 1 \in 0 .. h /\ h \in 0 .. h
    BY <1>2
  <2>5. Count(e, h - 1) = Count(c, h - 1) /\ Count(e, h) = Count(c, h)
    BY <1>2, <2>4, PrefixIs
  <2> QED BY <2>1, <2>2, <2>3, <2>5
<1>5. Count(c, h - 1) = Count(c, m) /\ Spent(c, h - 1) = Spent(c, m) /\ Count(c, m) \in Nat
  <2>1. Count(c, m) = Count(c, h - 1) /\ Spent(c, m) = Spent(c, h - 1)
    BY <1>2, NoSpends
  <2> QED BY <2>1, SpentStep
<1>6. Count(c, h) = Count(c, m) + Len(c[h].spends) /\ Len(c[h].spends) \in {0, 1}
  <2>1. Count(c, h) = Count(c, h - 1) + Len(c[h].spends)
    BY SpentStep
  <2>2. c[h].spends \in Seq(Spends)
    BY BlockType
  <2>3. Len(c[h].spends) \in Nat
    BY <2>2, LenProperties
  <2>4. Len(c[h].spends) <= 1
    OBVIOUS
  <2>5. Len(c[h].spends) \in {0, 1}
    <3>1. \A k \in Nat : k <= 1 => k \in {0, 1}
      OBVIOUS
    <3> QED BY <2>3, <2>4, <3>1, Zenon
  <2> QED BY <1>5, <2>1, <2>5
<1>7. OnBlock(st, e, h) = OnBlock(st, c, h)
  BY <1>4, Zenon DEF OnBlock
<1>8. (Unbroken(p, d, lo) \/ Unbroken(p, d, lo2)) /\ st.cur.coin = SpendsOf(d)
  BY DEF Held
<1>9. ASSUME NEW l, Unbroken(p, d, l) PROVE Unbroken(p, e, l)
  <2>1. m <= Len(d) /\ m <= Len(e) /\ SubSeq(d, 1, m) = SubSeq(e, 1, m)
    <3> HIDE DEF d, e
    <3>1. m <= m /\ m <= h
      BY <1>2
    <3> QED BY <1>3, <1>4, <3>1, Zenon
  <2> HIDE DEF p, d, e
  <2> QED BY <1>1, <1>2, <1>3, <1>4, <1>9, <2>1, UnbrokenOn
<1>10. CASE Len(c[h].spends) = 0
  <2>1. OnBlock(st, c, h) = st
    <3>1. Len(st.cur.coin) >= Count(c, h)
      BY <1>1, <1>5, <1>6, <1>10
    <3> QED BY <1>1, <3>1, OnBlockStays
  <2>2. Spent(c, h) = Spent(c, m)
    <3>1. c[h].spends = <<>>
      <4>1. c[h].spends \in Seq(Spends)
        BY BlockType
      <4> QED BY <1>10, <4>1, EmptySeq
    <3>2. Spent(c, h) = Spent(c, h - 1) \o c[h].spends /\ Spent(c, h - 1) \in Seq(Spends)
      BY <1>2, SpentStep
    <3>3. Spent(c, h - 1) \o <<>> = Spent(c, h - 1)
      BY <3>2, ConcatEmptySeq
    <3> QED BY <1>5, <3>1, <3>2, <3>3
  <2> HIDE DEF d, e, p
  <2>3. (Unbroken(p, e, lo) \/ Unbroken(p, e, lo2)) /\ st.cur.coin = SpendsOf(e)
    BY <1>3, <1>4, <1>8, <1>9, <2>2
  <2> QED BY <2>1, <2>3 DEF Held, p, e
<1>11. CASE Len(c[h].spends) = 1
  <2> DEFINE o == OnBlock(st, e, h)
             q == Append(o.hist, o.cur)
  <2> HIDE DEF d, e
  <2>1. Count(e, h - 1) <= Len(st.cur.coin) /\ Len(st.cur.coin) < Count(e, h)
    BY <1>1, <1>4, <1>5, <1>6, <1>11
  <2>2. h \in 1 .. Len(e)
    BY <1>4
  <2>3. ASSUME NEW l, Unbroken(Append(st.hist, st.cur), e, l)
        PROVE  /\ o.cur \in State /\ o.hist \in Seq(State)
               /\ OnChain(o.cur, e) /\ Len(o.cur.coin) = Len(st.cur.coin) + 1
               /\ Unbroken(q, e, l) \/ Unbroken(q, e, h - Window)
               /\ Len(o.hist) > Len(st.hist) => Unbroken(q, e, l)
    BY <1>1, <1>4, <2>1, <2>2, <2>3, FollowGood
  <2>4. ASSUME NEW l, Unbroken(p, d, l) PROVE Unbroken(Append(st.hist, st.cur), e, l)
    BY <1>9, <2>4 DEF StatesOf
  <2>g. h - Window <= lo2 \/ Len(o.hist) > Len(st.hist)
    BY <1>7
  <2> HIDE DEF o, q, p
  <2>5. /\ o.cur \in State /\ o.hist \in Seq(State)
        /\ OnChain(o.cur, e) /\ Len(o.cur.coin) = Len(st.cur.coin) + 1
        /\ \/ Unbroken(q, e, lo) \/ Unbroken(q, e, lo2)
           \/ Unbroken(q, e, h - Window) /\ h - Window <= lo2
    BY <1>8, <2>3, <2>4, <2>g
  <2>6. ASSUME Unbroken(q, e, h - Window), h - Window <= lo2 PROVE Unbroken(q, e, lo2)
    <3> DEFINE l == h - Window
    <3>1. l \in Int /\ l <= lo2
      BY <1>2, <2>6, FollowAssumption
    <3>2. Unbroken(q, e, l)
      BY <2>6
    <3>3. q \in Seq(State) /\ q # <<>>
      BY <2>5, AppendIs DEF q
    <3> HIDE DEF l
    <3> QED BY <3>1, <3>2, <3>3, UnbrokenLow
  <2>7. o.cur.coin = SpendsOf(e)
    <3>1. o.cur.coin = SubSeq(SpendsOf(e), 1, Len(o.cur.coin))
      BY <1>4, <2>5, OnChainIs
    <3>2. Len(o.cur.coin) = Len(SpendsOf(e))
      <4>1. Len(SpendsOf(e)) = Count(c, h)
        BY <1>4 DEF Count
      <4> QED BY <1>1, <1>6, <1>11, <2>5, <4>1
    <3>3. SpendsOf(e) \in Seq(Spends)
      BY <1>2, <1>4, SpentStep
    <3>4. SubSeq(SpendsOf(e), 1, Len(SpendsOf(e))) = SpendsOf(e)
      BY <3>3, SubSeqFull
    <3> QED BY <3>1, <3>2, <3>4
  <2>8. OnBlock(st, c, h) = o
    BY <1>7 DEF o
  <2>9. (Unbroken(q, e, lo) \/ Unbroken(q, e, lo2)) /\ o.cur.coin = SpendsOf(e)
    BY <2>5, <2>6, <2>7
  <2> QED BY <2>8, <2>9 DEF Held, q, e, StatesOf
<1> QED BY <1>6, <1>10, <1>11

-----------------------------------------------------------------------------
\* Types.

Record == {NoRecord} \cup {<<c>> : c \in Seq(Blocks)}

TypeOK ==
    /\ chain \in Seq(Blocks) /\ seen \in Seq(Blocks)
    /\ tip \in Nat /\ cursor \in Nat /\ follow \in Nat \ {0}
    /\ recent \in Seq(Entry) /\ followed \in Seq(Entry) /\ record \in Record
    /\ current \in State /\ history \in Seq(State)
    /\ pc \in {"connect", "seed", "record", "handled", "check", "transitions", "follow"}

LEMMA NoStateType == NoState \in State
<1>1. <<"none">> \in Seq(Spends \cup {"none"})
  OBVIOUS
<1> QED BY <1>1 DEF NoState, State, Coin

\* The last element of a sequence.
LEMMA LastIn ==
    ASSUME NEW X, NEW q \in Seq(X), q # <<>>
    PROVE  Last(q) \in X /\ Last(q) = q[Len(q)] /\ Len(q) \in 1 .. Len(q)
<1>1. Len(q) \in Nat \ {0}
  BY EmptySeq
<1>2. Len(q) \in 1 .. Len(q)
  BY <1>1
<1> QED BY <1>2, ElementOfSeq DEF Last

LEMMA ReorgFromType ==
    ASSUME NEW q \in Seq(Entry), NEW h \in Nat, NEW prev, NEW known, known \subseteq DOMAIN q
    PROVE  ReorgFrom(q, h, prev, known) \in Nat \cup {-1}
<1> DEFINE bad == {i \in known : q[i].hash # Hash(q[i].height)}
<1>1. CASE bad # {}
  <2>1. DOMAIN q = 1 .. Len(q) /\ Len(q) \in Nat
    OBVIOUS
  <2>2. bad \subseteq Nat /\ bad \subseteq 1 .. Len(q)
    BY <2>1
  <2>3. Min(bad) \in bad
    <3> HIDE DEF bad
    <3> QED BY <1>1, <2>2, MinIs
  <2>4. q[Min(bad)] \in Entry
    <3> HIDE DEF bad
    <3> QED BY <2>2, <2>3, ElementOfSeq
  <2>5. q[Min(bad)].height \in Nat
    BY <2>4 DEF Entry
  <2> QED BY <2>5 DEF ReorgFrom
<1>2. CASE bad = {}
  BY <1>2 DEF ReorgFrom
<1> QED BY <1>1, <1>2

LEMMA RollbackType ==
    ASSUME TypeOK, NEW from \in Nat, Rollback(from)
    PROVE  /\ current' \in State /\ history' \in Seq(State) /\ recent' \in Seq(Entry) /\ cursor' \in Nat
<1> USE DEF TypeOK
<1>1. history' = Below(history, from) /\ recent' = Below(recent, from)
  BY DEF Rollback, RollbackToBefore
<1>2. history' \in Seq(State) /\ recent' \in Seq(Entry)
  BY <1>1, BelowType
<1>3. current' = IF current.height < from THEN current
                 ELSE IF history' = <<>> THEN NoState ELSE Last(history')
  BY <1>1 DEF Rollback, RollbackToBefore
<1>4. current' \in State
  <2>1. history' # <<>> => Last(history') \in State
    BY <1>2, LastIn
  <2> QED BY <1>3, <2>1, NoStateType
<1>5. cursor' \in Nat
  <2>1. cursor' = IF recent' = <<>> THEN (IF from = 0 THEN 0 ELSE from - 1) ELSE Last(recent').height
    BY DEF Rollback
  <2>2. recent' # <<>> => Last(recent') \in Entry
    BY <1>2, LastIn
  <2>3. recent' # <<>> => Last(recent').height \in Nat
    BY <2>2 DEF Entry
  <2> QED BY <2>1, <2>3
<1> QED BY <1>2, <1>4, <1>5

LEMMA ApplyType ==
    ASSUME TypeOK, NEW h \in 1 .. Len(chain), Apply(h)
    PROVE  /\ current' \in State /\ history' \in Seq(State)
           /\ [cur |-> current', hist |-> history'] = OnBlock([cur |-> current, hist |-> history], chain, h)
<1> DEFINE st == [cur |-> current, hist |-> history]
<1>1. st \in Index /\ chain \in Seq(Blocks)
  BY DEF TypeOK, Index
<1>2. current' = OnBlock(st, chain, h).cur /\ history' = OnBlock(st, chain, h).hist
  BY DEF Apply
<1> HIDE DEF st
<1>3. OnBlock(st, chain, h) \in Index
  BY <1>1, OnBlockIndex
<1> DEFINE o == OnBlock(st, chain, h)
<1>4. o \in Index /\ current' = o.cur /\ history' = o.hist
  BY <1>2, <1>3
<1> HIDE DEF o
<1>5. current' \in State /\ history' \in Seq(State) /\ [cur |-> current', hist |-> history'] = o
  BY <1>4 DEF Index
<1> QED BY <1>5 DEF o, st

LEMMA FirstState == [coin |-> <<>>, height |-> 0] \in State
<1>1. <<>> \in Seq(Spends \cup {"none"})
  OBVIOUS
<1> QED BY <1>1 DEF State, Coin

LEMMA TypeInit == Init => TypeOK
<1> SUFFICES ASSUME Init PROVE TypeOK
  OBVIOUS
<1>1. Start \in Seq(Blocks)
  BY FollowAssumption
<1>2. <<>> \in Seq(State) /\ <<>> \in Seq(Entry) /\ <<>> \in Seq(Blocks)
  OBVIOUS
<1>3. current \in State /\ history \in Seq(State)
  BY <1>2, FirstState DEF Init
<1>4. /\ chain \in Seq(Blocks) /\ seen \in Seq(Blocks) /\ tip \in Nat /\ cursor \in Nat
      /\ recent \in Seq(Entry) /\ followed \in Seq(Entry)
      /\ follow \in Nat \ {0} /\ record \in Record /\ pc = "connect"
  BY <1>1, <1>2 DEF Init, Record
<1> QED BY <1>3, <1>4 DEF TypeOK

LEMMA TypeNext == TypeOK /\ [Next]_vars => TypeOK'
<1> SUFFICES ASSUME TypeOK, [Next]_vars PROVE TypeOK'
  OBVIOUS
<1> USE DEF TypeOK
<1>e. <<>> \in Seq(Entry) /\ <<>> \in Seq(Blocks) /\ NoRecord \in Record /\ Len(chain) \in Nat
  BY DEF Record
<1>h. \A h \in 0 .. Len(chain) : Hash(h) \in Seq(Blocks)
  BY BlockType DEF Hash
<1>a. ASSUME NEW h \in 1 .. Len(chain), Apply(h)
      PROVE  current' \in State /\ history' \in Seq(State)
  <2>1. TypeOK
    OBVIOUS
  <2> HIDE DEF TypeOK
  <2> QED BY <1>a, <2>1, ApplyType
<1>f. ASSUME follow <= tip, follow <= Len(chain)
      PROVE  /\ follow \in 1 .. Len(chain)
             /\ Append(followed, [height |-> follow, hash |-> Hash(follow)]) \in Seq(Entry)
             /\ follow + 1 \in Nat \ {0}
  <2> DEFINE e == [height |-> follow, hash |-> Hash(follow)]
  <2>1. follow \in 0 .. Len(chain) /\ follow \in 1 .. Len(chain) /\ follow + 1 \in Nat \ {0}
    BY <1>e, <1>f
  <2>2. e \in Entry
    <3>1. Hash(follow) \in Seq(Blocks)
      BY <1>h, <2>1
    <3> QED BY <3>1 DEF Entry
  <2> HIDE DEF e
  <2>3. Append(followed, e) \in Seq(Entry)
    BY <2>2, AppendProperties
  <2> QED BY <2>1, <2>3 DEF e
<1>1. CASE Grow
  <2>1. PICK s \in Extensions(chain, 1) : chain' = chain \o s
    BY <1>1 DEF Grow
  <2>2. 1 \in Nat \ {0}
    OBVIOUS
  <2>3. chain' \in Seq(Blocks)
    BY <2>1, <2>2, ExtensionIs DEF Extended
  <2> QED BY <1>1, <2>3 DEF Grow, index
<1>2. CASE Reorg
  <2>1. PICK d \in 1 .. MaxDepth, n \in 1 .. MaxDepth :
           /\ d <= Len(chain)
           /\ \E s \in Extensions(SubSeq(chain, 1, Len(chain) - d), n) :
                 chain' = SubSeq(chain, 1, Len(chain) - d) \o s
    BY <1>2 DEF Reorg
  <2>2. PICK s \in Extensions(SubSeq(chain, 1, Len(chain) - d), n) :
           chain' = SubSeq(chain, 1, Len(chain) - d) \o s
    BY <2>1
  <2> DEFINE b == SubSeq(chain, 1, Len(chain) - d)
             h == Len(chain) - d
  <2>d. MaxDepth \in Nat
    BY FollowAssumption
  <2>3. h \in 0 .. Len(chain) /\ n \in Nat \ {0}
    <3>1. Len(chain) \in Nat /\ d \in Nat /\ d >= 1 /\ n \in Nat /\ n >= 1 /\ d <= Len(chain)
      BY <2>1, <2>d, <1>e
    <3> QED BY <3>1
  <2>4. b \in Seq(Blocks)
    <3> HIDE DEF h
    <3>1. SubSeq(chain, 1, h) \in Seq(Blocks)
      BY <2>3, BlockType
    <3> QED BY <3>1 DEF h
  <2>5. s \in Extensions(b, n) /\ chain' = b \o s
    BY <2>2
  <2> HIDE DEF b, h
  <2>6. chain' \in Seq(Blocks)
    BY <2>3, <2>4, <2>5, ExtensionIs DEF Extended
  <2> QED BY <1>2, <2>6 DEF Reorg, index
<1>3. CASE Peak
  BY <1>3, <1>e DEF Peak, index, count
<1>4. CASE Check
  <2> DEFINE answered == {i \in DOMAIN recent : recent[i].height <= Len(chain)}
             known == {i \in answered : \A j \in 1 .. i : j \in answered}
             from == ReorgFrom(recent, tip, Hash(tip - 1), known)
  <2>1. /\ pc = "check" /\ tip <= Len(chain)
        /\ IF from = -1 THEN UNCHANGED <<index, recent, cursor>> ELSE Rollback(from)
        /\ record' = <<Hash(tip)>> /\ pc' = "transitions" /\ follow' = cursor' + 1
        /\ UNCHANGED <<chain, tip, followed, seen, skipped, trouble, count>>
    BY <1>4 DEF Check
  <2>2. from \in Nat \cup {-1}
    <3>1. known \subseteq DOMAIN recent
      OBVIOUS
    <3> HIDE DEF known
    <3> QED BY <3>1, ReorgFromType
  <2> HIDE DEF from
  <2>3. current' \in State /\ history' \in Seq(State) /\ recent' \in Seq(Entry) /\ cursor' \in Nat
    <3>1. CASE from = -1
      BY <2>1, <3>1 DEF index
    <3>2. CASE from # -1
      <4>1. from \in Nat
        BY <2>2, <3>2
      <4>2. Rollback(from)
        BY <2>1, <3>2
      <4>3. TypeOK
        OBVIOUS
      <4> HIDE DEF TypeOK
      <4> QED BY <4>1, <4>2, <4>3, RollbackType
    <3> QED BY <3>1, <3>2
  <2>4. record' \in Record
    <3>1. tip \in 0 .. Len(chain)
      BY <1>e, <2>1
    <3>2. Hash(tip) \in Seq(Blocks)
      BY <1>h, <3>1
    <3> QED BY <2>1, <3>2 DEF Record
  <2>5. follow' \in Nat \ {0}
    <3>1. follow' = cursor' + 1
      BY <2>1
    <3>2. cursor' \in Nat
      BY <2>3
    <3>3. \A n \in Nat : n + 1 \in Nat \ {0}
      OBVIOUS
    <3> QED BY ONLY <3>1, <3>2, <3>3, Zenon
  <2> QED BY <1>e, <2>1, <2>3, <2>4, <2>5
<1>5. CASE CheckMiss
  <2>1. record' \in Record /\ follow' \in Nat \ {0}
    BY <1>5 DEF CheckMiss, Record
  <2> QED BY <1>5, <1>e, <2>1 DEF CheckMiss, index
<1>6. CASE \E h \in 1 .. Len(chain) : Transition(h)
  <2>1. PICK h \in 1 .. Len(chain) : Transition(h)
    BY <1>6
  <2>2. current' \in State /\ history' \in Seq(State)
    BY <1>a, <2>1 DEF Transition
  <2>3. seen' \in Seq(Blocks)
    <3>1. h \in 0 .. Len(chain)
      BY <1>e
    <3>2. seen' = seen \/ seen' = Hash(h)
      BY <2>1 DEF Transition
    <3> QED BY <1>h, <3>1, <3>2
  <2> QED BY <2>1, <2>2, <2>3 DEF Transition
<1>7. CASE Synced
  BY <1>7 DEF Synced, index
<1>8. CASE Follow
  <2>1. current' \in State /\ history' \in Seq(State)
    BY <1>8, <1>a, <1>f DEF Follow
  <2>2. followed' \in Seq(Entry) /\ follow' \in Nat \ {0}
    BY <1>8, <1>f DEF Follow
  <2> QED BY <1>8, <2>1, <2>2 DEF Follow
<1>9. CASE FollowMiss
  BY <1>9 DEF FollowMiss, index
<1>10. CASE Finish
  <2> DEFINE all == RememberAll(recent, followed)
             e == [height |-> tip, hash |-> record[1]]
             end == IF record = NoRecord \/ (all # <<>> /\ Last(all).height = tip) THEN all
                    ELSE Remember(all, e)
  <2>1. recent' = Trim(end)
    BY <1>10 DEF Finish
  <2>2. all \in Seq(Entry)
    BY RememberAllType
  <2>3. record # NoRecord => e \in Entry
    BY DEF Record, Entry
  <2> HIDE DEF all, e
  <2>4. end \in Seq(Entry)
    BY <2>2, <2>3, RememberType
  <2> HIDE DEF end
  <2>5. recent' \in Seq(Entry)
    BY <2>1, <2>4, TrimType
  <2>6. cursor' \in Nat
    <3>1. cursor' = IF followed = <<>> THEN cursor ELSE Last(followed).height
      BY <1>10 DEF Finish
    <3>2. followed # <<>> => Last(followed) \in Entry
      BY LastIn
    <3>3. followed # <<>> => Last(followed).height \in Nat
      BY <3>2 DEF Entry
    <3> QED BY <3>1, <3>3
  <2> QED BY <1>10, <1>e, <2>5, <2>6 DEF Finish, index
<1>11. CASE FollowError
  <2> DEFINE e == [height |-> tip, hash |-> record[1]]
  <2>1. recent' = IF record = NoRecord \/ (recent # <<>> /\ Last(recent).height = tip) THEN recent
                  ELSE Trim(Remember(recent, e))
    BY <1>11 DEF FollowError
  <2>2. record # NoRecord => e \in Entry
    BY DEF Record, Entry
  <2> HIDE DEF e
  <2>3. record # NoRecord => Remember(recent, e) \in Seq(Entry)
    BY <2>2, RememberType
  <2>4. recent' \in Seq(Entry)
    BY <2>1, <2>3, TrimType
  <2> QED BY <1>11, <1>e, <2>4 DEF FollowError, index
<1>12. CASE Reconnect
  BY <1>12, <1>e DEF Reconnect, index
<1>14. CASE \E h \in 1 .. Len(chain) : Walk(h)
  <2>1. PICK h \in 1 .. Len(chain) : Walk(h)
    BY <1>14
  <2>2. current' \in State /\ history' \in Seq(State)
    BY <1>a, <2>1 DEF Walk
  <2> QED BY <2>1, <2>2 DEF Walk
<1>15. CASE CatchUp
  BY <1>15 DEF CatchUp, index
<1>16. CASE SeedCursor
  BY <1>16, <1>e DEF SeedCursor, index
<1>17. CASE SeedRecord
  <2> DEFINE e == [height |-> cursor, hash |-> Hash(cursor)]
  <2>1. e \in Entry
    <3>1. cursor \in 0 .. Len(chain)
      BY <1>17, <1>e DEF SeedRecord
    <3>2. Hash(cursor) \in Seq(Blocks)
      BY <1>h, <3>1
    <3> QED BY <3>2 DEF Entry
  <2>2. recent' = <<e>>
    BY <1>17 DEF SeedRecord
  <2> HIDE DEF e
  <2>3. recent' \in Seq(Entry)
    BY <2>1, <2>2
  <2> QED BY <1>17, <2>3 DEF SeedRecord, index
<1>18. CASE SeedMiss
  BY <1>18 DEF SeedMiss, index
<1>19. CASE PeakMiss
  BY <1>19 DEF PeakMiss, index
<1>20. CASE FollowFailed
  BY <1>20, <1>f DEF FollowFailed, index
<1>13. CASE UNCHANGED vars
  BY <1>13 DEF vars, index, count
<1> QED BY <1>1, <1>2, <1>3, <1>4, <1>5, <1>6, <1>7, <1>8, <1>9, <1>10, <1>11, <1>12, <1>13,
           <1>14, <1>15, <1>16, <1>17, <1>18, <1>19, <1>20 DEF Next

-----------------------------------------------------------------------------
\* What the listener holds of the chain it followed last.

\* No block of c from a height on spends the singleton twice.
NoTwo(c, from) == \A i \in 1 .. Len(c) : i >= from => Len(c[i].spends) <= 1

\* The window q holds the peaks of the chain `old` from lo to `at`, or none yet.
Remembers(q, old, lo, at, c) ==
    \/ q = Peaks(old, lo, at + 1 - lo)
    \/ q = <<>> /\ lo = at /\ Same(c, old, at)

\* The chain c leaves `old` at lo or above, no block of c that is not on `old`
\* spends the singleton twice, and c drops no block of `old` but with those up
\* to `at`.
Leaves(c, old, lo, at) ==
    /\ lo <= Len(c)
    /\ lo > 0 => SubSeq(c, 1, lo - 1) = SubSeq(old, 1, lo - 1)
    /\ \A i \in 1 .. Len(c) : Same(c, old, i) \/ Len(c[i].spends) <= 1
    /\ ~ Drops(c, old, at)

\* The states go up to the end of the chain `old`, which the listener followed
\* up to `at`; the canonical chain is c.
AtOld(old, lo, at, c, q, states) ==
    /\ old \in Seq(Blocks) /\ lo \in Nat /\ at \in Nat
    /\ lo <= at /\ at <= Len(old) /\ at + 1 - lo <= Window
    /\ Remembers(q, old, lo, at, c)
    /\ UpTo(old, states, lo)
    /\ Leaves(c, old, lo, at)

\* Chains that agree up to a height agree up to every lower one ...
LEMMA SameBelow ==
    ASSUME NEW c \in Seq(Blocks), NEW d \in Seq(Blocks), NEW h \in Nat, Same(c, d, h),
           NEW g \in 0 .. h
    PROVE  Same(c, d, g) /\ SubSeq(c, 1, g) = SubSeq(d, 1, g)
<1>1. h \in 0 .. Len(c) /\ h \in 0 .. Len(d) /\ g \in 0 .. Len(c) /\ g \in 0 .. Len(d) /\ g <= h
  BY BlockType DEF Same
<1>2. SubSeq(SubSeq(c, 1, h), 1, g) = SubSeq(c, 1, g)
  BY <1>1, BlockType
<1>3. SubSeq(SubSeq(d, 1, h), 1, g) = SubSeq(d, 1, g)
  BY <1>1, BlockType
<1>4. SubSeq(c, 1, g) = SubSeq(d, 1, g)
  BY <1>2, <1>3 DEF Same
<1> QED BY <1>1, <1>4 DEF Same

\* Agreement carries over from c to a chain with c's first blocks.
LEMMA SameVia ==
    ASSUME NEW c \in Seq(Blocks), NEW d \in Seq(Blocks), NEW e \in Seq(Blocks),
           NEW b \in Nat, Same(c, d, b), NEW h \in 0 .. b, Same(c, e, h)
    PROVE  Same(d, e, h)
<1>1. Same(c, d, h) /\ h \in Nat
  BY SameBelow
<1> QED BY <1>1 DEF Same

\* ... and on their blocks.
LEMMA SameBlock ==
    ASSUME NEW c \in Seq(Blocks), NEW d \in Seq(Blocks), NEW b \in Nat, Same(c, d, b),
           NEW i \in 1 .. b
    PROVE  c[i] = d[i] /\ i \in 1 .. Len(c) /\ i \in 1 .. Len(d)
<1>1. b \in 0 .. Len(c) /\ b \in 0 .. Len(d) /\ i \in 1 .. Len(c) /\ i \in 1 .. Len(d) /\ i <= b
  BY BlockType DEF Same
<1>2. SubSeq(c, 1, b)[i] = c[i] /\ SubSeq(d, 1, b)[i] = d[i]
  BY <1>1, BlockType
<1> QED BY <1>1, <1>2 DEF Same

\* Blocks are appended to c, or replaced at lo or above.
LEMMA AtOldMoves ==
    ASSUME NEW c \in Seq(Blocks), NEW d \in Seq(Blocks), NEW old, NEW lo, NEW at, NEW q, NEW states,
           AtOld(old, lo, at, c, q, states), NEW b \in Nat, Same(c, d, b), lo <= b + 1, lo <= Len(d),
           NoTwo(d, b + 1), ~ Drops(d, old, at), q = <<>> => at <= b
    PROVE  AtOld(old, lo, at, d, q, states)
<1>1. /\ old \in Seq(Blocks) /\ lo \in Nat /\ at \in Nat /\ Len(old) \in Nat /\ lo <= Len(c)
      /\ lo > 0 => SubSeq(c, 1, lo - 1) = SubSeq(old, 1, lo - 1)
      /\ \A i \in 1 .. Len(c) : Same(c, old, i) \/ Len(c[i].spends) <= 1
  BY BlockType DEF AtOld, Leaves
<1>2. lo > 0 => SubSeq(d, 1, lo - 1) = SubSeq(old, 1, lo - 1)
  <2> SUFFICES ASSUME lo > 0 PROVE SubSeq(d, 1, lo - 1) = SubSeq(old, 1, lo - 1)
    OBVIOUS
  <2>1. lo - 1 \in 0 .. b
    BY <1>1
  <2>2. SubSeq(c, 1, lo - 1) = SubSeq(d, 1, lo - 1)
    BY <2>1, SameBelow
  <2> QED BY <1>1, <2>2
<1>3. ASSUME NEW i \in 1 .. Len(d) PROVE Same(d, old, i) \/ Len(d[i].spends) <= 1
  <2>1. CASE i <= b
    <3>1. i \in 1 .. b /\ i \in 0 .. b
      BY <2>1
    <3>2. c[i] = d[i] /\ i \in 1 .. Len(c)
      BY <3>1, SameBlock
    <3>3. CASE Same(c, old, i)
      <4>1. Same(d, old, i)
        BY <1>1, <3>1, <3>3, SameVia
      <4> QED BY <4>1
    <3> QED BY <1>1, <3>2, <3>3
  <2>2. CASE ~ (i <= b)
    BY <2>2 DEF NoTwo
  <2> QED BY <2>1, <2>2
<1>4. Leaves(d, old, lo, at)
  BY <1>2, <1>3 DEF Leaves
<1>5. Remembers(q, old, lo, at, d)
  <2>1. Remembers(q, old, lo, at, c)
    BY DEF AtOld
  <2>2. CASE q = <<>> /\ lo = at /\ Same(c, old, at)
    <3>1. at \in 0 .. b
      BY <1>1, <2>2
    <3>2. Same(d, old, at)
      BY <1>1, <2>2, <3>1, SameVia
    <3> QED BY <2>2, <3>2 DEF Remembers
  <2> QED BY <2>1, <2>2 DEF Remembers
<1> QED BY <1>4, <1>5 DEF AtOld

\* Blocks that are appended drop none.
LEMMA DropsNone ==
    ASSUME NEW c \in Seq(Blocks), NEW d \in Seq(Blocks), NEW old \in Seq(Blocks), NEW at \in Nat,
           Same(c, d, Len(c)), ~ Drops(c, old, at), at <= Len(old)
    PROVE  ~ Drops(d, old, at)
<1> SUFFICES ASSUME Drops(d, old, at) PROVE FALSE
  OBVIOUS
<1>1. Len(c) \in Nat /\ Len(d) \in Nat /\ Len(old) \in Nat /\ Len(c) <= Len(d)
  BY BlockType DEF Same
<1>2. ASSUME NEW h \in Nat, h <= Len(c) PROVE Same(c, old, h) <=> Same(d, old, h)
  <2>1. h \in 0 .. Len(c) /\ Same(c, d, h)
    BY <1>1, <1>2, SameBelow
  <2> QED BY <2>1 DEF Same
<1>3. Len(old) > at /\ ~ Same(d, old, Len(old))
  BY DEF Drops
<1>4. ~ Same(c, old, Len(old))
  <2>1. CASE Len(old) <= Len(c)
    BY <1>1, <1>2, <1>3, <2>1
  <2>2. CASE ~ (Len(old) <= Len(c))
    BY <2>2 DEF Same
  <2> QED BY <2>1, <2>2
<1>5. ~ Same(c, old, at) /\ ~ (Len(c) < at /\ Same(c, old, Len(c)))
  BY <1>3, <1>4 DEF Drops
<1>6. ASSUME NEW h \in Nat, Same(d, old, h), Len(c) <= h PROVE Same(c, old, Len(c))
  <2>1. Len(c) \in 0 .. h
    BY <1>1, <1>6
  <2>2. Same(d, old, Len(c))
    BY <1>6, <2>1, SameBelow
  <2> QED BY <1>1, <1>2, <2>2
<1>7. CASE Same(d, old, at)
  <2>1. ~ (at <= Len(c))
    BY <1>2, <1>5, <1>7
  <2>2. Len(c) < at /\ Len(c) <= at
    BY <1>1, <2>1
  <2> QED BY <1>5, <1>6, <1>7, <2>2
<1>8. CASE Len(d) < at /\ Same(d, old, Len(d))
  <2>1. Len(c) < at /\ Len(c) <= Len(d)
    BY <1>1, <1>8
  <2>2. Same(c, old, Len(c))
    BY <1>1, <1>6, <1>8, <2>1
  <2> QED BY <1>5, <2>1, <2>2
<1> QED BY <1>7, <1>8 DEF Drops

\* A chain without a fork above `at` goes on along `old`.
LEMMA SameOn ==
    ASSUME NEW c, NEW old \in Seq(Blocks), NEW at \in Nat, at <= Len(old),
           ~ Drops(c, old, at), Same(c, old, at)
    PROVE  Same(c, old, Len(old))
<1>1. Len(old) \in Nat
  BY BlockType
<1>2. CASE Len(old) > at
  BY <1>2 DEF Drops
<1>3. CASE ~ (Len(old) > at)
  <2>1. Len(old) = at
    BY <1>1, <1>3
  <2> QED BY <2>1
<1> QED BY <1>2, <1>3

\* A chain is at rest with itself.
LEMMA LeavesSelf ==
    ASSUME NEW c \in Seq(Blocks), NEW lo \in Nat, NEW at \in Nat, lo <= Len(c)
    PROVE  Leaves(c, c, lo, at) /\ \A h \in 0 .. Len(c) : Same(c, c, h)
<1>1. Len(c) \in Nat /\ \A h \in 0 .. Len(c) : Same(c, c, h)
  BY BlockType DEF Same
<1>2. Same(c, c, Len(c)) /\ \A i \in 1 .. Len(c) : Same(c, c, i)
  BY <1>1
<1>3. ~ Drops(c, c, at)
  BY <1>2 DEF Drops
<1> QED BY <1>1, <1>2, <1>3 DEF Leaves

\* The height to follow from is read: no block since the catch-up spends the
\* singleton, and no peak is remembered yet.
LEMMA SeedAt ==
    ASSUME NEW c \in Seq(Blocks), NEW d \in Seq(Blocks), NEW states \in Seq(State), states # <<>>,
           UpTo(d, states, Len(d)), Same(c, d, Len(d)), SpendsOf(c) = SpendsOf(d)
    PROVE  AtOld(c, Len(c), Len(c), c, <<>>, states)
<1>1. /\ Len(c) \in Nat /\ Len(d) \in Nat /\ Len(d) <= Len(c) /\ Len(c) <= Len(c)
      /\ SubSeq(d, 1, Len(d)) = SubSeq(c, 1, Len(d)) /\ Len(d) <= Len(d)
  BY BlockType DEF Same
<1>2. Unbroken(states, d, Len(d)) /\ Last(states).coin = SpendsOf(c)
  BY DEF UpTo
<1>3. \A i \in 1 .. Len(states) : states[i].height <= Len(d)
  <2>1. \A i \in 1 .. Len(states) : OnChain(states[i], d)
    BY <1>2, UnbrokenIs
  <2> QED BY <2>1 DEF OnChain
<1> DEFINE l == Len(d)
           L == Len(c)
<1>4. Unbroken(states, d, l) /\ l \in Nat /\ L \in Nat /\ l \in Int /\ L \in Int /\ l <= L /\ L <= L
      /\ L + 1 - L = 1 /\ L = Len(c)
  BY <1>1, <1>2
<1>5. Unbroken(states, c, l)
  <2>1. l <= Len(d) /\ l <= Len(c) /\ SubSeq(d, 1, l) = SubSeq(c, 1, l) /\ \A i \in 1 .. Len(states) : states[i].height <= l
    BY <1>1, <1>3
  <2> HIDE DEF l
  <2> QED BY <1>4, <2>1, UnbrokenOn
<1>6. L \in 0 .. Len(c)
  BY <1>1
<1> HIDE DEF l, L
<1>7. Unbroken(states, c, L)
  BY <1>4, <1>5, UnbrokenLow
<1>8. UpTo(c, states, L)
  BY <1>2, <1>7 DEF UpTo
<1>9. Leaves(c, c, L, L) /\ Same(c, c, L)
  BY <1>4, <1>6, LeavesSelf
<1>10. Remembers(<<>>, c, L, L, c)
  BY <1>9 DEF Remembers
<1>11. 1 <= Window
  BY FollowAssumption
<1>12. AtOld(c, L, L, c, <<>>, states)
  BY <1>4, <1>8, <1>9, <1>10, <1>11 DEF AtOld
<1> QED BY <1>12 DEF L

\* What a rollback to `from` leaves.
LeftBy(from, old, lo, q, hist, cur) ==
    /\ SubSeq(old, 1, from - 1) \in Seq(Blocks) /\ Len(SubSeq(old, 1, from - 1)) = from - 1
    /\ Below(hist, from) \in Seq(State) /\ RolledTo(hist, cur, from) \in State
    /\ UpTo(SubSeq(old, 1, from - 1), Append(Below(hist, from), RolledTo(hist, cur, from)), lo)
    /\ Below(q, from) = Peaks(SubSeq(old, 1, from - 1), lo, from - lo)
    /\ from - lo \in Nat /\ from - lo <= Window
    /\ from = lo => Below(q, from) = <<>>
    /\ from # lo => Below(q, from) # <<>> /\ Last(Below(q, from)).height = from - 1

\* After the rollback of reorg_rollback_from the window and the states are those
\* of the old chain below the fork.
LEMMA RolledBack ==
    ASSUME NEW c \in Seq(Blocks), NEW old \in Seq(Blocks), NEW lo \in Nat, NEW q,
           NEW hist \in Seq(State), NEW cur \in State, NEW at \in Nat,
           AtOld(old, lo, at, c, q, Append(hist, cur)), q # <<>>, NEW from \in 1 .. at + 1, lo <= from
    PROVE  LeftBy(from, old, lo, q, hist, cur)
<1> DEFINE g == from - 1
           d == SubSeq(old, 1, g)
           k == from - lo
           n == at + 1 - lo
<1>1. /\ old \in Seq(Blocks) /\ lo \in Nat /\ lo <= at /\ at <= Len(old) /\ n <= Window
      /\ q = Peaks(old, lo, n) /\ UpTo(old, Append(hist, cur), lo)
  BY DEF AtOld, Remembers
<1>2. Len(old) \in Nat
  BY <1>1, BlockType
<1>w. Window \in Nat
  BY FollowAssumption
<1>3. /\ g \in 0 .. Len(old) /\ g \in Nat /\ from \in 1 .. Len(old) + 1 /\ lo <= from /\ lo \in Int
      /\ k \in 0 .. n /\ n \in Nat /\ k \in Nat /\ lo + k = from /\ k <= Window /\ lo + n <= Len(old) + 1
      /\ lo + k <= g + 1
  BY <1>1, <1>2, <1>w
<1>4. d \in Seq(Blocks) /\ Len(d) = g /\ SubSeq(d, 1, g) = d
  BY <1>1, <1>3, BlockType
<1>5. /\ Below(hist, from) \in Seq(State) /\ RolledTo(hist, cur, from) \in State
      /\ UpTo(d, Append(Below(hist, from), RolledTo(hist, cur, from)), lo)
  BY <1>1, <1>3, RollbackGood
<1> HIDE DEF k, n
<1>6. Below(q, from) = Peaks(d, lo, k)
  <2>1. Below(Peaks(old, lo, n), lo + k) = Peaks(old, lo, k)
    BY <1>1, <1>3, PeaksBelow
  <2>2. SubSeq(old, 1, g) = SubSeq(d, 1, g) /\ g <= Len(old) /\ g <= Len(d)
    BY <1>3, <1>4
  <2> HIDE DEF d, g
  <2>3. lo \in Nat /\ k \in Nat /\ g \in Nat /\ lo + k <= g + 1 /\ old \in Seq(Blocks) /\ d \in Seq(Blocks)
    BY <1>1, <1>3, <1>4
  <2>4. Peaks(old, lo, k) = Peaks(d, lo, k)
    BY <2>2, <2>3, PeaksOn
  <2> QED BY <1>1, <1>3, <2>1, <2>4
<1>7. from = lo => Below(q, from) = <<>>
  <2> SUFFICES ASSUME from = lo PROVE Below(q, from) = <<>>
    OBVIOUS
  <2>1. k = 0
    BY <1>1 DEF k
  <2> QED BY <1>6, <2>1, PeaksEmpty
<1>8. from # lo => Below(q, from) # <<>> /\ Last(Below(q, from)).height = from - 1
  <2> SUFFICES ASSUME from # lo PROVE Below(q, from) # <<>> /\ Last(Below(q, from)).height = from - 1
    OBVIOUS
  <2>1. k \in Nat \ {0} /\ lo + k - 1 = from - 1 /\ lo + k <= Len(d) + 1
    BY <1>1, <1>3, <1>4 DEF k
  <2> HIDE DEF d, g
  <2>2. Peaks(d, lo, k) # <<>> /\ Last(Peaks(d, lo, k)).height = lo + k - 1
    BY <1>1, <1>4, <2>1, PeaksLast
  <2> QED BY <1>6, <2>1, <2>2
<1> QED BY <1>1, <1>3, <1>4, <1>5, <1>6, <1>7, <1>8 DEF k, d, g, LeftBy

\* A rollback to below a lower peak keeps the chain up to that peak.
LEMMA CutBack ==
    ASSUME NEW c \in Seq(Blocks), NEW old \in Seq(Blocks), NEW lo \in Nat, NEW q, NEW hist \in Seq(State), NEW cur \in State,
           NEW at \in Nat, AtOld(old, lo, at, c, q, Append(hist, cur)), q # <<>>,
           NEW t \in Nat, t < at, lo <= t, t <= Len(c), NoTwo(c, t + 1)
    PROVE  /\ SubSeq(old, 1, t) \in Seq(Blocks) /\ Len(SubSeq(old, 1, t)) = t
           /\ Below(q, t + 1) # <<>> /\ Last(Below(q, t + 1)).height = t
           /\ AtOld(SubSeq(old, 1, t), lo, t, c, Below(q, t + 1),
                    Append(Below(hist, t + 1), RolledTo(hist, cur, t + 1)))
<1> DEFINE d == SubSeq(old, 1, t)
<1>1. /\ old \in Seq(Blocks) /\ lo \in Nat /\ lo <= Len(c) /\ at <= Len(old)
      /\ lo > 0 => SubSeq(c, 1, lo - 1) = SubSeq(old, 1, lo - 1)
      /\ \A i \in 1 .. Len(c) : Same(c, old, i) \/ Len(c[i].spends) <= 1
  BY DEF AtOld, Leaves
<1>n. Len(old) \in Nat /\ t + 1 \in 1 .. at + 1
  BY BlockType
<1>p. PICK from \in 1 .. at + 1 : from = t + 1
  BY <1>n
<1>2. Len(old) \in Nat /\ from \in 1 .. at + 1 /\ t <= Len(old) /\ lo <= from /\ from - 1 = t /\ from # lo
  BY <1>1, <1>n, <1>p
<1>3. /\ d \in Seq(Blocks) /\ Len(d) = t
      /\ UpTo(d, Append(Below(hist, from), RolledTo(hist, cur, from)), lo)
      /\ Below(q, from) = Peaks(d, lo, from - lo) /\ from - lo <= Window
      /\ Below(q, from) # <<>> /\ Last(Below(q, from)).height = t
  <2> DEFINE f == SubSeq(old, 1, from - 1)
  <2>3. /\ SubSeq(old, 1, from - 1) \in Seq(Blocks) /\ Len(SubSeq(old, 1, from - 1)) = from - 1
        /\ UpTo(SubSeq(old, 1, from - 1), Append(Below(hist, from), RolledTo(hist, cur, from)), lo)
        /\ Below(q, from) = Peaks(SubSeq(old, 1, from - 1), lo, from - lo) /\ from - lo <= Window
        /\ from # lo => Below(q, from) # <<>> /\ Last(Below(q, from)).height = from - 1
    <3>1. LeftBy(from, old, lo, q, hist, cur)
      BY <1>2, RolledBack
    <3> HIDE DEF f, d
    <3> QED BY <3>1 DEF LeftBy
  <2>1. /\ f \in Seq(Blocks) /\ Len(f) = from - 1
        /\ UpTo(f, Append(Below(hist, from), RolledTo(hist, cur, from)), lo)
        /\ Below(q, from) = Peaks(f, lo, from - lo) /\ from - lo <= Window
        /\ Below(q, from) # <<>> /\ Last(Below(q, from)).height = from - 1
    BY <1>2, <2>3
  <2>2. f = d
    BY <1>2
  <2> HIDE DEF f, d
  <2> QED BY <1>2, <2>1, <2>2
<1>4. Same(old, d, t)
  <2>1. t \in 0 .. Len(old)
    BY <1>2
  <2>2. SubSeq(d, 1, t) = d
    BY <1>3, BlockType
  <2> QED BY <1>2, <1>3, <2>1, <2>2 DEF Same
<1>5. lo > 0 => SubSeq(c, 1, lo - 1) = SubSeq(d, 1, lo - 1)
  <2> SUFFICES ASSUME lo > 0 PROVE SubSeq(c, 1, lo - 1) = SubSeq(d, 1, lo - 1)
    OBVIOUS
  <2>1. lo - 1 \in 0 .. t
    BY <1>1
  <2> HIDE DEF d
  <2>2. SubSeq(old, 1, lo - 1) = SubSeq(d, 1, lo - 1)
    BY <1>1, <1>3, <1>4, <2>1, SameBelow
  <2> QED BY <1>1, <2>2
<1>6. ASSUME NEW i \in 1 .. Len(c) PROVE Same(c, d, i) \/ Len(c[i].spends) <= 1
  <2>1. CASE i <= t /\ Same(c, old, i)
    <3>1. i \in 0 .. t /\ i \in Nat
      BY <2>1
    <3>2. Same(old, c, i)
      BY <2>1 DEF Same
    <3> HIDE DEF d
    <3>3. Same(d, c, i)
      BY <1>1, <1>3, <1>4, <3>1, <3>2, SameVia
    <3> QED BY <3>3 DEF Same
  <2>2. CASE i <= t /\ ~ Same(c, old, i)
    BY <1>1, <2>2
  <2>3. CASE ~ (i <= t)
    BY <2>3 DEF NoTwo
  <2> QED BY <2>1, <2>2, <2>3
<1>7. t + 1 - lo = from - lo /\ lo <= t /\ t <= Len(d) /\ ~ (Len(d) > t)
  BY <1>1, <1>3, <1>p
<1> HIDE DEF d
<1>9. Leaves(c, d, lo, t)
  BY <1>1, <1>5, <1>6, <1>7 DEF Leaves, Drops
<1>10. Remembers(Below(q, from), d, lo, t, c)
  BY <1>3, <1>7 DEF Remembers
<1>8. AtOld(d, lo, t, c, Below(q, from), Append(Below(hist, from), RolledTo(hist, cur, from)))
  BY <1>1, <1>3, <1>7, <1>9, <1>10 DEF AtOld
<1> QED BY <1>3, <1>8, <1>p DEF d

\* The blocks of c above `at` are to be followed up to a peak at height t: the
\* window is that of c up to `at`, the states those of c up to m, from below a
\* height `low` on, or from below the window that will be remembered.
ToFollow(c, t, q, at, cur, hist, lo, n, m, low) ==
    /\ lo \in Nat /\ n \in Nat /\ m \in Nat /\ low \in Nat /\ at <= m /\ m <= t
    /\ lo + n = at + 1 /\ n <= Window /\ low <= lo /\ low <= t
    /\ q = Peaks(c, lo, n)
    /\ NoTwo(c, m + 1)
    /\ Held(c, m, [cur |-> cur, hist |-> hist], low, t - Window + 1)

\* No block above a height where two chains differ is on both.
LEMMA NoTwoFrom ==
    ASSUME NEW c \in Seq(Blocks), NEW old \in Seq(Blocks), NEW lo, NEW at,
           Leaves(c, old, lo, at), NEW h \in Nat, ~ Same(c, old, h)
    PROVE  NoTwo(c, h)
<1>1. \A i \in 1 .. Len(c) : Same(c, old, i) \/ Len(c[i].spends) <= 1
  BY DEF Leaves
<1>2. ASSUME NEW i \in 1 .. Len(c), i >= h PROVE Len(c[i].spends) <= 1
  <2>1. ~ Same(c, old, i)
    <3> SUFFICES ASSUME Same(c, old, i) PROVE FALSE
      OBVIOUS
    <3>1. i \in Nat /\ h \in 0 .. i
      BY <1>2
    <3> QED BY <3>1, SameBelow
  <2> QED BY <1>1, <2>1
<1> QED BY <1>2 DEF NoTwo

\* The states of `old` up to a height where c agrees with it are held of c.
LEMMA HeldOf ==
    ASSUME NEW c \in Seq(Blocks), NEW d \in Seq(Blocks), NEW hist \in Seq(State), NEW cur \in State,
           NEW low, NEW lo2, UpTo(d, Append(hist, cur), low), NEW m, SubSeq(c, 1, m) = d
    PROVE  Held(c, m, [cur |-> cur, hist |-> hist], low, lo2)
<1> DEFINE st == [cur |-> cur, hist |-> hist]
<1>1. StatesOf(st) = Append(hist, cur) /\ Last(Append(hist, cur)) = cur /\ st.cur = cur
  BY AppendIs DEF StatesOf
<1> HIDE DEF st
<1>2. Unbroken(StatesOf(st), d, low) /\ st.cur.coin = SpendsOf(d)
  BY <1>1 DEF UpTo
<1>3. Held(c, m, st, low, lo2)
  BY <1>2 DEF Held
<1> QED BY <1>3 DEF st

\* The new peak is on the chain followed last, or still on the part of it up to
\* the cursor.
LEMMA NoFork ==
    ASSUME NEW c \in Seq(Blocks), NEW old \in Seq(Blocks), NEW lo \in Nat, NEW at \in Nat, NEW q,
           NEW hist \in Seq(State), NEW cur \in State,
           AtOld(old, lo, at, c, q, Append(hist, cur)), NEW t \in Nat, Len(old) <= t, t <= Len(c),
           Same(c, old, at)
    PROVE  \E l \in Nat, n \in Nat : ToFollow(c, t, q, at, cur, hist, l, n, Len(old), lo)
<1> DEFINE m == Len(old)
           n == at + 1 - lo
<1>1. /\ lo <= at /\ n <= Window /\ UpTo(old, Append(hist, cur), lo) /\ at <= m
      /\ Remembers(q, old, lo, at, c) /\ Leaves(c, old, lo, at) /\ ~ Drops(c, old, at)
  BY DEF AtOld, Leaves
<1>2. m \in Nat /\ SubSeq(old, 1, m) = old
  BY BlockType
<1>3. n \in Nat /\ lo + n = at + 1 /\ n # 0 /\ lo + n <= at + 1 /\ lo <= t
  BY <1>1, <1>2
<1>4. Same(c, old, m)
  BY <1>1, SameOn
<1>5. NoTwo(c, m + 1)
  <2>1. ~ Same(c, old, m + 1)
    BY <1>2 DEF Same
  <2>2. m + 1 \in Nat
    BY <1>2
  <2> HIDE DEF m
  <2> QED BY <1>1, <2>1, <2>2, NoTwoFrom
<1>6. SubSeq(c, 1, m) = old
  BY <1>2, <1>4 DEF Same
<1> HIDE DEF m, n
<1>7. Held(c, m, [cur |-> cur, hist |-> hist], lo, t - Window + 1)
  BY <1>1, <1>6, HeldOf
<1>8. m <= t
  BY DEF m
<1>9. CASE q = Peaks(old, lo, n)
  <2>1. at <= Len(old) /\ at <= Len(c) /\ SubSeq(old, 1, at) = SubSeq(c, 1, at)
    BY DEF Same
  <2>2. Peaks(old, lo, n) = Peaks(c, lo, n)
    BY <1>3, <2>1, PeaksOn
  <2>3. lo <= lo
    OBVIOUS
  <2>4. ToFollow(c, t, q, at, cur, hist, lo, n, m, lo)
    BY <1>1, <1>2, <1>3, <1>5, <1>7, <1>8, <1>9, <2>2, <2>3 DEF ToFollow
  <2> QED BY <1>3, <2>4 DEF m
<1>10. CASE q = <<>> /\ lo = at
  <2> DEFINE l == at + 1
  <2>1. l \in Nat /\ l + 0 = at + 1 /\ lo <= l /\ 0 \in Nat
    BY <1>10
  <2>2. 0 <= Window
    BY FollowAssumption
  <2>3. q = Peaks(c, l, 0)
    BY <1>10, PeaksEmpty
  <2> HIDE DEF l
  <2>4. ToFollow(c, t, q, at, cur, hist, l, 0, m, lo)
    BY <1>1, <1>2, <1>3, <1>5, <1>7, <1>8, <2>1, <2>2, <2>3 DEF ToFollow
  <2> QED BY <2>1, <2>4 DEF m
<1> QED BY <1>1, <1>9, <1>10 DEF Remembers, n

\* The new peak is on a chain that leaves the one followed last at the b-th
\* remembered height.
LEMMA ForkBack ==
    ASSUME NEW c \in Seq(Blocks), NEW old \in Seq(Blocks), NEW lo \in Nat, NEW at \in Nat, NEW q,
           NEW hist \in Seq(State), NEW cur \in State,
           AtOld(old, lo, at, c, q, Append(hist, cur)), q # <<>>,
           NEW t \in Nat, at <= t, t <= Len(c),
           NEW from \in lo .. at,
           ~ Same(c, old, from), from > lo => Same(c, old, from - 1)
    PROVE  /\ from >= 1 /\ LeftBy(from, old, lo, q, hist, cur)
           /\ ToFollow(c, t, Below(q, from), from - 1, RolledTo(hist, cur, from),
                           Below(hist, from), lo, from - lo, from - 1, lo)
<1>1. /\ lo <= Len(c) /\ (lo > 0 => SubSeq(c, 1, lo - 1) = SubSeq(old, 1, lo - 1))
      /\ Len(old) \in Nat /\ Len(c) \in Nat /\ lo <= at /\ at <= Len(old) /\ Leaves(c, old, lo, at)
  BY BlockType DEF AtOld, Leaves
<1>2. from \in Nat /\ from >= 1
  <2> SUFFICES ASSUME from = 0 PROVE FALSE
    BY <1>1
  <2>1. SubSeq(c, 1, 0) = <<>> /\ SubSeq(old, 1, 0) = <<>>
    OBVIOUS
  <2>2. Same(c, old, 0)
    BY <1>1, <2>1 DEF Same
  <2> QED BY <2>2
<1>3. Same(c, old, from - 1)
  <2>1. CASE from = lo
    BY <1>1, <1>2, <2>1 DEF Same
  <2>2. CASE from # lo
    BY <1>1, <2>2
  <2> QED BY <2>1, <2>2
<1>4. PICK f \in 1 .. at + 1 : f = from
  BY <1>1, <1>2
<1>5. LeftBy(from, old, lo, q, hist, cur)
  <2>1. lo <= f
    BY <1>4, <1>1
  <2>2. LeftBy(f, old, lo, q, hist, cur)
    BY <2>1, RolledBack
  <2> QED BY <1>4, <2>2
<1> DEFINE g == from - 1
           d == SubSeq(old, 1, g)
           n == from - lo
           B == Below(hist, from)
           r == RolledTo(hist, cur, from)
<1>6. /\ d \in Seq(Blocks) /\ Len(d) = g /\ B \in Seq(State) /\ r \in State
      /\ UpTo(d, Append(B, r), lo)
      /\ Below(q, from) = Peaks(d, lo, n) /\ n \in Nat /\ n <= Window
  BY <1>5 DEF LeftBy
<1>7. g \in Nat /\ g <= t /\ g <= g /\ lo + n = g + 1 /\ lo + n <= g + 1 /\ lo <= t /\ lo <= lo
  BY <1>1, <1>2
<1>8. SubSeq(c, 1, g) = d /\ g <= Len(c) /\ Same(c, old, g)
  BY <1>3 DEF Same
<1>9. SubSeq(d, 1, g) = d
  BY <1>6, BlockType
<1>10. NoTwo(c, g + 1)
  <2>1. g + 1 = from
    BY <1>2
  <2> HIDE DEF g
  <2> QED BY <1>1, <1>2, <2>1, NoTwoFrom
<1> HIDE DEF g, d, n, B, r
<1>11. Below(q, from) = Peaks(c, lo, n)
  <2>1. g <= Len(d) /\ g <= Len(c) /\ SubSeq(d, 1, g) = SubSeq(c, 1, g)
    BY <1>6, <1>7, <1>8, <1>9
  <2>3. n \in Nat /\ g \in Nat /\ lo + n <= g + 1 /\ d \in Seq(Blocks)
    BY <1>6, <1>7
  <2>2. Peaks(d, lo, n) = Peaks(c, lo, n)
    BY <2>1, <2>3, PeaksOn
  <2> QED BY <1>6, <2>2
<1>12. Held(c, g, [cur |-> r, hist |-> B], lo, t - Window + 1)
  BY <1>6, <1>8, HeldOf
<1>13. ToFollow(c, t, Below(q, from), g, r, B, lo, n, g, lo)
  BY <1>6, <1>7, <1>10, <1>11, <1>12 DEF ToFollow
<1> QED BY <1>2, <1>5, <1>13 DEF g, r, B, n

-----------------------------------------------------------------------------
\* The inductive invariant.

Clean == trouble # "lost"
Rewinds == trouble = "rewind"
States == Append(history, current)

\* The listener holds what it had when it followed the chain `old` last.
Rest(old, lo) == AtOld(old, lo, cursor, chain, recent, States)

\* While a peak is handled its chain is the canonical one's lower part, and so
\* are the blocks above it that a registry's spend has taken.
Handling ==
    /\ tip <= Len(seen) /\ Len(seen) <= Len(chain)
    /\ seen = SubSeq(chain, 1, Len(seen))
    /\ NoTwo(chain, tip + 1)

\* The blocks below `follow` have been followed; the states are those up to
\* height m, from below `low` on, or from below the window the peak will leave.
Walking(lo, n, m, low) ==
    /\ lo \in Nat /\ n \in Nat /\ m \in Nat /\ low \in Nat
    /\ lo + n = cursor + 1 /\ n <= Window /\ low <= lo /\ low <= tip
    /\ recent = Peaks(chain, lo, n)
    /\ cursor < follow /\ follow <= tip + 1
    /\ followed = Peaks(chain, cursor + 1, follow - 1 - cursor)
    /\ NoTwo(chain, m + 1)
    /\ follow - 1 <= m /\ m <= Len(seen) /\ (Len(seen) > tip => m = Len(seen))
    /\ Held(chain, m, [cur |-> current, hist |-> history], low, tip - Window + 1)

\* The catch-up has ended on the chain `seen`.
Seeding ==
    /\ UpTo(seen, States, Len(seen))
    /\ Same(chain, seen, Len(seen)) /\ NoTwo(chain, Len(seen) + 1)
    /\ ~ Rewinds

AtRest == \E old, lo : Rest(old, lo) /\ IF Rewinds THEN Len(old) = cursor ELSE seen = old /\ tip = cursor
InCheck ==
    /\ Handling /\ Len(seen) = tip /\ (Rewinds => recent # <<>>)
    /\ \E old, lo : /\ Rest(old, lo) /\ lo <= tip /\ (Rewinds <=> tip < cursor)
                    /\ ~ Rewinds /\ Same(chain, old, cursor) => Len(old) <= tip
InRewind ==
    /\ Handling /\ record = <<SubSeq(seen, 1, tip)>> /\ recent # <<>>
    /\ cursor = tip /\ follow = tip + 1 /\ followed = <<>>
    /\ \E old, lo : Rest(old, lo) /\ Len(old) = cursor
InWalk ==
    /\ Handling /\ record = <<SubSeq(seen, 1, tip)>>
    /\ \E lo, n, m, low : Walking(lo, n, m, low)

\* Before the first peak there is no window, and between peaks nothing followed.
Idle ==
    /\ pc \in {"connect", "seed", "record"} => recent = <<>>
    /\ pc # "follow" => followed = <<>>

Inv ==
    /\ Legal(chain)
    /\ Idle
    /\ Clean => pc # "connect"
    /\ Clean /\ pc = "seed" => Seeding
    /\ Clean /\ pc = "record" => AtRest /\ ~ Rewinds
    /\ Clean /\ pc = "handled" => AtRest
    /\ Clean /\ pc = "check" => InCheck
    /\ Clean /\ pc \in {"transitions", "follow"} /\ Rewinds => InRewind
    /\ Clean /\ pc \in {"transitions", "follow"} /\ ~ Rewinds => InWalk

\* What the listener holds at rest, unfolded.
LEMMA RestIs ==
    ASSUME TypeOK, NEW old, NEW lo, Rest(old, lo)
    PROVE  /\ old \in Seq(Blocks) /\ lo \in Nat /\ lo <= cursor /\ cursor <= Len(old)
           /\ Len(old) \in Nat /\ cursor \in Nat
           /\ lo <= Len(chain) /\ ~ Drops(chain, old, cursor)
           /\ recent = <<>> => lo = cursor /\ Same(chain, old, cursor)
           /\ recent # <<>> =>
                 /\ Last(recent).height = cursor /\ recent[1].height = lo
                 /\ Last(recent).hash = SubSeq(old, 1, cursor)
                 /\ Len(recent) = cursor + 1 - lo
                 /\ \A i \in 1 .. cursor + 1 - lo :
                       recent[i].height = lo - 1 + i /\ recent[i].hash = SubSeq(old, 1, lo - 1 + i)
<1> DEFINE n == cursor + 1 - lo
<1>1. /\ old \in Seq(Blocks) /\ lo \in Nat /\ lo <= cursor /\ cursor <= Len(old) /\ cursor \in Nat
      /\ Remembers(recent, old, lo, cursor, chain)
      /\ lo <= Len(chain) /\ ~ Drops(chain, old, cursor)
  BY DEF Rest, AtOld, Leaves
<1>2. Len(old) \in Nat
  BY <1>1, BlockType
<1>3. /\ n \in Nat \ {0} /\ n \in Nat /\ lo + n <= Len(old) + 1 /\ lo + n - 1 = cursor /\ 1 \in 1 .. n
      /\ lo - 1 + 1 = lo /\ n = cursor + 1 - lo
  BY <1>1, <1>2
<1>p. recent = Peaks(old, lo, n) \/ (recent = <<>> /\ lo = cursor /\ Same(chain, old, cursor))
  BY <1>1 DEF Remembers
<1> HIDE DEF n
<1>4. Peaks(old, lo, n) # <<>> /\ Last(Peaks(old, lo, n)).height = lo + n - 1
      /\ Last(Peaks(old, lo, n)).hash = SubSeq(old, 1, lo + n - 1)
  BY <1>1, <1>3, PeaksLast
<1>5. ASSUME recent # <<>>
      PROVE  /\ Last(recent).height = cursor /\ recent[1].height = lo
             /\ Last(recent).hash = SubSeq(old, 1, cursor) /\ Len(recent) = n
             /\ \A i \in 1 .. n : recent[i].height = lo - 1 + i /\ recent[i].hash = SubSeq(old, 1, lo - 1 + i)
  <2>1. recent = Peaks(old, lo, n)
    BY <1>5, <1>p
  <2>2. Len(recent) = n
    <3>1. Len(Peaks(old, lo, n)) = n
      BY <1>1, <1>3, PeaksAre
    <3> QED BY <2>1, <3>1
  <2>3. \A i \in 1 .. n : /\ Peaks(old, lo, n)[i].height = lo - 1 + i
                          /\ Peaks(old, lo, n)[i].hash = SubSeq(old, 1, lo - 1 + i)
    BY <1>1, <1>3, PeaksAre
  <2>4. \A i \in 1 .. n : recent[i].height = lo - 1 + i /\ recent[i].hash = SubSeq(old, 1, lo - 1 + i)
    BY <2>1, <2>3
  <2>5. recent[1].height = lo
    BY <1>3, <2>4
  <2> QED BY <1>3, <1>4, <2>1, <2>2, <2>4, <2>5
<1>6. recent = <<>> => lo = cursor /\ Same(chain, old, cursor)
  BY <1>4, <1>p
<1> QED BY <1>1, <1>2, <1>3, <1>5, <1>6

\* The actions, one by one.  A new peak is below the cursor exactly when it is a
\* rewind; otherwise the chain followed last does not go on above it unless the
\* two part below the cursor.
LEMMA PeakInv == TypeOK /\ Inv /\ Peak => Inv'
<1> SUFFICES ASSUME TypeOK, Inv, Peak PROVE Inv'
  OBVIOUS
<1>1. /\ pc = "handled" /\ tip' = Len(chain) /\ seen' = chain /\ pc' = "check"
      /\ UNCHANGED <<chain, cursor, recent, followed, current, history>>
      /\ trouble' = IF trouble = "lost" THEN "lost"
                    ELSE IF recent # <<>> /\ Len(chain) < Last(recent).height THEN "rewind"
                    ELSE "none"
  BY DEF Peak, index
<1>c. chain \in Seq(Blocks) /\ Len(chain) \in Nat /\ SubSeq(chain, 1, Len(chain)) = chain
  BY BlockType DEF TypeOK
<1>2. Legal(chain)' /\ Idle'
  BY <1>1 DEF Inv, Legal, Idle
<1>3. ASSUME Clean' PROVE InCheck'
  <2>1. Clean
    BY <1>1, <1>3 DEF Clean
  <2>2. PICK old, lo : Rest(old, lo)
    BY <1>1, <2>1 DEF Inv, AtRest
  <2>3. /\ old \in Seq(Blocks) /\ Len(old) \in Nat /\ cursor \in Nat /\ cursor <= Len(old)
        /\ lo \in Nat /\ lo <= Len(chain) /\ ~ Drops(chain, old, cursor)
        /\ recent = <<>> => Same(chain, old, cursor)
        /\ recent # <<>> => Last(recent).height = cursor
    BY <2>2, RestIs
  <2>4. Rest(old, lo)'
    BY <1>1, <2>2 DEF Rest, States
  <2>5. (Rewinds' <=> tip' < cursor') /\ (Rewinds' => recent' # <<>>)
    <3>1. CASE recent = <<>>
      <4>1. ~ (Len(chain) < cursor)
        BY <1>c, <2>3, <3>1 DEF Same
      <4> QED BY <1>1, <2>1, <3>1, <4>1 DEF Clean, Rewinds
    <3>2. CASE recent # <<>>
      BY <1>1, <2>1, <2>3, <3>2 DEF Clean, Rewinds
    <3> QED BY <3>1, <3>2
  <2>6. Handling' /\ Len(seen') = tip'
    <3>1. NoTwo(chain, Len(chain) + 1)
      BY <1>c DEF NoTwo
    <3>2. Len(chain) <= Len(chain)
      BY <1>c
    <3> QED BY <1>1, <1>c, <3>1, <3>2 DEF Handling
  <2>7. lo <= tip'
    BY <1>1, <2>3
  <2>8. ASSUME Same(chain, old, cursor) PROVE Len(old) <= Len(chain)
    <3>1. Same(chain, old, Len(old))
      BY <2>3, <2>8, SameOn
    <3> QED BY <3>1 DEF Same
  <2>9. Same(chain, old, cursor)' => Len(old) <= tip'
    BY <1>1, <2>8
  <2> QED BY <2>4, <2>5, <2>6, <2>7, <2>9 DEF InCheck
<1> QED BY <1>1, <1>2, <1>3 DEF Inv

\* The heights of the window the service answers for before its first miss.
Answered == {i \in DOMAIN recent : recent[i].height <= Len(chain)}
Known == {i \in Answered : \A j \in 1 .. i : j \in Answered}

\* A lower peak is taken for a fork above it.
LEMMA RewindFound ==
    ASSUME TypeOK, NEW old, NEW lo, Rest(old, lo), recent # <<>>, tip < cursor
    PROVE  ReorgFrom(recent, tip, Hash(tip - 1), Known) = tip + 1
<1>1. Last(recent).height = cursor
  BY RestIs
<1> QED BY <1>1 DEF ReorgFrom

\* Otherwise the lowest height is found from which the chains differ.
LEMMA ForkFound ==
    ASSUME TypeOK, NEW old, NEW lo, Rest(old, lo), ~ (tip < cursor), tip <= Len(chain),
           NEW from, from = ReorgFrom(recent, tip, Hash(tip - 1), Known)
    PROVE  \/ from = -1 /\ Same(chain, old, cursor)
           \/ /\ from # -1 /\ recent # <<>> /\ from \in lo .. cursor /\ ~ Same(chain, old, from)
              /\ from > lo => Same(chain, old, from - 1)
<1>0. CASE recent = <<>>
  <2>1. Same(chain, old, cursor)
    BY <1>0, RestIs
  <2> QED BY <1>0, <2>1 DEF ReorgFrom
<1> SUFFICES ASSUME recent # <<>>
             PROVE  \/ from = -1 /\ Same(chain, old, cursor)
                    \/ /\ from # -1 /\ recent # <<>> /\ from \in lo .. cursor /\ ~ Same(chain, old, from)
                       /\ from > lo => Same(chain, old, from - 1)
  BY <1>0
<1> DEFINE bad == {i \in Known : recent[i].hash # Hash(recent[i].height)}
           last == Last(recent)
           n == cursor + 1 - lo
<1>1. /\ old \in Seq(Blocks) /\ lo \in Nat /\ lo <= cursor /\ Len(old) \in Nat /\ cursor <= Len(old)
      /\ last.height = cursor /\ last.hash = SubSeq(old, 1, cursor) /\ Len(recent) = n
      /\ \A i \in 1 .. n : recent[i].height = lo - 1 + i /\ recent[i].hash = SubSeq(old, 1, lo - 1 + i)
  BY RestIs
<1>2. /\ chain \in Seq(Blocks) /\ Len(chain) \in Nat /\ tip \in Nat /\ cursor \in Nat /\ recent \in Seq(Entry)
      /\ DOMAIN recent = 1 .. Len(recent)
  BY BlockType DEF TypeOK
<1>3. from = IF tip = last.height + 1 /\ Hash(tip - 1) = last.hash THEN -1
             ELSE IF bad = {} THEN -1 ELSE recent[Min(bad)].height
  <2> HIDE DEF n
  <2> QED BY <1>1 DEF ReorgFrom
<1>4. n \in Nat \ {0} /\ Len(chain) \in Nat /\ lo + n = cursor + 1 /\ cursor <= Len(chain) /\ cursor <= tip /\ cursor \in Nat
  BY <1>1, <1>2
<1> HIDE DEF last, n
<1>5. DOMAIN recent = 1 .. n
  BY <1>1, <1>2
<1>6. ASSUME NEW i \in 1 .. n PROVE i \in Known
  <2>1. ASSUME NEW j \in 1 .. n PROVE j \in Answered
    <3>1. recent[j].height = lo - 1 + j /\ lo - 1 + j <= Len(chain)
      BY <1>1, <1>4
    <3> QED BY <1>5, <3>1 DEF Answered
  <2>2. \A j \in 1 .. i : j \in 1 .. n
    BY <1>4
  <2> QED BY <2>1, <2>2 DEF Known
<1>7. Known \subseteq 1 .. n
  BY <1>5 DEF Known, Answered
<1>8. ASSUME NEW i \in 1 .. n PROVE i \in bad <=> ~ Same(chain, old, lo - 1 + i)
  <2>1. recent[i].height = lo - 1 + i /\ recent[i].hash = SubSeq(old, 1, lo - 1 + i)
    BY <1>1
  <2>2. lo - 1 + i <= Len(chain) /\ lo - 1 + i <= Len(old)
    BY <1>1, <1>4
  <2>3. i \in bad <=> SubSeq(old, 1, lo - 1 + i) # SubSeq(chain, 1, lo - 1 + i)
    BY <1>6, <2>1 DEF Hash
  <2> QED BY <2>2, <2>3 DEF Same
<1>9. bad \subseteq 1 .. n
  BY <1>7
<1> HIDE DEF bad
<1>10. CASE tip = last.height + 1 /\ Hash(tip - 1) = last.hash
  <2>1. tip - 1 = cursor /\ SubSeq(chain, 1, cursor) = SubSeq(old, 1, cursor)
    BY <1>1, <1>2, <1>10 DEF Hash
  <2>3. Same(chain, old, cursor)
    BY <1>1, <1>4, <2>1 DEF Same
  <2> QED BY <1>3, <1>10, <2>3
<1>11. CASE ~ (tip = last.height + 1 /\ Hash(tip - 1) = last.hash) /\ bad = {}
  <2>1. n \in 1 .. n /\ lo - 1 + n = cursor
    BY <1>1, <1>4
  <2>2. Same(chain, old, lo - 1 + n)
    BY <1>8, <1>11, <2>1
  <2> QED BY <1>3, <1>11, <2>1, <2>2
<1>12. CASE ~ (tip = last.height + 1 /\ Hash(tip - 1) = last.hash) /\ bad # {}
  <2> DEFINE b == Min(bad)
  <2>1. b \in bad /\ \A j \in bad : b <= j
    <3>1. bad \subseteq Nat
      BY <1>9
    <3> QED BY <1>12, <3>1, MinIs
  <2> HIDE DEF b
  <2>2. b \in 1 .. n
    BY <1>9, <2>1
  <2>3. from = lo - 1 + b
    BY <1>1, <1>3, <1>12, <2>2 DEF b
  <2>4. ~ Same(chain, old, from)
    BY <1>8, <2>1, <2>2, <2>3
  <2>5. ASSUME from > lo PROVE Same(chain, old, from - 1)
    <3>0. lo \in Nat /\ n \in Nat /\ b \in Nat /\ b <= n /\ from = lo - 1 + b /\ from > lo
      BY <1>1, <1>4, <2>2, <2>3, <2>5
    <3>1. b - 1 \in 1 .. n /\ lo - 1 + (b - 1) = from - 1
      BY <3>0
    <3>2. b - 1 \notin bad
      <4>1. ~ (b <= b - 1)
        BY <2>2
      <4> QED BY <2>1, <4>1
    <3>3. Same(chain, old, lo - 1 + (b - 1))
      BY <1>8, <3>1, <3>2
    <3> QED BY <3>1, <3>3
  <2>6. from \in lo .. cursor /\ from # -1
    BY <1>1, <1>4, <2>2, <2>3
  <2> QED BY <2>4, <2>5, <2>6
<1> QED BY <1>10, <1>11, <1>12

\* A rollback sets the four variables from the entries kept.
LEMMA RollbackIs ==
    ASSUME NEW from, Rollback(from)
    PROVE  /\ history' = Below(history, from) /\ current' = RolledTo(history, current, from)
           /\ recent' = Below(recent, from)
           /\ recent' # <<>> => cursor' = Last(recent').height
           /\ recent' = <<>> => cursor' = IF from = 0 THEN 0 ELSE from - 1
BY DEF Rollback, RollbackToBefore, RolledTo

\* The check finds the fork if there is one, and rolls back to just below it.
LEMMA CheckInv == TypeOK /\ Inv /\ Check => Inv'
<1> SUFFICES ASSUME TypeOK, Inv, Check PROVE Inv'
  OBVIOUS
<1> DEFINE from == ReorgFrom(recent, tip, Hash(tip - 1), Known)
<1>1. /\ pc = "check" /\ tip <= Len(chain)
      /\ IF from = -1 THEN UNCHANGED <<index, recent, cursor>> ELSE Rollback(from)
      /\ record' = <<Hash(tip)>> /\ pc' = "transitions" /\ follow' = cursor' + 1
      /\ UNCHANGED <<chain, tip, followed, seen, trouble>>
  BY DEF Check, Known, Answered
<1>t. /\ chain \in Seq(Blocks) /\ tip \in Nat /\ history \in Seq(State) /\ current \in State
      /\ Len(chain) \in Nat /\ cursor \in Nat /\ seen \in Seq(Blocks)
  BY BlockType DEF TypeOK
<1>f. followed' = <<>>
  BY <1>1 DEF Inv, Idle
<1>n. TypeOK /\ [Next]_vars
  BY DEF Next
<1>2. Legal(chain)' /\ Idle'
  BY <1>1, <1>f DEF Inv, Legal, Idle
<1> SUFFICES ASSUME Clean PROVE (Rewinds => InRewind') /\ (~ Rewinds => InWalk')
  BY <1>1, <1>2 DEF Inv, Clean, Rewinds
<1>3. /\ Handling /\ Len(seen) = tip /\ (Rewinds => recent # <<>>)
      /\ \E old, lo : /\ Rest(old, lo) /\ lo <= tip /\ (Rewinds <=> tip < cursor)
                      /\ ~ Rewinds /\ Same(chain, old, cursor) => Len(old) <= tip
  BY <1>1 DEF Inv, InCheck
<1>4. PICK old, lo : /\ Rest(old, lo) /\ lo <= tip /\ (Rewinds <=> tip < cursor)
                     /\ ~ Rewinds /\ Same(chain, old, cursor) => Len(old) <= tip
  BY <1>3
<1>5. /\ old \in Seq(Blocks) /\ lo \in Nat /\ lo <= cursor /\ cursor <= Len(old) /\ Len(old) \in Nat
      /\ AtOld(old, lo, cursor, chain, recent, Append(history, current))
  <2>1. AtOld(old, lo, cursor, chain, recent, Append(history, current))
    BY <1>4 DEF Rest, States
  <2> QED BY <1>4, <2>1, RestIs
<1>6. Handling' /\ record' = <<SubSeq(seen, 1, tip)>>'
  <2>1. SubSeq(seen, 1, tip) = seen /\ seen = Hash(tip)
    BY <1>3, <1>t, BlockType DEF Handling, Hash
  <2> QED BY <1>1, <1>3, <2>1 DEF Handling
<1>7. ASSUME Rewinds PROVE InRewind'
  <2>1. tip < cursor /\ recent # <<>>
    BY <1>3, <1>4, <1>7
  <2>2. from = tip + 1 /\ from # -1
    <3>1. from = tip + 1
      BY <1>4, <2>1, RewindFound
    <3> QED BY <1>t, <3>1
  <2> HIDE DEF from
  <2>3. Rollback(tip + 1)
    BY <1>1, <2>2
  <2>d. PICK d : d = SubSeq(old, 1, tip)
    OBVIOUS
  <2>4. /\ d \in Seq(Blocks) /\ Len(d) = tip
        /\ Below(recent, tip + 1) # <<>> /\ Last(Below(recent, tip + 1)).height = tip
        /\ AtOld(d, lo, tip, chain, Below(recent, tip + 1),
                 Append(Below(history, tip + 1), RolledTo(history, current, tip + 1)))
    <3>1. lo <= tip /\ tip <= Len(chain) /\ NoTwo(chain, tip + 1)
      BY <1>1, <1>3, <1>4 DEF Handling
    <3> DEFINE e == SubSeq(old, 1, tip)
    <3>2. /\ e \in Seq(Blocks) /\ Len(e) = tip
          /\ Below(recent, tip + 1) # <<>> /\ Last(Below(recent, tip + 1)).height = tip
          /\ AtOld(e, lo, tip, chain, Below(recent, tip + 1),
                   Append(Below(history, tip + 1), RolledTo(history, current, tip + 1)))
      BY <1>5, <1>t, <2>1, <3>1, CutBack
    <3>3. d = e
      BY <2>d
    <3> HIDE DEF e
    <3> QED BY <3>2, <3>3
  <2>5. /\ history' = Below(history, tip + 1) /\ current' = RolledTo(history, current, tip + 1)
        /\ recent' = Below(recent, tip + 1) /\ cursor' = tip
    BY <2>3, <2>4, RollbackIs
  <2>6. Rest(d, lo)' /\ Len(d) = cursor' /\ recent' # <<>>
    BY <1>1, <2>4, <2>5 DEF Rest, States
  <2>7. cursor' = tip' /\ follow' = tip' + 1 /\ followed' = <<>>
    BY <1>1, <1>f, <2>5
  <2> QED BY <1>6, <2>6, <2>7 DEF InRewind
<1>8. ASSUME ~ Rewinds PROVE InWalk'
  <2>1. ~ (tip < cursor) /\ cursor <= tip /\ tip <= Len(chain)
    BY <1>1, <1>4, <1>5, <1>8, <1>t
  <2>2. \/ from = -1 /\ Same(chain, old, cursor)
        \/ /\ from # -1 /\ recent # <<>> /\ from \in lo .. cursor /\ ~ Same(chain, old, from)
           /\ from > lo => Same(chain, old, from - 1)
    BY <1>4, <2>1, ForkFound
  <2> HIDE DEF from
  <2>3. \E l, n, m : ToFollow(chain, tip, recent', cursor', current', history', l, n, m, lo)
    <3>1. CASE from = -1 /\ Same(chain, old, cursor)
      <4>1. UNCHANGED <<current, history, recent, cursor>>
        BY <1>1, <3>1 DEF index
      <4>2. Len(old) <= tip
        BY <1>4, <1>8, <3>1
      <4>3. \E l \in Nat, n \in Nat : ToFollow(chain, tip, recent, cursor, current, history, l, n, Len(old), lo)
        BY <1>5, <1>t, <2>1, <3>1, <4>2, NoFork
      <4> QED BY <4>1, <4>3
    <3>2. CASE /\ from # -1 /\ recent # <<>> /\ from \in lo .. cursor /\ ~ Same(chain, old, from)
               /\ from > lo => Same(chain, old, from - 1)
      <4>1. Rollback(from)
        BY <1>1, <3>2
      <4>p. PICK f \in lo .. cursor : f = from
        BY <3>2
      <4>q. ~ Same(chain, old, f) /\ (f > lo => Same(chain, old, f - 1)) /\ recent # <<>>
        BY <3>2, <4>p
      <4>2. /\ f >= 1 /\ LeftBy(f, old, lo, recent, history, current)
            /\ ToFollow(chain, tip, Below(recent, f), f - 1,
                        RolledTo(history, current, f), Below(history, f), lo, f - lo, f - 1, lo)
        BY <1>5, <1>t, <2>1, <4>q, ForkBack
      <4>3. /\ history' = Below(history, f) /\ current' = RolledTo(history, current, f)
            /\ recent' = Below(recent, f)
            /\ recent' # <<>> => cursor' = Last(recent').height
            /\ recent' = <<>> => cursor' = IF f = 0 THEN 0 ELSE f - 1
        BY <4>1, <4>p, RollbackIs
      <4>4. /\ f = lo => Below(recent, f) = <<>>
            /\ f # lo => Below(recent, f) # <<>> /\ Last(Below(recent, f)).height = f - 1
        BY <4>2 DEF LeftBy
      <4>5. f # 0
        BY <4>2
      <4>6. cursor' = f - 1
        BY <4>3, <4>4, <4>5
      <4> QED BY <4>2, <4>3, <4>6
    <3> QED BY <2>2, <3>1, <3>2
  <2>4. PICK l, n, m : ToFollow(chain, tip, recent', cursor', current', history', l, n, m, lo)
    BY <2>3
  <2>c. cursor' \in Nat
    BY TypeNext, <1>n DEF TypeOK
  <2>5. /\ l \in Nat /\ n \in Nat /\ m \in Nat /\ lo \in Nat /\ cursor' <= m /\ m <= tip
        /\ l + n = cursor' + 1 /\ n <= Window /\ lo <= l /\ lo <= tip
        /\ recent' = Peaks(chain, l, n) /\ NoTwo(chain, m + 1)
        /\ Held(chain, m, [cur |-> current', hist |-> history'], lo, tip - Window + 1)
    BY <2>4 DEF ToFollow
  <2>6. /\ follow' = cursor' + 1 /\ cursor' < follow' /\ follow' <= tip + 1 /\ follow' - 1 <= m
        /\ follow' - 1 - cursor' = 0
    <3>1. follow' = cursor' + 1 /\ cursor' <= m /\ m <= tip
      BY <1>1, <2>5
    <3>2. \A x, y, z \in Nat : x <= y /\ y <= z =>
             x < x + 1 /\ x + 1 <= z + 1 /\ (x + 1) - 1 <= y /\ (x + 1) - 1 - x = 0
      OBVIOUS
    <3> QED BY ONLY <1>t, <2>c, <2>5, <3>1, <3>2, Zenon
  <2>7. followed' = Peaks(chain, cursor' + 1, follow' - 1 - cursor')
    <3>1. Peaks(chain, cursor' + 1, 0) = <<>>
      BY PeaksEmpty
    <3> QED BY <1>f, <2>6, <3>1
  <2>8. m <= Len(seen) /\ ~ (Len(seen) > tip)
    BY <1>3, <1>t, <2>5
  <2>9. Walking(l, n, m, lo)'
    BY <1>1, <2>5, <2>6, <2>7, <2>8 DEF Walking
  <2> QED BY <1>6, <2>9 DEF InWalk
<1> QED BY <1>7, <1>8


\* A block taken through on_block while the walk holds the chain up to m.
LEMMA WalkApply ==
    ASSUME TypeOK, Legal(chain), Handling, NEW lo, NEW n, NEW m, NEW low, Walking(lo, n, m, low),
           NEW h \in 1 .. Len(chain), Apply(h), h <= tip + 1 \/ Len(history') > Len(history)
    PROVE  \/ /\ h <= m \/ \E i \in m + 1 .. h - 1 : chain[i].spends # <<>>
              /\ UNCHANGED <<current, history>>
           \/ /\ m < h /\ \A i \in m + 1 .. h - 1 : chain[i].spends = <<>>
              /\ Held(chain, h, [cur |-> current', hist |-> history'], low, tip - Window + 1)
<1> DEFINE st == [cur |-> current, hist |-> history]
           lo2 == tip - Window + 1
<1>1. /\ chain \in Seq(Blocks) /\ Len(chain) \in Nat /\ st \in Index /\ tip \in Nat
      /\ st.cur = current /\ st.hist = history
  BY BlockType DEF TypeOK, Index
<1>2. /\ low \in Nat /\ low \in Int /\ m \in Nat /\ m <= Len(seen) /\ NoTwo(chain, m + 1)
      /\ Held(chain, m, st, low, lo2)
  BY DEF Walking
<1>3. m \in 0 .. Len(chain)
  <2>1. Len(seen) <= Len(chain) /\ Len(seen) \in Nat
    BY BlockType DEF Handling, TypeOK
  <2> QED BY <1>1, <1>2, <2>1
<1>4. Window \in Nat
  BY FollowAssumption
<1>5. lo2 \in Int /\ (h <= tip + 1 => h - Window <= lo2)
  BY <1>1, <1>4
<1> DEFINE o == OnBlock(st, chain, h)
<1>6. [cur |-> current', hist |-> history'] = o
  BY ApplyType
<1> HIDE DEF o
<1>7. current' = o.cur /\ history' = o.hist
  BY <1>6
<1> HIDE DEF st, lo2
<1>8. CASE h <= m \/ \E i \in m + 1 .. h - 1 : chain[i].spends # <<>>
  <2>1. OnBlock(st, chain, h) = st
    BY <1>1, <1>2, <1>3, <1>8, HeldStays
  <2> QED BY <1>1, <1>7, <1>8, <2>1 DEF o
<1>9. CASE ~ (h <= m \/ \E i \in m + 1 .. h - 1 : chain[i].spends # <<>>)
  <2>1. m < h /\ \A i \in m + 1 .. h - 1 : chain[i].spends = <<>>
    BY <1>2, <1>9
  <2>2. Len(chain[h].spends) <= 1
    <3>1. h >= m + 1
      BY <1>2, <2>1
    <3> QED BY <1>2, <3>1 DEF NoTwo
  <2>3. h - Window <= lo2 \/ Len(OnBlock(st, chain, h).hist) > Len(st.hist)
    BY <1>1, <1>5, <1>7 DEF o
  <2>4. Held(chain, h, OnBlock(st, chain, h), low, lo2)
    BY <1>1, <1>2, <1>3, <1>5, <2>1, <2>2, <2>3, HeldMoves
  <2> QED BY <1>6, <2>1, <2>4 DEF lo2, o
<1> QED BY <1>8, <1>9

\* What the handler holds stays when none of it changes.
LEMMA Handled ==
    ASSUME TypeOK, Inv, Clean, pc \in {"transitions", "follow"},
           UNCHANGED <<chain, tip, record, cursor, recent, follow, followed, seen, current, history>>
    PROVE  (Rewinds => InRewind') /\ (~ Rewinds => InWalk')
<1>1. ASSUME Rewinds PROVE InRewind'
  <2>1. InRewind
    BY <1>1 DEF Inv
  <2>2. PICK old, lo : Rest(old, lo) /\ Len(old) = cursor
    BY <2>1 DEF InRewind
  <2>3. Rest(old, lo)'
    BY <2>2 DEF Rest, States
  <2> QED BY <2>1, <2>2, <2>3 DEF InRewind, Handling
<1>2. ASSUME ~ Rewinds PROVE InWalk'
  <2>1. InWalk
    BY <1>2 DEF Inv
  <2>2. PICK lo, n, m, low : Walking(lo, n, m, low)
    BY <2>1 DEF InWalk
  <2>3. Walking(lo, n, m, low)'
    BY <2>2 DEF Walking
  <2> QED BY <2>1, <2>3 DEF InWalk, Handling
<1> QED BY <1>1, <1>2

\* A registry's spend takes its block out of turn.  If the line is at it already,
\* or a block in between spends the singleton, nothing changes; otherwise the
\* line is now at it, above the peak or not.
LEMMA TransitionInv ==
    ASSUME TypeOK, Inv, NEW h \in 1 .. Len(chain), Transition(h)
    PROVE  Inv'
<1>1. /\ pc = "transitions" /\ Apply(h)
      /\ UNCHANGED <<chain, pc, tip, record, cursor, recent, follow, followed>>
      /\ seen' = IF h > Len(seen) /\ ~ UNCHANGED index THEN Hash(h) ELSE seen
      /\ trouble' = LostIf(/\ ~ UNCHANGED index
                           /\ \/ trouble = "rewind"
                              \/ h > tip + 1 /\ Len(history') <= Len(history))
  BY DEF Transition
<1>t. /\ chain \in Seq(Blocks) /\ Len(chain) \in Nat /\ tip \in Nat /\ cursor \in Nat /\ h \in Nat
      /\ seen \in Seq(Blocks) /\ Len(seen) \in Nat /\ follow \in Nat
  BY BlockType DEF TypeOK
<1>2. Legal(chain) /\ Legal(chain)' /\ Idle'
  BY <1>1 DEF Inv, Legal, Idle
<1> SUFFICES ASSUME Clean' PROVE (Rewinds' => InRewind') /\ (~ Rewinds' => InWalk')
  BY <1>1, <1>2 DEF Inv
<1>3. /\ Clean /\ trouble' = trouble /\ (Rewinds' <=> Rewinds)
      /\ UNCHANGED index \/ (~ Rewinds /\ ~ (h > tip + 1 /\ Len(history') <= Len(history)))
  <2> DEFINE C == /\ ~ UNCHANGED index
                  /\ trouble = "rewind" \/ (h > tip + 1 /\ Len(history') <= Len(history))
  <2>1. trouble' = IF C THEN "lost" ELSE trouble
    BY <1>1 DEF LostIf
  <2>2. trouble' # "lost"
    BY DEF Clean
  <2> HIDE DEF C
  <2>3. ~ C /\ trouble' = trouble /\ trouble # "lost"
    BY <2>1, <2>2
  <2>4. UNCHANGED index \/ (~ (trouble = "rewind") /\ ~ (h > tip + 1 /\ Len(history') <= Len(history)))
    BY <2>3, Zenon DEF C
  <2>5. UNCHANGED index \/ (~ Rewinds /\ ~ (h > tip + 1 /\ Len(history') <= Len(history)))
    BY <2>4, Zenon DEF Rewinds
  <2> QED BY <2>3, <2>5 DEF Clean, Rewinds
<1>4. CASE UNCHANGED index
  <2>1. UNCHANGED <<chain, tip, record, cursor, recent, follow, followed, seen, current, history>>
    BY <1>1, <1>4 DEF index
  <2> QED BY <1>1, <1>3, <2>1, Handled
<1>5. CASE ~ UNCHANGED index
  <2>1. ~ Rewinds /\ ~ (h > tip + 1 /\ Len(history') <= Len(history))
    BY <1>3, <1>5
  <2>2. Handling /\ record = <<SubSeq(seen, 1, tip)>> /\ \E lo, n, m, low : Walking(lo, n, m, low)
    BY <1>1, <1>3, <2>1 DEF Inv, InWalk
  <2>3. PICK lo, n, m, low : Walking(lo, n, m, low)
    BY <2>2
  <2>l. Len(history') \in Nat /\ Len(history) \in Nat
    <3>1. history' \in Seq(State)
      BY <1>1, ApplyType
    <3>2. history \in Seq(State)
      BY DEF TypeOK
    <3> QED BY <3>1, <3>2, LenProperties
  <2>4. h <= tip + 1 \/ Len(history') > Len(history)
    BY <1>t, <2>1, <2>l
  <2>5. /\ m < h /\ \A i \in m + 1 .. h - 1 : chain[i].spends = <<>>
        /\ Held(chain, h, [cur |-> current', hist |-> history'], low, tip - Window + 1)
    BY <1>1, <1>2, <1>5, <2>2, <2>3, <2>4, WalkApply DEF index
  <2>6. /\ m \in Nat /\ follow - 1 <= m /\ m <= Len(seen) /\ (Len(seen) > tip => m = Len(seen))
        /\ NoTwo(chain, m + 1)
    BY <2>3 DEF Walking
  <2>7. tip <= Len(seen) /\ Len(seen) <= Len(chain) /\ seen = SubSeq(chain, 1, Len(seen)) /\ NoTwo(chain, tip + 1)
    BY <2>2 DEF Handling
  <2>8. NoTwo(chain, h + 1)
    <3>1. \A i \in 1 .. Len(chain) : i >= h + 1 => i >= m + 1
      BY <1>t, <2>5, <2>6
    <3> QED BY <2>6, <3>1 DEF NoTwo
  <2>9. /\ tip <= Len(seen') /\ Len(seen') <= Len(chain) /\ seen' = SubSeq(chain, 1, Len(seen'))
        /\ SubSeq(seen', 1, tip) = SubSeq(seen, 1, tip)
        /\ h <= Len(seen') /\ (Len(seen') > tip => h = Len(seen'))
    <3>1. CASE h > Len(seen)
      <4>1. seen' = SubSeq(chain, 1, h)
        BY <1>1, <1>5, <3>1 DEF Hash
      <4>2. h \in 0 .. Len(chain) /\ tip \in 0 .. Len(chain) /\ Len(seen) \in 0 .. Len(chain)
            /\ tip <= h /\ tip <= Len(seen)
        BY <1>t, <2>7, <3>1
      <4>3. Len(seen') = h
        BY <1>t, <4>1, <4>2, BlockType
      <4>4. SubSeq(SubSeq(chain, 1, h), 1, tip) = SubSeq(chain, 1, tip)
        BY <1>t, <4>2, BlockType
      <4>5. SubSeq(SubSeq(chain, 1, Len(seen)), 1, tip) = SubSeq(chain, 1, tip)
        BY <1>t, <4>2, BlockType
      <4>6. SubSeq(seen', 1, tip) = SubSeq(seen, 1, tip)
        BY <2>7, <4>1, <4>4, <4>5
      <4> QED BY <1>t, <2>7, <4>1, <4>2, <4>3, <4>6
    <3>2. CASE ~ (h > Len(seen))
      <4>1. seen' = seen
        BY <1>1, <3>2
      <4>2. ~ (Len(seen) > tip)
        BY <1>t, <2>5, <2>6, <3>2
      <4>3. h <= Len(seen)
        BY <1>t, <3>2
      <4> QED BY <2>7, <4>1, <4>2, <4>3
    <3> QED BY <3>1, <3>2
  <2>10. Handling' /\ (record = <<SubSeq(seen, 1, tip)>>)'
    BY <1>1, <2>2, <2>7, <2>9 DEF Handling
  <2>11. follow - 1 <= h
    BY <1>t, <2>5, <2>6
  <2>12. Walking(lo, n, h, low)'
    BY <1>1, <1>t, <2>3, <2>5, <2>8, <2>9, <2>11 DEF Walking
  <2> QED BY <1>3, <2>1, <2>10, <2>12 DEF InWalk
<1> QED BY <1>4, <1>5

LEMMA SyncedInv == TypeOK /\ Inv /\ Synced => Inv'
<1> SUFFICES ASSUME TypeOK, Inv, Synced PROVE Inv'
  OBVIOUS
<1>1. /\ pc = "transitions" /\ pc' = "follow"
      /\ UNCHANGED <<chain, tip, record, cursor, recent, follow, followed, seen, trouble, current, history>>
  BY DEF Synced, index
<1>2. Legal(chain)' /\ Idle'
  BY <1>1 DEF Inv, Legal, Idle
<1>3. Clean' = Clean /\ Rewinds' = Rewinds
  BY <1>1 DEF Clean, Rewinds
<1>4. Clean => (Rewinds => InRewind') /\ (~ Rewinds => InWalk')
  BY <1>1, Handled
<1> QED BY <1>1, <1>2, <1>3, <1>4 DEF Inv

\* A followed block extends the line unless a registry's spend went beyond it.
LEMMA FollowInv == TypeOK /\ Inv /\ Follow => Inv'
<1> SUFFICES ASSUME TypeOK, Inv, Follow PROVE Inv'
  OBVIOUS
<1> DEFINE e == [height |-> follow, hash |-> SubSeq(chain, 1, follow)]
<1>1. /\ pc = "follow" /\ Apply(follow) /\ follow <= tip /\ follow <= Len(chain)
      /\ follow' = follow + 1 /\ followed' = Append(followed, e)
      /\ UNCHANGED <<chain, pc, tip, record, cursor, recent, seen, trouble>>
  BY DEF Follow, Hash
<1>t. /\ chain \in Seq(Blocks) /\ Len(chain) \in Nat /\ tip \in Nat /\ cursor \in Nat
      /\ follow \in Nat /\ follow \in 1 .. Len(chain) /\ follow <= tip + 1
      /\ seen \in Seq(Blocks) /\ Len(seen) \in Nat
  BY <1>1, BlockType DEF TypeOK
<1>2. Legal(chain) /\ Legal(chain)' /\ Idle'
  BY <1>1 DEF Inv, Legal, Idle
<1>4. ASSUME Clean, Rewinds PROVE FALSE
  <2>1. follow = tip + 1
    BY <1>1, <1>4 DEF Inv, InRewind
  <2> QED BY <1>1, <1>t, <2>1
<1>5. ASSUME Clean, ~ Rewinds PROVE InWalk'
  <2>1. Handling /\ record = <<SubSeq(seen, 1, tip)>> /\ \E lo, n, m, low : Walking(lo, n, m, low)
    BY <1>1, <1>5 DEF Inv, InWalk
  <2>2. PICK lo, n, m, low : Walking(lo, n, m, low)
    BY <2>1
  <2>3. /\ m \in Nat /\ cursor < follow /\ follow - 1 <= m /\ m <= Len(seen)
        /\ (Len(seen) > tip => m = Len(seen)) /\ NoTwo(chain, m + 1)
        /\ followed = Peaks(chain, cursor + 1, follow - 1 - cursor)
    BY <2>2 DEF Walking
  <2>s. tip <= Len(seen)
    BY <2>1 DEF Handling
  <2>4. Handling' /\ (record = <<SubSeq(seen, 1, tip)>>)'
    BY <1>1, <2>1 DEF Handling
  <2>5. followed' = Peaks(chain, cursor + 1, follow' - 1 - cursor)
    <3>n. cursor + 1 \in Nat /\ follow - 1 - cursor \in Nat
      BY <1>t, <2>3
    <3>l. PICK l \in Nat, k \in Nat : l = cursor + 1 /\ k = follow - 1 - cursor
      BY <3>n
    <3>1. l + k = follow /\ l + k <= Len(chain) /\ k + 1 = (follow + 1) - 1 - cursor
      BY <1>t, <3>l
    <3>p. PICK x : x = [height |-> l + k, hash |-> SubSeq(chain, 1, l + k)]
      OBVIOUS
    <3>2. e = x
      BY <3>1, <3>p
    <3> HIDE DEF e
    <3>3. Append(Peaks(chain, l, k), x) = Peaks(chain, l, k + 1)
      <4>1. chain \in Seq(Blocks) /\ l + k <= Len(chain)
        BY <1>t, <3>1
      <4> QED BY <3>p, <4>1, PeaksNext
    <3> QED BY <1>1, <2>3, <3>l, <3>1, <3>2, <3>3
  <2>6. \/ /\ follow <= m \/ \E i \in m + 1 .. follow - 1 : chain[i].spends # <<>>
           /\ UNCHANGED <<current, history>>
        \/ /\ m < follow
           /\ Held(chain, follow, [cur |-> current', hist |-> history'], low, tip - Window + 1)
    BY <1>1, <1>2, <1>t, <2>1, <2>2, WalkApply
  <2>f. cursor < follow + 1 /\ follow + 1 <= tip + 1 /\ (follow + 1) - 1 = follow
    BY <1>1, <1>t, <2>3
  <2>7. CASE /\ follow <= m \/ \E i \in m + 1 .. follow - 1 : chain[i].spends # <<>>
             /\ UNCHANGED <<current, history>>
    <3>1. follow <= m
      BY <1>t, <2>3, <2>7
    <3>2. follow' - 1 <= m /\ cursor < follow' /\ follow' <= tip + 1
      BY <1>1, <2>f, <3>1
    <3>3. Walking(lo, n, m, low)'
      BY <1>1, <2>2, <2>5, <2>7, <3>2 DEF Walking
    <3> QED BY <2>4, <3>3 DEF InWalk
  <2>8. CASE /\ m < follow
             /\ Held(chain, follow, [cur |-> current', hist |-> history'], low, tip - Window + 1)
    <3>f. PICK f \in Nat : f = follow
      BY <1>t
    <3>1. ~ (Len(seen) > tip) /\ follow <= Len(seen)
      BY <1>1, <1>t, <2>3, <2>8, <2>s
    <3>2. follow' - 1 <= f /\ cursor < follow' /\ follow' <= tip + 1
      BY <1>1, <1>t, <2>f, <3>f
    <3>3. NoTwo(chain, f + 1)
      <4>1. \A i \in 1 .. Len(chain) : i >= f + 1 => i >= m + 1
        BY <1>t, <2>3, <2>8, <3>f
      <4> QED BY <2>3, <4>1 DEF NoTwo
    <3>4. Walking(lo, n, f, low)'
      BY <1>1, <2>2, <2>5, <2>8, <3>f, <3>1, <3>2, <3>3 DEF Walking
    <3> QED BY <2>4, <3>4 DEF InWalk
  <2> QED BY <2>6, <2>7, <2>8
<1> QED BY <1>1, <1>2, <1>4, <1>5 DEF Inv, Clean, Rewinds

\* After a lower peak nothing is followed, and the window stays.
LEMMA FinishRewind ==
    ASSUME TypeOK, InRewind, Finish
    PROVE  recent' = recent /\ cursor' = cursor
<1>1. followed = <<>> /\ cursor = tip /\ recent # <<>>
  BY DEF InRewind
<1>2. PICK old, lo : Rest(old, lo)
  BY DEF InRewind
<1>3. Last(recent).height = tip
  BY <1>1, <1>2, RestIs
<1> DEFINE all == RememberAll(recent, followed)
           end == IF record = NoRecord \/ (all # <<>> /\ Last(all).height = tip) THEN all
                  ELSE Remember(all, [height |-> tip, hash |-> record[1]])
<1>4. recent' = Trim(end) /\ cursor' = IF followed = <<>> THEN cursor ELSE Last(followed).height
  BY DEF Finish
<1>5. all = recent
  <2>1. recent \in Seq(Entry) /\ followed \in Seq(Entry) /\ Len(followed) = 0
    BY <1>1 DEF TypeOK
  <2>2. PICK f : Joined(f, recent, followed, Len(followed)) /\ RememberAll(recent, followed) = f[Len(followed)]
    BY <2>1, JoinSteps
  <2>3. f[0] = recent
    BY <2>2 DEF Joined
  <2> QED BY <2>1, <2>2, <2>3
<1> HIDE DEF all
<1>6. end = recent
  BY <1>1, <1>3, <1>5
<1> HIDE DEF end
<1>7. Len(recent) <= Window
  <2>1. cursor + 1 - lo <= Window
    BY <1>2 DEF Rest, AtOld
  <2>2. Len(recent) = cursor + 1 - lo
    BY <1>1, <1>2, RestIs
  <2> QED BY <2>1, <2>2
<1>8. Trim(recent) = recent
  <2>1. Len(recent) \in Nat /\ Window \in Nat
    BY FollowAssumption DEF TypeOK
  <2> QED BY <1>7, <2>1 DEF Trim
<1> QED BY <1>1, <1>4, <1>6, <1>8

\* The window and the peaks just followed, with the tip's own if they end
\* below it.
Ended ==
    LET all == RememberAll(recent, followed)
    IN  IF record = NoRecord \/ (all # <<>> /\ Last(all).height = tip) THEN all
        ELSE Remember(all, [height |-> tip, hash |-> record[1]])

\* What Walking and Handling say when the last block has been followed.
LEMMA Walked ==
    ASSUME TypeOK, Handling, NEW lo, NEW n, NEW m, NEW low, Walking(lo, n, m, low), follow > tip
    PROVE  /\ chain \in Seq(Blocks) /\ Len(chain) \in Nat /\ seen \in Seq(Blocks) /\ Len(seen) \in Nat
           /\ tip \in Nat /\ cursor \in Nat /\ cursor <= tip
           /\ lo \in Nat /\ n \in Nat /\ low \in Nat /\ lo + n = cursor + 1 /\ low <= lo /\ low <= tip
           /\ tip <= Len(chain) /\ tip <= Len(seen) /\ Len(seen) <= Len(chain)
           /\ follow - 1 - cursor = tip - cursor /\ m = Len(seen)
<1>1. /\ chain \in Seq(Blocks) /\ Len(chain) \in Nat /\ tip \in Nat /\ cursor \in Nat /\ follow \in Nat
      /\ seen \in Seq(Blocks) /\ Len(seen) \in Nat
  BY BlockType DEF TypeOK
<1>2. /\ lo \in Nat /\ n \in Nat /\ m \in Nat /\ low \in Nat
      /\ lo + n = cursor + 1 /\ low <= lo /\ low <= tip
      /\ cursor < follow /\ follow <= tip + 1
      /\ follow - 1 <= m /\ m <= Len(seen) /\ (Len(seen) > tip => m = Len(seen))
  BY DEF Walking
<1>3. tip <= Len(seen) /\ Len(seen) <= Len(chain)
  BY DEF Handling
<1>4. follow = tip + 1
  BY <1>1, <1>2
<1>5. m = Len(seen)
  BY <1>1, <1>2, <1>3, <1>4
<1>6. cursor <= tip /\ tip <= Len(chain) /\ follow - 1 - cursor = tip - cursor
  BY <1>1, <1>2, <1>3, <1>4
<1> QED BY <1>1, <1>2, <1>3, <1>5, <1>6

\* They are the peaks of the chain up to the tip.
LEMMA EndIs ==
    ASSUME TypeOK, Handling, record = <<SubSeq(seen, 1, tip)>>, NEW lo, NEW n, NEW m, NEW low,
           Walking(lo, n, m, low), follow > tip
    PROVE  \E l \in Nat, N \in Nat \ {0} : l + N = tip + 1 /\ low <= l /\ Ended = Peaks(chain, l, N)
<1>1. /\ chain \in Seq(Blocks) /\ Len(chain) \in Nat /\ seen \in Seq(Blocks) /\ Len(seen) \in Nat
      /\ tip \in Nat /\ cursor \in Nat /\ cursor <= tip
      /\ lo \in Nat /\ n \in Nat /\ low \in Nat /\ lo + n = cursor + 1 /\ low <= lo /\ low <= tip
      /\ tip <= Len(chain) /\ tip <= Len(seen) /\ Len(seen) <= Len(chain)
      /\ follow - 1 - cursor = tip - cursor
  BY Walked
<1>2. PICK l \in Nat, a \in Nat, b \in Nat, N \in Nat : l = lo /\ a = n /\ b = tip - cursor /\ N = a + b
  <2>1. tip - cursor \in Nat /\ \A a, b \in Nat : a + b \in Nat
    BY <1>1
  <2> QED BY <1>1, <2>1
<1>3. l + a + b = tip + 1 /\ l + N = tip + 1 /\ l + a = cursor + 1 /\ l + a + b <= Len(chain) + 1
      /\ l + N <= Len(chain) + 1 /\ low <= l
  BY <1>1, <1>2
<1>4. recent = Peaks(chain, l, a) /\ followed = Peaks(chain, l + a, b)
  BY <1>1, <1>2, <1>3 DEF Walking
<1> DEFINE all == RememberAll(recent, followed)
<1>5. all = Peaks(chain, l, N)
  <2>1. RememberAll(Peaks(chain, l, a), Peaks(chain, l + a, b)) = Peaks(chain, l, a + b)
    BY <1>1, <1>3, PeaksJoin
  <2> QED BY <1>2, <1>4, <2>1
<1>6. Ended = IF record = NoRecord \/ (all # <<>> /\ Last(all).height = tip) THEN all
              ELSE Remember(all, [height |-> tip, hash |-> record[1]])
  BY DEF Ended
<1> HIDE DEF all
<1>7. CASE N # 0
  <2>1. N \in Nat \ {0} /\ l + N - 1 = tip
    BY <1>1, <1>3, <1>7
  <2>2. Peaks(chain, l, N) # <<>> /\ Last(Peaks(chain, l, N)).height = l + N - 1
    BY <1>1, <1>3, <2>1, PeaksLast
  <2>3. all # <<>> /\ Last(all).height = tip
    BY <1>5, <2>1, <2>2
  <2>4. Ended = Peaks(chain, l, N)
    BY <1>5, <1>6, <2>3
  <2> QED BY <1>3, <2>1, <2>4
<1>8. CASE N = 0
  <2>1. all = <<>>
    BY <1>5, <1>8, PeaksEmpty
  <2>2. record # NoRecord /\ record[1] = SubSeq(seen, 1, tip)
    BY DEF NoRecord
  <2>3. SubSeq(seen, 1, tip) = SubSeq(chain, 1, tip)
    <3>1. tip \in 0 .. Len(chain) /\ Len(seen) \in 0 .. Len(chain)
      BY <1>1
    <3>2. SubSeq(SubSeq(chain, 1, Len(seen)), 1, tip) = SubSeq(chain, 1, tip)
      BY <1>1, <3>1, BlockType
    <3> QED BY <3>2 DEF Handling
  <2>4. PICK e : e = [height |-> tip + 0, hash |-> SubSeq(chain, 1, tip + 0)]
    OBVIOUS
  <2>5. tip + 0 = tip /\ tip + 0 <= Len(chain) /\ 0 \in Nat
    BY <1>1
  <2>6. Remember(Peaks(chain, tip, 0), e) = Peaks(chain, tip, 0 + 1)
    BY <1>1, <2>4, <2>5, PeaksNext
  <2>7. e = [height |-> tip, hash |-> record[1]] /\ all = Peaks(chain, tip, 0)
    BY <2>1, <2>2, <2>3, <2>4, <2>5, PeaksEmpty
  <2>8. Ended = Peaks(chain, tip, 1)
    BY <1>6, <2>1, <2>2, <2>6, <2>7
  <2>9. tip + 1 = tip + 1 /\ 1 \in Nat \ {0} /\ tip \in Nat /\ low <= tip
    BY <1>1
  <2> QED BY <2>8, <2>9
<1> QED BY <1>7, <1>8

\* A finished walk holds the peak's chain.
LEMMA FinishWalk ==
    ASSUME TypeOK, Handling, record = <<SubSeq(seen, 1, tip)>>, NEW lo, NEW n, NEW m, NEW low,
           Walking(lo, n, m, low), Finish
    PROVE  (\E lo2 : AtOld(seen, lo2, tip, chain, recent', States)) /\ cursor' = tip
<1>f. follow > tip /\ recent' = Trim(Ended)
  BY DEF Finish, Ended
<1>t. /\ chain \in Seq(Blocks) /\ Len(chain) \in Nat /\ seen \in Seq(Blocks) /\ Len(seen) \in Nat
      /\ tip \in Nat /\ cursor \in Nat /\ cursor <= tip
      /\ lo \in Nat /\ n \in Nat /\ low \in Nat /\ lo + n = cursor + 1 /\ low <= lo /\ low <= tip
      /\ tip <= Len(chain) /\ tip <= Len(seen) /\ Len(seen) <= Len(chain)
      /\ follow - 1 - cursor = tip - cursor /\ m = Len(seen)
  BY <1>f, Walked
<1>s. current \in State /\ history \in Seq(State)
  BY DEF TypeOK
<1>w. Window \in Nat \ {0}
  BY FollowAssumption
<1>1. seen = SubSeq(chain, 1, Len(seen)) /\ NoTwo(chain, tip + 1)
  BY DEF Handling
<1>2. PICK l \in Nat, N \in Nat \ {0} : l + N = tip + 1 /\ low <= l /\ Ended = Peaks(chain, l, N)
  BY <1>f, EndIs
<1>3. l + N <= Len(chain) + 1 /\ N \in Nat
  BY <1>t, <1>2
<1>10. cursor' = tip
  <2>1. cursor' = IF followed = <<>> THEN cursor ELSE Last(followed).height
    BY DEF Finish
  <2>2. followed = Peaks(chain, cursor + 1, tip - cursor)
    BY <1>t DEF Walking
  <2>3. PICK p \in Nat, b \in Nat : p = cursor + 1 /\ b = tip - cursor
    <3>1. cursor + 1 \in Nat /\ tip - cursor \in Nat
      BY <1>t
    <3> QED BY <3>1
  <2>4. CASE b = 0
    <3>1. followed = <<>>
      BY <2>2, <2>3, <2>4, PeaksEmpty
    <3>2. cursor = tip
      BY <1>t, <2>3, <2>4
    <3> QED BY <2>1, <3>1, <3>2
  <2>5. CASE b # 0
    <3>2. b \in Nat \ {0} /\ p + b <= Len(chain) + 1 /\ p + b - 1 = tip
      BY <1>t, <2>3, <2>5
    <3>3. Peaks(chain, p, b) # <<>> /\ Last(Peaks(chain, p, b)).height = p + b - 1
      BY <1>t, <3>2, PeaksLast
    <3>4. followed = Peaks(chain, p, b)
      BY <2>2, <2>3
    <3> QED BY <2>1, <3>2, <3>3, <3>4
  <2> QED BY <2>4, <2>5
<1>e. PICK k \in 0 .. N : Trims(k, chain, l, N)
  BY <1>t, <1>3, PeaksTrim
<1>11. /\ recent' = Peaks(chain, l + k, N - k)
       /\ N - k <= Window /\ (k = 0 \/ N - k = Window)
  BY <1>e, <1>f, <1>2 DEF Trims
<1>12. PICK lo2 \in Nat, n2 \in Nat : lo2 = l + k /\ n2 = N - k
  <2>1. l + k \in Nat /\ N - k \in Nat
    BY <1>2, <1>e
  <2> QED BY <2>1
<1>13. /\ lo2 + n2 = tip + 1 /\ n2 <= Window /\ n2 # 0 /\ lo2 <= tip /\ l <= lo2 /\ tip - Window + 1 <= lo2
       /\ n2 = tip + 1 - lo2
  <2>1. k \in Nat /\ k <= N /\ N \in Nat /\ N # 0
    BY <1>2
  <2>2. n2 # 0
    BY <1>w, <1>11, <1>12, <2>1
  <2>3. lo2 + n2 = tip + 1 /\ n2 <= Window /\ l <= lo2
    BY <1>t, <1>w, <1>2, <1>11, <1>12, <2>1
  <2>4. lo2 <= tip /\ n2 = tip + 1 - lo2 /\ tip - Window + 1 <= lo2
    BY <1>t, <1>w, <1>12, <2>2, <2>3
  <2> QED BY <2>2, <2>3, <2>4
<1>15. Same(chain, seen, Len(seen))
  <2>1. SubSeq(seen, 1, Len(seen)) = seen /\ Len(seen) <= Len(seen)
    BY <1>t, BlockType
  <2> QED BY <1>t, <1>1, <2>1 DEF Same
<1>t2. tip \in 0 .. Len(seen)
  BY <1>t
<1>t3. Same(chain, seen, tip)
  BY <1>t, <1>15, <1>t2, SameBelow
<1>16. recent' = Peaks(seen, lo2, n2)
  <2>1. lo2 + n2 <= tip + 1 /\ SubSeq(chain, 1, tip) = SubSeq(seen, 1, tip)
    BY <1>t, <1>13, <1>t3 DEF Same
  <2>2. Peaks(chain, lo2, n2) = Peaks(seen, lo2, n2)
    BY <1>t, <2>1, PeaksOn
  <2> QED BY <1>11, <1>12, <2>2
<1>17. UpTo(seen, States, lo2)
  <2> DEFINE st == [cur |-> current, hist |-> history]
  <2>1. StatesOf(st) = States /\ st.cur = current
    BY DEF StatesOf, States
  <2>2. States \in Seq(State) /\ States # <<>> /\ Last(States) = current
    BY <1>s, AppendIs DEF States
  <2>3. Held(chain, Len(seen), st, low, tip - Window + 1)
    BY <1>t DEF Walking
  <2> HIDE DEF st
  <2>4. /\ Unbroken(States, seen, low) \/ Unbroken(States, seen, tip - Window + 1)
        /\ Last(States).coin = SpendsOf(seen)
    BY <1>1, <2>1, <2>2, <2>3 DEF Held
  <2>5. low \in Int /\ tip - Window + 1 \in Int /\ lo2 \in Int /\ low <= lo2
    BY <1>t, <1>w, <1>2, <1>13
  <2>6. Unbroken(States, seen, low) => Unbroken(States, seen, lo2)
    BY <2>2, <2>5, UnbrokenLow
  <2>7. Unbroken(States, seen, tip - Window + 1) => Unbroken(States, seen, lo2)
    <3>1. PICK w \in Int : w = tip - Window + 1
      BY <2>5
    <3>2. Unbroken(States, seen, w) => Unbroken(States, seen, lo2)
      BY <2>2, <2>5, <1>13, <3>1, UnbrokenLow
    <3> QED BY <3>1, <3>2
  <2> QED BY <2>4, <2>6, <2>7 DEF UpTo
<1>18. Leaves(chain, seen, lo2, tip)
  <2>1. lo2 > 0 => SubSeq(chain, 1, lo2 - 1) = SubSeq(seen, 1, lo2 - 1)
    <3> SUFFICES ASSUME lo2 > 0 PROVE SubSeq(chain, 1, lo2 - 1) = SubSeq(seen, 1, lo2 - 1)
      OBVIOUS
    <3>1. lo2 - 1 \in 0 .. Len(seen)
      BY <1>t, <1>13
    <3> QED BY <1>t, <1>15, <3>1, SameBelow
  <2>2. ASSUME NEW i \in 1 .. Len(chain) PROVE Same(chain, seen, i) \/ Len(chain[i].spends) <= 1
    <3>1. CASE i <= Len(seen)
      <4>1. i \in 0 .. Len(seen)
        BY <3>1
      <4> QED BY <1>t, <1>15, <4>1, SameBelow
    <3>2. CASE ~ (i <= Len(seen))
      <4>1. i >= tip + 1
        BY <1>t, <3>2
      <4> QED BY <1>1, <4>1 DEF NoTwo
    <3> QED BY <3>1, <3>2
  <2>3. lo2 <= Len(chain)
    BY <1>t, <1>13
  <2>4. ~ Drops(chain, seen, tip)
    BY <1>15 DEF Drops
  <2> QED BY <2>1, <2>2, <2>3, <2>4 DEF Leaves
<1>19. Remembers(recent', seen, lo2, tip, chain)
  BY <1>13, <1>16 DEF Remembers
<1>20. AtOld(seen, lo2, tip, chain, recent', States)
  BY <1>t, <1>13, <1>17, <1>18, <1>19 DEF AtOld
<1> QED BY <1>10, <1>20

\* The followed blocks lengthen the window up to the tip.
LEMMA FinishInv == TypeOK /\ Inv /\ Finish => Inv'
<1> SUFFICES ASSUME TypeOK, Inv, Finish PROVE Inv'
  OBVIOUS
<1>1. /\ pc = "follow" /\ pc' = "handled" /\ followed' = <<>>
      /\ UNCHANGED <<chain, tip, seen, trouble, current, history>>
  BY DEF Finish, index
<1>2. Legal(chain)' /\ Idle'
  BY <1>1 DEF Inv, Legal, Idle
<1>3. ASSUME Clean, Rewinds PROVE AtRest'
  <2>1. InRewind
    BY <1>1, <1>3 DEF Inv
  <2>2. recent' = recent /\ cursor' = cursor
    BY <2>1, FinishRewind
  <2>3. PICK old, lo : Rest(old, lo) /\ Len(old) = cursor
    BY <2>1 DEF InRewind
  <2>4. Rest(old, lo)' /\ Len(old) = cursor'
    BY <1>1, <2>2, <2>3 DEF Rest, States
  <2> QED BY <1>1, <1>3, <2>4 DEF AtRest, Rewinds
<1>4. ASSUME Clean, ~ Rewinds PROVE AtRest'
  <2>1. Handling /\ record = <<SubSeq(seen, 1, tip)>> /\ \E lo, n, m, low : Walking(lo, n, m, low)
    BY <1>1, <1>4 DEF Inv, InWalk
  <2>2. PICK lo, n, m, low : Walking(lo, n, m, low)
    BY <2>1
  <2>3. (\E lo2 : AtOld(seen, lo2, tip, chain, recent', States)) /\ cursor' = tip
    BY <2>1, <2>2, FinishWalk
  <2>4. PICK lo2 : AtOld(seen, lo2, tip, chain, recent', States)
    BY <2>3
  <2>5. PICK old : old = seen
    OBVIOUS
  <2>6. Rest(old, lo2)' /\ seen' = old /\ tip' = cursor'
    BY <1>1, <2>3, <2>4, <2>5 DEF Rest, States
  <2>7. ~ Rewinds'
    BY <1>1, <1>4 DEF Rewinds
  <2> QED BY <2>6, <2>7 DEF AtRest
<1> QED BY <1>1, <1>2, <1>3, <1>4 DEF Inv, Clean, Rewinds

\* Blocks added without trouble spend the singleton at most once each.
LEMMA NoTwice ==
    ASSUME NEW n \in Nat, NEW s \in Seq(Blocks), Len(s) = n, ~ Twice(s)
    PROVE  \A i \in 1 .. n : Len(s[i].spends) <= 1
<1>1. DOMAIN s = 1 .. n /\ \A i \in 1 .. n : s[i].spends \in Seq(Spends)
  BY BlockType
<1>2. \A i \in DOMAIN s : ~ (Len(s[i].spends) > 1)
  BY Zenon DEF Twice
<1>3. ASSUME NEW i \in 1 .. n PROVE Len(s[i].spends) <= 1
  <2>1. Len(s[i].spends) \in Nat
    BY <1>1
  <2> QED BY <1>1, <1>2, <2>1
<1> QED BY <1>3

\* The chain made of another chain's first h blocks and others.
Forked(c, h, n, s, d) ==
    /\ d \in Seq(Blocks) /\ Len(d) = h + n /\ Legal(d) /\ Same(c, d, h)
    /\ ~ Twice(s) => NoTwo(d, h + 1)

\* A fork agrees with the chain below the block where it leaves.
LEMMA ForkIs ==
    ASSUME NEW c \in Seq(Blocks), NEW h \in 0 .. Len(c), NEW n \in Nat \ {0},
           NEW s \in Extensions(SubSeq(c, 1, h), n), NEW d, d = SubSeq(c, 1, h) \o s
    PROVE  Forked(c, h, n, s, d)
<1>1. PICK b : b = SubSeq(c, 1, h)
  OBVIOUS
<1>2. b \in Seq(Blocks) /\ Len(b) = h /\ Len(c) \in Nat /\ SubSeq(b, 1, h) = b
  <2>1. SubSeq(c, 1, h) \in Seq(Blocks) /\ Len(SubSeq(c, 1, h)) = h /\ Len(c) \in Nat
    BY BlockType
  <2>2. b \in Seq(Blocks)
    BY <1>1, <2>1
  <2>3. SubSeq(b, 1, Len(b)) = b
    BY <2>2, BlockType
  <2> QED BY <1>1, <2>1, <2>3
<1>3. s \in Extensions(b, n) /\ d = b \o s
  BY <1>1
<1>4. /\ s \in Seq(Blocks) /\ Len(s) = n
      /\ d \in Seq(Blocks) /\ Len(d) = h + n
      /\ \A g \in 0 .. h : SubSeq(d, 1, g) = SubSeq(b, 1, g)
      /\ \A i \in 1 .. n : d[h + i] = s[i]
      /\ Legal(d)
  <2>1. Extended(b \o s, b, s, n)
    BY <1>2, <1>3, ExtensionIs
  <2>2. Extended(d, b, s, n)
    BY <1>3, <2>1
  <2> QED BY <1>2, <2>2 DEF Extended
<1>5. Same(c, d, h)
  <2>1. h \in 0 .. h /\ h <= Len(c) /\ h <= Len(d)
    BY <1>2, <1>4
  <2>2. SubSeq(d, 1, h) = SubSeq(c, 1, h)
    BY <1>1, <1>2, <1>4, <2>1
  <2> QED BY <2>1, <2>2 DEF Same
<1>6. ASSUME ~ Twice(s) PROVE NoTwo(d, h + 1)
  <2>1. \A i \in 1 .. n : Len(s[i].spends) <= 1
    BY <1>4, <1>6, NoTwice
  <2>2. ASSUME NEW i \in 1 .. Len(d), i >= h + 1 PROVE Len(d[i].spends) <= 1
    <3>1. i - h \in 1 .. n /\ h + (i - h) = i
      BY <1>2, <1>4, <2>2
    <3>2. d[h + (i - h)] = s[i - h]
      BY <1>4, <3>1
    <3>3. d[i] = s[i - h]
      BY <3>1, <3>2
    <3> QED BY <2>1, <3>1, <3>3
  <2> QED BY <2>2 DEF NoTwo
<1> QED BY <1>4, <1>5, <1>6 DEF Forked

\* Blocks of at most one spend, continued by others of that kind.
LEMMA NoTwoLonger ==
    ASSUME NEW c \in Seq(Blocks), NEW d \in Seq(Blocks), NEW h \in Int, NoTwo(c, h),
           Same(c, d, Len(c)), NoTwo(d, Len(c) + 1)
    PROVE  NoTwo(d, h)
<1>1. Len(c) \in Nat
  BY BlockType
<1>2. ASSUME NEW i \in 1 .. Len(d), i >= h PROVE Len(d[i].spends) <= 1
  <2>1. CASE i <= Len(c)
    <3>1. i \in 1 .. Len(c)
      BY <1>1, <2>1
    <3>2. c[i] = d[i]
      BY <1>1, <3>1, SameBlock
    <3> QED BY <1>2, <3>1, <3>2 DEF NoTwo
  <2>2. CASE ~ (i <= Len(c))
    BY <1>1, <2>2 DEF NoTwo
  <2> QED BY <2>1, <2>2
<1> QED BY <1>2 DEF NoTwo

\* One block more.
LEMMA GrowIs ==
    ASSUME TypeOK, Grow
    PROVE  /\ chain \in Seq(Blocks) /\ chain' \in Seq(Blocks) /\ Len(chain) \in Nat
           /\ Len(chain') = Len(chain) + 1 /\ Legal(chain') /\ Same(chain, chain', Len(chain))
           /\ Clean' => Clean /\ (Rewinds' <=> Rewinds) /\ NoTwo(chain', Len(chain) + 1)
           /\ UNCHANGED <<pc, tip, record, cursor, recent, follow, followed, current, history, seen>>
<1>1. chain \in Seq(Blocks)
  BY DEF TypeOK
<1>2. Len(chain) \in Nat /\ Len(chain) \in 0 .. Len(chain) /\ SubSeq(chain, 1, Len(chain)) = chain
  BY <1>1, BlockType
<1>3. PICK s : s \in Extensions(chain, 1) /\ chain' = chain \o s /\ trouble' = LostIf(Twice(s))
  BY DEF Grow
<1>h. PICK h \in 0 .. Len(chain) : h = Len(chain)
  BY <1>2
<1>n. PICK n \in Nat \ {0} : n = 1
  <2>1. 1 \in Nat \ {0}
    OBVIOUS
  <2> QED BY <2>1, Zenon
<1>4. h = Len(chain) /\ n = 1
  BY <1>h, <1>n
<1>5. s \in Extensions(SubSeq(chain, 1, h), n) /\ chain' = SubSeq(chain, 1, h) \o s
  BY <1>2, <1>3, <1>4
<1>6. /\ chain' \in Seq(Blocks) /\ Len(chain') = h + n /\ Legal(chain') /\ Same(chain, chain', h)
      /\ ~ Twice(s) => NoTwo(chain', h + 1)
  <2>1. Forked(chain, h, n, s, chain')
    BY <1>1, <1>5, ForkIs
  <2> QED BY <2>1 DEF Forked
<1>7. Clean' => Clean /\ (Rewinds' <=> Rewinds) /\ ~ Twice(s)
  BY <1>3 DEF Clean, Rewinds, LostIf
<1>8. UNCHANGED <<pc, tip, record, cursor, recent, follow, followed, current, history, seen>>
  BY DEF Grow, index
<1> QED BY <1>1, <1>2, <1>4, <1>6, <1>7, <1>8

\* The listener is still at rest when a block is appended.
LEMMA RestGrows ==
    ASSUME TypeOK, Grow, Clean', NEW old, NEW lo, Rest(old, lo)
    PROVE  Rest(old, lo)'
<1>1. /\ chain \in Seq(Blocks) /\ chain' \in Seq(Blocks) /\ Len(chain) \in Nat
      /\ Len(chain') = Len(chain) + 1 /\ Same(chain, chain', Len(chain)) /\ NoTwo(chain', Len(chain) + 1)
      /\ UNCHANGED <<cursor, recent, current, history>>
  BY GrowIs
<1>2. AtOld(old, lo, cursor, chain, recent, States)
  BY DEF Rest
<1>3. /\ lo \in Nat /\ lo <= Len(chain) /\ old \in Seq(Blocks) /\ cursor \in Nat /\ cursor <= Len(old)
      /\ ~ Drops(chain, old, cursor) /\ (recent = <<>> => Same(chain, old, cursor))
  BY RestIs
<1>4. lo <= Len(chain) + 1 /\ lo <= Len(chain') /\ (recent = <<>> => cursor <= Len(chain))
  BY <1>1, <1>3 DEF Same
<1>5. PICK d \in Seq(Blocks) : d = chain'
  BY <1>1
<1>6. ~ Drops(d, old, cursor)
  BY <1>1, <1>3, <1>5, DropsNone
<1>7. AtOld(old, lo, cursor, d, recent, States)
  BY <1>1, <1>2, <1>4, <1>5, <1>6, AtOldMoves
<1> QED BY <1>1, <1>5, <1>7 DEF Rest, States

LEMMA GrowInv == TypeOK /\ Inv /\ Grow => Inv'
<1> SUFFICES ASSUME TypeOK, Inv, Grow PROVE Inv'
  OBVIOUS
<1>1. /\ chain \in Seq(Blocks) /\ chain' \in Seq(Blocks) /\ Len(chain) \in Nat
      /\ Len(chain') = Len(chain) + 1 /\ Legal(chain') /\ Same(chain, chain', Len(chain))
      /\ Clean' => Clean /\ (Rewinds' <=> Rewinds) /\ NoTwo(chain', Len(chain) + 1)
      /\ UNCHANGED <<pc, tip, record, cursor, recent, follow, followed, current, history, seen>>
  BY GrowIs
<1>2. tip \in Nat /\ cursor \in Nat /\ follow \in Nat /\ seen \in Seq(Blocks) /\ Len(seen) \in Nat
  BY BlockType DEF TypeOK
<1>3. Legal(chain)' /\ Idle'
  BY <1>1 DEF Inv, Legal, Idle
<1> SUFFICES ASSUME Clean'
             PROVE  /\ pc # "connect"
                    /\ pc = "seed" => Seeding'
                    /\ pc = "record" => AtRest' /\ ~ Rewinds
                    /\ pc = "handled" => AtRest'
                    /\ pc = "check" => InCheck'
                    /\ pc \in {"transitions", "follow"} /\ Rewinds => InRewind'
                    /\ pc \in {"transitions", "follow"} /\ ~ Rewinds => InWalk'
  BY <1>1, <1>3 DEF Inv
<1>4. Clean /\ (Rewinds' <=> Rewinds) /\ NoTwo(chain', Len(chain) + 1)
  BY <1>1
<1>5. ASSUME NEW old, NEW lo, Rest(old, lo) PROVE Rest(old, lo)'
  BY <1>5, RestGrows
<1>6. ASSUME Handling PROVE Handling'
  <2>1. tip <= Len(seen) /\ Len(seen) <= Len(chain) /\ seen = SubSeq(chain, 1, Len(seen)) /\ NoTwo(chain, tip + 1)
    BY <1>6 DEF Handling
  <2>2. Len(seen) \in 0 .. Len(chain) /\ Len(seen) <= Len(chain')
    BY <1>1, <1>2, <2>1
  <2>3. SubSeq(chain, 1, Len(seen)) = SubSeq(chain', 1, Len(seen))
    BY <1>1, <2>2, SameBelow
  <2>4. NoTwo(chain', tip + 1)
    BY <1>1, <1>2, <1>4, <2>1, NoTwoLonger
  <2> QED BY <1>1, <2>1, <2>2, <2>3, <2>4 DEF Handling
<1>7. ASSUME Handling, NEW lo, NEW n, NEW m, NEW low, Walking(lo, n, m, low) PROVE Walking(lo, n, m, low)'
  <2>1. tip <= Len(seen) /\ Len(seen) <= Len(chain)
    BY <1>7 DEF Handling
  <2>2. /\ lo \in Nat /\ n \in Nat /\ m \in Nat /\ low \in Nat
        /\ lo + n = cursor + 1 /\ n <= Window /\ low <= lo /\ low <= tip
        /\ recent = Peaks(chain, lo, n) /\ cursor < follow /\ follow <= tip + 1
        /\ followed = Peaks(chain, cursor + 1, follow - 1 - cursor)
        /\ NoTwo(chain, m + 1)
        /\ follow - 1 <= m /\ m <= Len(seen) /\ (Len(seen) > tip => m = Len(seen))
        /\ Held(chain, m, [cur |-> current, hist |-> history], low, tip - Window + 1)
    BY <1>7 DEF Walking
  <2>3. PICK d \in Seq(Blocks) : d = chain'
    BY <1>1
  <2>4. /\ Len(chain) <= Len(d) /\ SubSeq(chain, 1, Len(chain)) = SubSeq(d, 1, Len(chain))
        /\ Same(chain, d, Len(chain))
    BY <1>1, <2>3 DEF Same
  <2>5. recent = Peaks(d, lo, n)
    <3>1. lo + n <= Len(chain) + 1
      BY <1>1, <1>2, <2>1, <2>2
    <3>2. Peaks(chain, lo, n) = Peaks(d, lo, n)
      BY <1>1, <2>2, <2>4, <3>1, PeaksOn
    <3> QED BY <2>2, <3>2
  <2>6. followed = Peaks(d, cursor + 1, follow - 1 - cursor)
    <3>1. cursor + 1 \in Nat /\ follow - 1 - cursor \in Nat
      BY <1>2, <2>2
    <3>2. PICK l \in Nat, k \in Nat : l = cursor + 1 /\ k = follow - 1 - cursor
      BY <3>1
    <3>3. l + k <= Len(chain) + 1
      BY <1>1, <1>2, <2>1, <2>2, <3>2
    <3>4. Peaks(chain, l, k) = Peaks(d, l, k)
      BY <1>1, <2>4, <3>3, PeaksOn
    <3> QED BY <2>2, <3>2, <3>4
  <2>7. NoTwo(d, m + 1)
    BY <1>1, <1>4, <2>2, <2>3, NoTwoLonger
  <2>8. m \in 0 .. Len(chain)
    BY <1>1, <1>2, <2>1, <2>2
  <2>9. Held(d, m, [cur |-> current, hist |-> history], low, tip - Window + 1)
    <3>1. SubSeq(chain, 1, m) = SubSeq(d, 1, m)
      BY <1>1, <2>4, <2>8, SameBelow
    <3> QED BY <2>2, <3>1 DEF Held
  <2> QED BY <1>1, <1>7, <2>3, <2>5, <2>6, <2>7, <2>9 DEF Walking
<1>8. ASSUME AtRest PROVE AtRest'
  <2>1. PICK old, lo : Rest(old, lo) /\ IF Rewinds THEN Len(old) = cursor ELSE seen = old /\ tip = cursor
    BY <1>8 DEF AtRest
  <2>2. Rest(old, lo)'
    BY <1>5, <2>1
  <2> QED BY <1>1, <1>4, <2>1, <2>2 DEF AtRest
<1>9. ASSUME pc = "check" PROVE InCheck'
  <2>1. InCheck
    BY <1>4, <1>9 DEF Inv
  <2>2. PICK old, lo : /\ Rest(old, lo) /\ lo <= tip /\ (Rewinds <=> tip < cursor)
                       /\ ~ Rewinds /\ Same(chain, old, cursor) => Len(old) <= tip
    BY <2>1 DEF InCheck
  <2>3. Rest(old, lo)'
    BY <1>5, <2>2
  <2>4. ASSUME ~ Rewinds, Same(chain', old, cursor) PROVE Len(old) <= tip
    <3>1. tip <= Len(seen) /\ Len(seen) <= Len(chain)
      BY <2>1 DEF InCheck, Handling
    <3>2. cursor \in 0 .. Len(chain)
      BY <1>1, <1>2, <2>2, <2>4, <3>1
    <3>3. Same(chain, chain', cursor)
      BY <1>1, <3>2, SameBelow
    <3>4. Same(chain, old, cursor)
      BY <2>4, <3>3 DEF Same
    <3> QED BY <2>2, <2>4, <3>4
  <2>5. Handling'
    BY <1>6, <2>1 DEF InCheck
  <2> QED BY <1>1, <1>4, <2>1, <2>2, <2>3, <2>4, <2>5 DEF InCheck
<1>10. ASSUME pc \in {"transitions", "follow"}, Rewinds PROVE InRewind'
  <2>1. InRewind
    BY <1>4, <1>10 DEF Inv
  <2>2. PICK old, lo : Rest(old, lo) /\ Len(old) = cursor
    BY <2>1 DEF InRewind
  <2>3. Rest(old, lo)'
    BY <1>5, <2>2
  <2>4. Handling'
    BY <1>6, <2>1 DEF InRewind
  <2> QED BY <1>1, <2>1, <2>2, <2>3, <2>4 DEF InRewind
<1>11. ASSUME pc \in {"transitions", "follow"}, ~ Rewinds PROVE InWalk'
  <2>1. InWalk
    BY <1>4, <1>11 DEF Inv
  <2>2. PICK lo, n, m, low : Walking(lo, n, m, low)
    BY <2>1 DEF InWalk
  <2>3. Walking(lo, n, m, low)' /\ Handling'
    BY <1>6, <1>7, <2>1, <2>2 DEF InWalk
  <2> QED BY <1>1, <2>1, <2>3 DEF InWalk
<1>12. ASSUME pc = "seed" PROVE Seeding'
  <2>1. /\ UpTo(seen, States, Len(seen)) /\ ~ Rewinds
        /\ Same(chain, seen, Len(seen)) /\ NoTwo(chain, Len(seen) + 1)
    BY <1>4, <1>12 DEF Inv, Seeding
  <2>2. Len(seen) \in 0 .. Len(chain)
    BY <1>1, <1>2, <2>1 DEF Same
  <2>3. Same(chain', seen, Len(seen))
    BY <1>1, <1>2, <2>1, <2>2, SameVia
  <2>4. NoTwo(chain', Len(seen) + 1)
    BY <1>1, <1>2, <1>4, <2>1, NoTwoLonger
  <2> QED BY <1>1, <1>4, <2>1, <2>3, <2>4 DEF Seeding, States
<1> QED BY <1>4, <1>8, <1>9, <1>10, <1>11, <1>12 DEF Inv

\* What a fork without trouble leaves in common, and drops.
LEMMA ReorgIs ==
    ASSUME TypeOK, Reorg, Clean'
    PROVE  /\ Clean /\ pc = "handled" /\ (Rewinds' <=> Rewinds) /\ recent # <<>>
           /\ UNCHANGED <<pc, tip, record, cursor, recent, follow, followed, current, history, seen>>
           /\ chain' \in Seq(Blocks) /\ ~ Drops(chain', seen, cursor)
           /\ \E b \in Nat : /\ Same(chain, chain', b) /\ recent[1].height <= b + 1
                             /\ b + 1 <= Len(chain') /\ NoTwo(chain', b + 1)
<1>1. chain \in Seq(Blocks) /\ Len(chain) \in Nat /\ recent \in Seq(Entry)
  BY BlockType DEF TypeOK
<1>2. PICK d \in 1 .. MaxDepth, n \in 1 .. MaxDepth :
         /\ d <= Len(chain)
         /\ LET base == SubSeq(chain, 1, Len(chain) - d)
            IN  \E s \in Extensions(base, n) :
                   /\ chain' = base \o s
                   /\ trouble' = LostIf(
                         \/ Twice(s)
                         \/ recent = <<>> \/ Len(base) + 1 < recent[1].height
                         \/ Drops(chain', seen, cursor)
                         \/ pc # "handled")
  BY DEF Reorg
<1>m. MaxDepth \in Nat
  BY FollowAssumption
<1>3. Len(chain) - d \in 0 .. Len(chain) /\ n \in Nat \ {0}
  <2>1. Len(chain) \in Nat /\ d \in Nat /\ d >= 1 /\ n \in Nat /\ n >= 1 /\ d <= Len(chain)
    BY <1>1, <1>2, <1>m
  <2> QED BY <2>1
<1>4. PICK h \in 0 .. Len(chain) : h = Len(chain) - d
  BY <1>3
<1>5. PICK s \in Extensions(SubSeq(chain, 1, h), n) :
         /\ chain' = SubSeq(chain, 1, h) \o s
         /\ trouble' = LostIf(
               \/ Twice(s)
               \/ recent = <<>> \/ Len(SubSeq(chain, 1, h)) + 1 < recent[1].height
               \/ Drops(chain', seen, cursor)
               \/ pc # "handled")
  BY <1>2, <1>4
<1>6. Len(SubSeq(chain, 1, h)) = h
  BY <1>1, BlockType
<1>7. /\ chain' \in Seq(Blocks) /\ Len(chain') = h + n /\ Legal(chain') /\ Same(chain, chain', h)
      /\ ~ Twice(s) => NoTwo(chain', h + 1)
  <2>1. Forked(chain, h, n, s, chain')
    BY <1>1, <1>3, <1>5, ForkIs
  <2> QED BY <2>1 DEF Forked
<1>8. /\ Clean /\ (Rewinds' <=> Rewinds) /\ ~ Twice(s) /\ ~ Drops(chain', seen, cursor)
      /\ pc = "handled" /\ recent # <<>> /\ ~ (Len(SubSeq(chain, 1, h)) + 1 < recent[1].height)
  BY <1>5 DEF Clean, Rewinds, LostIf
<1>9. UNCHANGED <<pc, tip, record, cursor, recent, follow, followed, current, history, seen>>
  BY DEF Reorg, index
<1>10. recent[1].height \in Nat
  <2>1. 1 \in 1 .. Len(recent)
    BY <1>1, <1>8, EmptySeq
  <2>2. recent[1] \in Entry
    BY <1>1, <2>1, ElementOfSeq
  <2> QED BY <2>2 DEF Entry
<1>11. h \in Nat /\ recent[1].height <= h + 1 /\ h + 1 <= Len(chain')
  BY <1>1, <1>3, <1>6, <1>7, <1>8, <1>10
<1> QED BY <1>7, <1>8, <1>9, <1>11

\* A fork at rest leaves the chain followed last at a remembered height, and
\* drops none of the blocks above without a remembered one; or states are lost.
LEMMA ReorgInv == TypeOK /\ Inv /\ Reorg => Inv'
<1> SUFFICES ASSUME TypeOK, Inv, Reorg PROVE Inv'
  OBVIOUS
<1>1. Legal(chain)'
  <2>1. PICK d \in 1 .. MaxDepth, n \in 1 .. MaxDepth :
           /\ d <= Len(chain)
           /\ \E s \in Extensions(SubSeq(chain, 1, Len(chain) - d), n) :
                 chain' = SubSeq(chain, 1, Len(chain) - d) \o s
    BY DEF Reorg
  <2>m. MaxDepth \in Nat /\ chain \in Seq(Blocks) /\ Len(chain) \in Nat
    BY FollowAssumption DEF TypeOK
  <2>2. Len(chain) - d \in 0 .. Len(chain) /\ n \in Nat \ {0}
    <3>1. Len(chain) \in Nat /\ d \in Nat /\ d >= 1 /\ n \in Nat /\ n >= 1 /\ d <= Len(chain)
      BY <2>1, <2>m
    <3> QED BY <3>1
  <2>3. PICK h \in 0 .. Len(chain) : h = Len(chain) - d
    BY <2>2
  <2>4. PICK s \in Extensions(SubSeq(chain, 1, h), n) : chain' = SubSeq(chain, 1, h) \o s
    BY <2>1, <2>3
  <2>5. Forked(chain, h, n, s, chain')
    BY <2>m, <2>2, <2>4, ForkIs
  <2>6. Legal(chain')
    BY <2>5 DEF Forked
  <2> QED BY <2>6 DEF Legal
<1>i. Idle'
  BY DEF Inv, Idle, Reorg
<1>2. ASSUME Clean' PROVE pc' = "handled" /\ AtRest'
  <2>1. /\ Clean /\ pc = "handled" /\ (Rewinds' <=> Rewinds) /\ recent # <<>>
        /\ UNCHANGED <<pc, tip, record, cursor, recent, follow, followed, current, history, seen>>
        /\ chain' \in Seq(Blocks) /\ ~ Drops(chain', seen, cursor)
        /\ \E b \in Nat : /\ Same(chain, chain', b) /\ recent[1].height <= b + 1
                          /\ b + 1 <= Len(chain') /\ NoTwo(chain', b + 1)
    BY <1>2, ReorgIs
  <2>2. PICK b \in Nat : /\ Same(chain, chain', b) /\ recent[1].height <= b + 1
                         /\ b + 1 <= Len(chain') /\ NoTwo(chain', b + 1)
    BY <2>1
  <2>3. PICK old, lo : Rest(old, lo) /\ IF Rewinds THEN Len(old) = cursor ELSE seen = old /\ tip = cursor
    BY <2>1 DEF Inv, AtRest
  <2>4. AtOld(old, lo, cursor, chain, recent, States) /\ lo \in Nat /\ recent[1].height = lo
    BY <2>1, <2>3, RestIs DEF Rest
  <2>5. PICK d \in Seq(Blocks) : d = chain'
    BY <2>1
  <2>6. chain \in Seq(Blocks) /\ Len(d) \in Nat
    BY <2>5, BlockType DEF TypeOK
  <2>7. Same(chain, d, b) /\ lo <= b + 1 /\ lo <= Len(d) /\ NoTwo(d, b + 1)
    BY <2>2, <2>4, <2>5, <2>6
  <2>d. ~ Drops(d, old, cursor)
    <3>1. CASE Rewinds
      <4>1. ~ (Len(old) > cursor)
        BY <2>3, <3>1, RestIs
      <4> QED BY <4>1 DEF Drops
    <3>2. CASE ~ Rewinds
      BY <2>1, <2>3, <2>5, <3>2
    <3> QED BY <3>1, <3>2
  <2>8. AtOld(old, lo, cursor, d, recent, States)
    BY <2>1, <2>4, <2>6, <2>7, <2>d, AtOldMoves
  <2>9. Rest(old, lo)'
    BY <2>1, <2>5, <2>8 DEF Rest, States
  <2> QED BY <2>1, <2>3, <2>9 DEF AtRest
<1> QED BY <1>1, <1>i, <1>2 DEF Inv

\* Setting up a connection: what the replay and the catch-up find on the way is
\* not tracked.
LEMMA WalkInv ==
    ASSUME TypeOK, Inv, NEW h \in 1 .. Len(chain), Walk(h)
    PROVE  Inv'
<1>1. pc = "connect" /\ UNCHANGED <<chain, pc, recent, followed, trouble>>
  BY DEF Walk
<1>2. Legal(chain)' /\ Idle' /\ ~ Clean
  BY <1>1 DEF Inv, Legal, Idle
<1> QED BY <1>1, <1>2 DEF Inv, Clean

\* A coin of the chain that is melted, or unspent there, is the chain's last.
LEMMA CaughtUp ==
    ASSUME NEW c \in Seq(Blocks), Legal(c), NEW s \in State, OnChain(s, c),
           Melted(s.coin) \/ ~ IsStrictPrefix(s.coin, SpendsOf(c))
    PROVE  s.coin = SpendsOf(c)
<1> DEFINE t == SpendsOf(c)
           n == Len(s.coin)
<1>1. t \in Seq(Spends) /\ Len(t) \in Nat /\ SubSeq(t, 1, Len(t)) = t
  <2>1. t \in Seq(Spends)
    <3>1. Len(c) \in 0 .. Len(c)
      BY BlockType
    <3> QED BY <3>1, SpentStep
  <2> HIDE DEF t
  <2> QED BY <2>1, SubSeqFull, LenProperties
<1>2. n \in Nat /\ n <= Len(t) /\ s.coin = SubSeq(t, 1, n) /\ SubSeq(s.coin, 1, n) = s.coin
  <2>1. /\ n \in Nat /\ s.height \in Nat /\ s.height <= Len(c) /\ n <= Count(c, s.height)
        /\ s.coin = SubSeq(t, 1, n)
    BY OnChainIs
  <2>2. s.height \in 0 .. Len(c) /\ Len(c) \in 0 .. Len(c) /\ Len(c) \in Nat
    BY <2>1, BlockType
  <2>3. Count(c, s.height) <= Count(c, Len(c)) /\ Count(c, s.height) \in Nat /\ Count(c, Len(c)) = Len(t)
    BY <2>1, <2>2, SpentPrefix, SpentStep DEF Count
  <2>4. n <= Len(t)
    BY <1>1, <2>1, <2>3
  <2>5. SubSeq(s.coin, 1, n) = s.coin
    <3>1. s.coin \in Seq(Spends \cup {"none"})
      BY DEF State, Coin
    <3> QED BY <3>1, SubSeqFull
  <2> QED BY <2>1, <2>4, <2>5
<1>3. IsPrefix(s.coin, t)
  <2> HIDE DEF t
  <2> QED BY <1>2 DEF IsPrefix
<1>4. CASE ~ IsStrictPrefix(s.coin, t)
  BY <1>3, <1>4 DEF IsStrictPrefix
<1>5. CASE Melted(s.coin)
  <2>1. s.coin # <<>> /\ Last(s.coin) = Melt
    BY <1>5 DEF Melted
  <2>2. n # 0
    <3>1. s.coin \in Seq(Spends \cup {"none"})
      BY DEF State, Coin
    <3> QED BY <2>1, <3>1, EmptySeq
  <2>3. n \in 1 .. n /\ n \in 1 .. Len(t)
    BY <1>1, <1>2, <2>2
  <2>4. t[n] = Melt
    <3> HIDE DEF t
    <3>1. s.coin[n] = Melt
      BY <2>1 DEF Last
    <3>2. \A i \in 1 .. n : i \in 1 .. Len(t)
      BY <1>1, <1>2
    <3>3. \A i \in 1 .. n : t[i] \in Spends
      BY <1>1, <3>2, ElementOfSeq
    <3> HIDE DEF n
    <3>4. SubSeq(t, 1, n)[n] = t[n]
      BY <1>2, <2>3, <3>3, SubSeqProperties
    <3> QED BY <1>2, <3>1, <3>4
  <2>5. ~ (n \in 1 .. Len(t) - 1)
    BY <2>4 DEF Legal
  <2>6. n = Len(t)
    BY <1>1, <1>2, <2>3, <2>5
  <2> QED BY <1>1, <1>2, <2>6
<1> QED BY <1>4, <1>5

LEMMA CatchUpInv == TypeOK /\ Inv /\ CatchUp => Inv'
<1> SUFFICES ASSUME TypeOK, Inv, CatchUp PROVE Inv'
  OBVIOUS
<1>1. /\ pc = "connect" /\ pc' = "seed" /\ seen' = chain
      /\ Melted(current.coin) \/ ~ IsStrictPrefix(current.coin, SpendsOf(chain))
      /\ trouble' = IF Unbroken(Append(history, current), chain, Len(chain)) THEN "none" ELSE "lost"
      /\ UNCHANGED <<chain, recent, followed, current, history>>
  BY DEF CatchUp, index
<1>2. Legal(chain) /\ Legal(chain)' /\ Idle'
  BY <1>1 DEF Inv, Legal, Idle
<1>t. chain \in Seq(Blocks) /\ Len(chain) \in Nat /\ current \in State /\ history \in Seq(State)
  BY BlockType DEF TypeOK
<1>3. ASSUME Clean' PROVE Seeding'
  <2>1. Unbroken(States, chain, Len(chain)) /\ ~ Rewinds'
    BY <1>1, <1>3 DEF Clean, Rewinds, States
  <2>2. /\ States \in Seq(State) /\ Last(States) = current
        /\ Len(history) + 1 \in 1 .. Len(States) /\ States[Len(history) + 1] = current
    BY <1>t, AppendIs DEF States
  <2>3. OnChain(current, chain)
    <3>1. \A i \in 1 .. Len(States) : OnChain(States[i], chain)
      BY <2>1, <2>2, UnbrokenIs
    <3> QED BY <2>2, <3>1
  <2>4. current.coin = SpendsOf(chain)
    BY <1>1, <1>2, <1>t, <2>3, CaughtUp
  <2>5. UpTo(chain, States, Len(chain))
    BY <2>1, <2>2, <2>4 DEF UpTo
  <2>6. Same(chain, chain, Len(chain)) /\ NoTwo(chain, Len(chain) + 1)
    <3>1. \A i \in 1 .. Len(chain) : ~ (i >= Len(chain) + 1)
      BY <1>t
    <3> QED BY <1>t, <3>1 DEF Same, NoTwo
  <2> QED BY <1>1, <2>1, <2>5, <2>6 DEF Seeding, States
<1> QED BY <1>1, <1>2, <1>3 DEF Inv

\* The height to follow from is that of a chain without spends above the one
\* caught up with.
LEMMA SeedCursorInv == TypeOK /\ Inv /\ SeedCursor => Inv'
<1> SUFFICES ASSUME TypeOK, Inv, SeedCursor PROVE Inv'
  OBVIOUS
<1>1. /\ pc = "seed" /\ pc' = "record" /\ cursor' = Len(chain) /\ tip' = Len(chain) /\ seen' = chain
      /\ trouble' = LostIf(SpendsOf(chain) # SpendsOf(seen))
      /\ UNCHANGED <<chain, recent, followed, current, history>>
  BY DEF SeedCursor, index
<1>2. Legal(chain)' /\ Idle' /\ recent = <<>>
  BY <1>1 DEF Inv, Legal, Idle
<1>3. ASSUME Clean' PROVE AtRest' /\ ~ Rewinds'
  <2>1. Clean /\ trouble' = trouble /\ SpendsOf(chain) = SpendsOf(seen)
    BY <1>1, <1>3 DEF Clean, LostIf
  <2>2. UpTo(seen, States, Len(seen)) /\ Same(chain, seen, Len(seen)) /\ ~ Rewinds
    BY <1>1, <2>1 DEF Inv, Seeding
  <2>3. chain \in Seq(Blocks) /\ seen \in Seq(Blocks) /\ States \in Seq(State) /\ States # <<>>
    BY AppendIs DEF TypeOK, States
  <2>4. AtOld(chain, Len(chain), Len(chain), chain, <<>>, States)
    BY <2>1, <2>2, <2>3, SeedAt
  <2>5. PICK c, l : c = chain /\ l = Len(chain)
    OBVIOUS
  <2>6. Rest(c, l)' /\ seen' = c /\ tip' = cursor'
    BY <1>1, <1>2, <2>4, <2>5 DEF Rest, States
  <2>7. ~ Rewinds'
    BY <2>1, <2>2 DEF Rewinds
  <2> QED BY <2>6, <2>7 DEF AtRest
<1> QED BY <1>1, <1>2, <1>3 DEF Inv

\* Its record is the window's first entry.
LEMMA SeedRecordInv == TypeOK /\ Inv /\ SeedRecord => Inv'
<1> SUFFICES ASSUME TypeOK, Inv, SeedRecord PROVE Inv'
  OBVIOUS
<1>1. /\ pc = "record" /\ pc' = "handled" /\ cursor <= Len(chain)
      /\ recent' = <<[height |-> cursor, hash |-> SubSeq(chain, 1, cursor)]>>
      /\ UNCHANGED <<chain, tip, cursor, followed, seen, trouble, current, history>>
  BY DEF SeedRecord, index, Hash
<1>2. Legal(chain)' /\ Idle' /\ recent = <<>>
  BY <1>1 DEF Inv, Legal, Idle
<1>3. ASSUME Clean PROVE AtRest'
  <2>1. AtRest /\ ~ Rewinds
    BY <1>1, <1>3 DEF Inv
  <2>2. PICK old, lo : Rest(old, lo) /\ seen = old /\ tip = cursor
    BY <2>1 DEF AtRest
  <2>3. /\ old \in Seq(Blocks) /\ cursor \in Nat /\ lo = cursor /\ Same(chain, old, cursor) /\ cursor <= Len(old)
    BY <1>2, <2>2, RestIs
  <2>4. PICK a \in Nat : a = cursor
    BY <2>3
  <2>5. recent' = Peaks(old, a, 1)
    <3>1. PICK e : e = [height |-> a + 0, hash |-> SubSeq(old, 1, a + 0)]
      OBVIOUS
    <3>2. a + 0 = a /\ a + 0 <= Len(old) /\ 0 \in Nat
      BY <2>3, <2>4
    <3>3. Append(Peaks(old, a, 0), e) = Peaks(old, a, 0 + 1)
      BY <2>3, <3>1, <3>2, PeaksNext
    <3>4. Append(Peaks(old, a, 0), e) = <<e>>
      <4>1. Append(<<>>, e) = <<e>>
        OBVIOUS
      <4>2. Peaks(old, a, 0) = <<>>
        BY PeaksEmpty
      <4> QED BY <4>1, <4>2
    <3>5. e = [height |-> cursor, hash |-> SubSeq(chain, 1, cursor)]
      BY <2>3, <2>4, <3>1, <3>2 DEF Same
    <3>6. 0 + 1 = 1
      OBVIOUS
    <3>7. Peaks(old, a, 1) = <<e>>
      BY ONLY <3>3, <3>4, <3>6
    <3>8. recent' = <<[height |-> cursor, hash |-> SubSeq(chain, 1, cursor)]>>
      BY <1>1
    <3> QED BY ONLY <3>5, <3>7, <3>8
  <2>6. AtOld(old, a, a, chain, <<>>, States) /\ a + 1 - a = 1
    BY <1>2, <2>2, <2>3, <2>4 DEF Rest
  <2>7. AtOld(old, a, a, chain, recent', States)
    <3>1. Remembers(recent', old, a, a, chain)
      BY <2>5, <2>6 DEF Remembers
    <3> QED BY <2>6, <3>1 DEF AtOld
  <2>8. Rest(old, a)' /\ seen' = old /\ tip' = cursor'
    BY <1>1, <2>2, <2>4, <2>7 DEF Rest, States
  <2>9. ~ Rewinds'
    BY <1>1, <2>1 DEF Rewinds
  <2> QED BY <2>8, <2>9 DEF AtRest
<1> QED BY <1>1, <1>2, <1>3 DEF Inv, Clean

\* Without it the window stays empty.
LEMMA SeedMissInv == TypeOK /\ Inv /\ SeedMiss => Inv'
<1> SUFFICES ASSUME TypeOK, Inv, SeedMiss PROVE Inv'
  OBVIOUS
<1>1. /\ pc = "record" /\ pc' = "handled"
      /\ UNCHANGED <<chain, tip, cursor, recent, followed, seen, trouble, current, history>>
  BY DEF SeedMiss, index
<1>2. Legal(chain)' /\ Idle'
  BY <1>1 DEF Inv, Legal, Idle
<1>3. ASSUME Clean PROVE AtRest'
  <2>1. AtRest
    BY <1>1, <1>3 DEF Inv
  <2>2. PICK old, lo : Rest(old, lo) /\ IF Rewinds THEN Len(old) = cursor ELSE seen = old /\ tip = cursor
    BY <2>1 DEF AtRest
  <2>3. Rest(old, lo)'
    BY <1>1, <2>2 DEF Rest, States
  <2> QED BY <1>1, <2>2, <2>3 DEF AtRest, Rewinds
<1> QED BY <1>1, <1>2, <1>3 DEF Inv, Clean

\* After a missing record, a failed call or a closed socket states are lost
\* until the next connection has caught up.
LEMMA MissInv ==
    ASSUME TypeOK, Inv,
           \/ CheckMiss \/ PeakMiss \/ FollowMiss \/ FollowFailed \/ FollowError \/ Reconnect
    PROVE  Inv'
<1>1. chain' = chain /\ ~ Clean'
  BY DEF CheckMiss, PeakMiss, FollowMiss, FollowFailed, FollowError, Reconnect, Clean
<1>2. Legal(chain)'
  BY <1>1 DEF Inv, Legal
<1>3. Idle'
  <2>1. CASE CheckMiss \/ PeakMiss
    BY <2>1 DEF Inv, Idle, CheckMiss, PeakMiss
  <2>2. CASE FollowMiss \/ FollowFailed
    BY <2>2 DEF Inv, Idle, FollowMiss, FollowFailed
  <2>3. CASE FollowError \/ Reconnect
    BY <2>3 DEF Inv, Idle, FollowError, Reconnect
  <2> QED BY <2>1, <2>2, <2>3
<1> QED BY <1>1, <1>2, <1>3 DEF Inv

LEMMA InvInit == Init => Inv
<1> SUFFICES ASSUME Init PROVE Inv
  OBVIOUS
<1>1. /\ chain = Start /\ pc = "connect" /\ recent = <<>> /\ followed = <<>> /\ trouble = "lost"
  BY DEF Init
<1>2. Legal(chain) /\ Idle /\ ~ Clean
  BY <1>1, LegalStart DEF Idle, Clean
<1> QED BY <1>1, <1>2 DEF Inv

LEMMA InvNext == TypeOK /\ Inv /\ [Next]_vars => Inv'
<1> SUFFICES ASSUME TypeOK, Inv, [Next]_vars PROVE Inv'
  OBVIOUS
<1>1. CASE Grow
  BY <1>1, GrowInv
<1>2. CASE Reorg
  BY <1>2, ReorgInv
<1>3. CASE \E h \in 1 .. Len(chain) : Walk(h)
  <2>1. PICK h \in 1 .. Len(chain) : Walk(h)
    BY <1>3
  <2> QED BY <2>1, WalkInv
<1>4. CASE CatchUp
  BY <1>4, CatchUpInv
<1>5. CASE SeedCursor
  BY <1>5, SeedCursorInv
<1>6. CASE SeedRecord
  BY <1>6, SeedRecordInv
<1>7. CASE SeedMiss
  BY <1>7, SeedMissInv
<1>8. CASE Peak
  BY <1>8, PeakInv
<1>9. CASE Check
  BY <1>9, CheckInv
<1>10. CASE \E h \in 1 .. Len(chain) : Transition(h)
  <2>1. PICK h \in 1 .. Len(chain) : Transition(h)
    BY <1>10
  <2> QED BY <2>1, TransitionInv
<1>11. CASE Synced
  BY <1>11, SyncedInv
<1>12. CASE Follow
  BY <1>12, FollowInv
<1>13. CASE Finish
  BY <1>13, FinishInv
<1>14. CASE \/ CheckMiss \/ PeakMiss \/ FollowMiss \/ FollowFailed \/ FollowError \/ Reconnect
  BY <1>14, MissInv
<1>15. CASE UNCHANGED vars
  <2>1. UNCHANGED <<chain, pc, tip, record, cursor, recent, follow, followed, current, history, seen, trouble>>
    BY <1>15 DEF vars, index
  <2>2. /\ Clean' = Clean /\ Rewinds' = Rewinds /\ Legal(chain)' = Legal(chain) /\ Handling' = Handling
        /\ Idle' = Idle /\ Seeding' = Seeding
        /\ \A old, lo : Rest(old, lo)' = Rest(old, lo)
        /\ \A lo, n, m, low : Walking(lo, n, m, low)' = Walking(lo, n, m, low)
    BY <2>1 DEF Clean, Rewinds, Legal, Handling, Idle, Seeding, Rest, Walking, States
  <2>3. AtRest' = AtRest /\ InCheck' = InCheck /\ InRewind' = InRewind /\ InWalk' = InWalk
    BY <2>1, <2>2 DEF AtRest, InCheck, InRewind, InWalk
  <2> QED BY <2>1, <2>2, <2>3 DEF Inv
<1> QED BY <1>1, <1>2, <1>3, <1>4, <1>5, <1>6, <1>7, <1>8, <1>9, <1>10, <1>11, <1>12, <1>13,
           <1>14, <1>15 DEF Next

\* What has been followed, when a peak has been handled without trouble.
LEMMA RestNow ==
    ASSUME TypeOK, Inv, pc = "handled", trouble = "none"
    PROVE  /\ seen \in Seq(Blocks) /\ tip \in Nat /\ Len(seen) \in Nat /\ tip <= Len(seen)
           /\ States \in Seq(State) /\ States # <<>> /\ Last(States) = current
           /\ \E lo \in Nat : UpTo(seen, States, lo) /\ (recent # <<>> => recent[1].height = lo)
<1>1. Clean /\ ~ Rewinds
  BY DEF Clean, Rewinds
<1>2. PICK old, lo : Rest(old, lo) /\ seen = old /\ tip = cursor
  BY <1>1 DEF Inv, AtRest
<1>3. /\ old \in Seq(Blocks) /\ lo \in Nat /\ cursor <= Len(old) /\ cursor \in Nat /\ Len(old) \in Nat
      /\ recent # <<>> => recent[1].height = lo
  BY <1>2, RestIs
<1>4. UpTo(old, States, lo)
  BY <1>2 DEF Rest, AtOld
<1>5. States \in Seq(State) /\ States # <<>> /\ Last(States) = current
  BY AppendIs DEF TypeOK, States
<1> QED BY <1>2, <1>3, <1>4, <1>5

LEMMA TracksNow == TypeOK /\ Inv => Tracks
<1> SUFFICES ASSUME TypeOK, Inv, pc = "handled", trouble = "none"
             PROVE  current = StateOn(seen)
  BY DEF Tracks
<1>1. PICK lo \in Nat : UpTo(seen, States, lo)
  BY RestNow
<1>2. seen \in Seq(Blocks) /\ States \in Seq(State) /\ States # <<>> /\ Last(States) = current
  BY RestNow
<1>3. current \in State /\ current = States[Len(States)] /\ Len(States) \in 1 .. Len(States)
  BY <1>2, LastIn
<1>4. Unbroken(States, seen, lo) /\ current.coin = SpendsOf(seen)
  BY <1>1, <1>2 DEF UpTo
<1>5. OnChain(current, seen)
  <2>1. \A i \in 1 .. Len(States) : OnChain(States[i], seen)
    BY <1>2, <1>4, UnbrokenIs
  <2> QED BY <1>3, <2>1
<1>6. Len(current.coin) = Len(SpendsOf(seen))
  BY <1>4
<1> QED BY <1>2, <1>3, <1>5, <1>6, StateOnIs

LEMMA RollbackReadyNow == TypeOK /\ Inv => RollbackReady
<1> SUFFICES ASSUME TypeOK, Inv, pc = "handled", trouble = "none", recent # <<>>,
                    NEW from \in recent[1].height .. tip, from > 0
             PROVE  /\ Below(States, from) # <<>>
                    /\ Last(Below(States, from)) = StateOn(SubSeq(seen, 1, from - 1))
  BY DEF RollbackReady, States
<1>1. /\ seen \in Seq(Blocks) /\ tip \in Nat /\ Len(seen) \in Nat /\ tip <= Len(seen)
      /\ States \in Seq(State) /\ States # <<>>
  BY RestNow DEF TypeOK
<1>2. PICK lo \in Nat : UpTo(seen, States, lo) /\ recent[1].height = lo
  BY RestNow
<1>3. PICK f \in 1 .. Len(seen) + 1 : f = from /\ lo <= f
  <2>1. from \in 1 .. Len(seen) + 1 /\ lo <= from
    BY <1>1, <1>2
  <2> QED BY <2>1
<1>p. PICK q \in Seq(State) : q = States
  BY <1>1
<1>4. PICK k \in 1 .. Len(q) : Split(q, k, f) /\ q[k] = StateOn(SubSeq(seen, 1, f - 1))
  <2>1. lo \in Int /\ UpTo(seen, q, lo) /\ q # <<>>
    BY <1>1, <1>2, <1>p
  <2> QED BY <1>1, <1>3, <2>1, Ready
<1>5. Len(q) \in Nat /\ k \in 0 .. Len(q) /\ f \in Int /\ \A x \in State : x.height \in Nat
  BY DEF State
<1>6. Below(q, f) = SubSeq(q, 1, k)
  BY <1>4, <1>5, BelowIs
<1>7. /\ SubSeq(q, 1, k) \in Seq(State) /\ Len(SubSeq(q, 1, k)) = k /\ SubSeq(q, 1, k)[k] = q[k]
  <2>1. /\ k \in Nat /\ k >= 1 /\ k <= Len(q)
    BY <1>4, <1>5
  <2> QED BY <2>1
<1>8. SubSeq(q, 1, k) # <<>> /\ Last(SubSeq(q, 1, k)) = q[k]
  <2>1. SubSeq(q, 1, k) # <<>>
    BY <1>4, <1>7
  <2> QED BY <1>7, <2>1, LastIn
<1>9. Below(q, f) # <<>> /\ Last(Below(q, f)) = StateOn(SubSeq(seen, 1, f - 1))
  BY <1>4, <1>6, <1>8
<1> QED BY <1>3, <1>9, <1>p

-----------------------------------------------------------------------------
\* The variables of the peak handler keep their types: heights are natural
\* numbers, the window holds heights with header hashes, and the followed
\* singleton's states are coins with the heights that created them.
THEOREM FollowTypeOK == Spec => []TypeOK
<1>1. Init => TypeOK
  BY TypeInit
<1>2. TypeOK /\ [Next]_vars => TypeOK'
  BY TypeNext
<1> QED BY <1>1, <1>2, PTL DEF Spec

\* The inductive invariant.
LEMMA FollowInvariant == Spec => [](TypeOK /\ Inv)
<1>1. Init => TypeOK /\ Inv
  BY TypeInit, InvInit
<1>2. TypeOK /\ Inv /\ [Next]_vars => (TypeOK /\ Inv)'
  BY TypeNext, InvNext
<1> QED BY <1>1, <1>2, PTL DEF Spec

\* After every handled peak, without the exceptions Tracks names, the state
\* the listener serves is the one the chain implies up to the peak, or to the
\* last block a registry's spend took: for every chain, every window, any
\* forks within the window, and any number of new connections.
THEOREM FollowTracks == Spec => []Tracks
<1>1. TypeOK /\ Inv => Tracks
  BY TracksNow
<1> QED BY <1>1, FollowInvariant, PTL

\* Below every height of the remembered window, what SingletonHistory::prune
\* has kept ends with the state of the chain there.
THEOREM FollowRollbackReady == Spec => []RollbackReady
<1>1. TypeOK /\ Inv => RollbackReady
  BY RollbackReadyNow
<1> QED BY <1>1, FollowInvariant, PTL
=============================================================================
