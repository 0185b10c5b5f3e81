--------------------------- MODULE SkillRoots_proofs ---------------------------
(***************************************************************************)
(* SkillRoots: the conversion of the skills roots goes back to the disk    *)
(* exactly as it was.                                                      *)
(*                                                                         *)
(* While nobody else writes, the disk is where k steps of the plan lead    *)
(* from the disk that the plan was made from (Trail), k being what the log *)
(* says, one more, or less while they are taken back (Place).  Each step   *)
(* can be taken back exactly (StepBack), and the order of the plan makes   *)
(* sure that no step that was not taken looks as if it was (PlanSound), so *)
(* that the script, whose log may be one line behind, takes back the last  *)
(* step and no other (TakesBackTheLast). That holds for every plan: the    *)
(* steps are laid end to end by FlattenSeq, whose recursion is reasoned    *)
(* about by the least step for which it would fail (LeastNatural).         *)
(***************************************************************************)
EXTENDS SkillRoots, FiniteSetTheorems, SequenceTheorems, TLAPS

\* A set of naturals has a least member.
\* It stands for induction over the steps of a plan.
LEMMA LeastNatural ==
  ASSUME NEW T \in SUBSET Nat, T # {}
  PROVE  \E m \in T : \A k \in T : m <= k
<1> DEFINE D == {0..m : m \in T}
<1>1. D \subseteq FiniteSubsetsOf(Nat) /\ D # {}
  <2> SUFFICES ASSUME NEW m \in T PROVE 0..m \in FiniteSubsetsOf(Nat)
    OBVIOUS
  <2>1. IsFiniteSet(0..m) BY FS_Interval
  <2> QED BY <2>1 DEF FiniteSubsetsOf
<1>2. \E x \in D : \A y \in D : ~ (<<y, x>> \in StrictSubsetOrdering(Nat))
  <2> HIDE DEF D
  <2> QED BY <1>1, FS_StrictSubsetOrderingWellFounded, WFMin
<1>3. PICK m \in T : \A k \in T : ~ (<<0..k, 0..m>> \in StrictSubsetOrdering(Nat))
  BY <1>2
<1> SUFFICES ASSUME NEW k \in T, k < m PROVE FALSE
  OBVIOUS
<1>4. m \in 0..m /\ m \notin 0..k OBVIOUS
<1>5. 0..k \subseteq 0..m OBVIOUS
<1>6. 0..k \in SUBSET Nat /\ 0..m \in SUBSET Nat OBVIOUS
<1>7. <<0..k, 0..m>> \in StrictSubsetOrdering(Nat)
  BY <1>4, <1>5, <1>6 DEF StrictSubsetOrdering
<1> QED BY <1>3, <1>7

\* What holds of 1, and of k when it holds of k - 1, holds up to n.
LEMMA UpTo ==
  ASSUME NEW n \in Nat, NEW S, n >= 1 => 1 \in S, \A k \in 2..n : k - 1 \in S => k \in S
  PROVE  \A k \in 1..n : k \in S
<1> DEFINE Bad == {m \in 1..n : m \notin S}
<1> SUFFICES ASSUME Bad # {} PROVE FALSE OBVIOUS
<1>1. Bad \subseteq Nat OBVIOUS
<1>2. PICK m \in Bad : \A k \in Bad : m <= k
  <2> HIDE DEF Bad
  <2> QED BY <1>1, LeastNatural
<1>3. m \in 2..n /\ m - 1 \in 1..n /\ m \notin S OBVIOUS
<1>4. m - 1 \notin S BY <1>3
<1>5. m - 1 \in Bad BY <1>3, <1>4
<1> HIDE DEF Bad
<1> QED BY <1>2, <1>3, <1>5

\* g[i] is the first i sequences of s, end to end.
Chain(T, s, m, g) == g \in [1..m -> Seq(T)] /\ \A i \in 1..m : g[i] = IF i = 1 THEN s[i] ELSE g[i-1] \o s[i]
\* F goes through the first m sequences of s, in their order.
Laid(s, F, m) ==
  \E u, v \in [1..Len(F) -> Nat] :
    /\ \A k \in 1..Len(F) : u[k] \in 1..m /\ v[k] \in 1..Len(s[u[k]]) /\ F[k] = s[u[k]][v[k]]
    /\ \A k, l \in 1..Len(F) : k < l => u[k] < u[l] \/ (u[k] = u[l] /\ v[k] < v[l])

\* The end-to-end sequences can be continued by one.
LEMMA ChainExtends ==
  ASSUME NEW T, NEW s \in Seq(Seq(T)), NEW m \in 2..Len(s), NEW g, Chain(T, s, m - 1, g)
  PROVE  \E h : Chain(T, s, m, h)
<1> DEFINE h == [i \in 1..m |-> IF i = m THEN g[m-1] \o s[m] ELSE g[i]]
<1>0. Len(s) \in Nat /\ m \in Nat /\ m - 1 \in 1..(m-1) /\ m \in 1..Len(s) OBVIOUS
<1>1. s[m] \in Seq(T) BY <1>0
<1>2. g[m-1] \in Seq(T) BY <1>0 DEF Chain
<1>3. g[m-1] \o s[m] \in Seq(T) BY <1>1, <1>2
<1>5. h \in [1..m -> Seq(T)]
  <2> SUFFICES ASSUME NEW i \in 1..m PROVE h[i] \in Seq(T) OBVIOUS
  <2>1. CASE i = m BY <1>3, <2>1
  <2>2. CASE i # m BY <2>2 DEF Chain
  <2> QED BY <2>1, <2>2
<1>6. ASSUME NEW i \in 1..m PROVE h[i] = IF i = 1 THEN s[i] ELSE h[i-1] \o s[i]
  <2>1. CASE i = m
    <3>1. h[i] = g[m-1] \o s[m] BY <2>1
    <3>2. h[m-1] = g[m-1] BY <1>0
    <3>3. m # 1 OBVIOUS
    <3> HIDE DEF h
    <3> QED BY <3>1, <3>2, <3>3, <2>1
  <2>2. CASE i # m
    <3>1. i \in 1..(m-1) BY <2>2
    <3>2. h[i] = g[i] BY <2>2
    <3>3. i # 1 => h[i-1] = g[i-1] BY <3>1
    <3>4. g[i] = IF i = 1 THEN s[i] ELSE g[i-1] \o s[i] BY <3>1 DEF Chain
    <3> HIDE DEF h
    <3> QED BY <3>4, <3>2, <3>3
  <2> QED BY <2>1, <2>2
<1>7. Chain(T, s, m, h) BY <1>5, <1>6 DEF Chain
<1> QED BY <1>7

\* FlattenSeq is the last of them: the recursive function in it has a value.
LEMMA Chained ==
  ASSUME NEW T, NEW s \in Seq(Seq(T)), Len(s) # 0
  PROVE  \E g : Chain(T, s, Len(s), g) /\ FlattenSeq(s) = g[Len(s)]
<1> DEFINE Good == {m \in 1..Len(s) : \E g : Chain(T, s, m, g)}
<1>0. Len(s) \in Nat /\ Len(s) >= 1 /\ Len(s) \in 1..Len(s) OBVIOUS
<1>1. \A m \in 1..Len(s) : m \in Good
  <2>1. 1 \in Good
    <3>1. Chain(T, s, 1, [i \in 1..1 |-> s[i]]) BY <1>0 DEF Chain
    <3> QED BY <3>1, <1>0
  <2>2. ASSUME NEW m \in 2..Len(s), m - 1 \in Good PROVE m \in Good
    <3>1. PICK g : Chain(T, s, m - 1, g) BY <2>2
    <3>2. \E h : Chain(T, s, m, h) BY <3>1, ChainExtends
    <3>3. m \in 1..Len(s) OBVIOUS
    <3> QED BY <3>2, <3>3
  <2> HIDE DEF Good
  <2> QED BY <2>1, <2>2, <1>0, UpTo
<1>2. PICK g : Chain(T, s, Len(s), g) BY <1>1, <1>0
<1> DEFINE R(f) == f = [i \in 1..Len(s) |-> IF i = 1 THEN s[i] ELSE f[i-1] \o s[i]]
<1>3. R(g) BY <1>2 DEF Chain
<1> DEFINE h == CHOOSE f : R(f)
<1>4. R(h) BY <1>3
<1>5. FlattenSeq(s) = h[Len(s)] BY <1>0 DEF FlattenSeq
<1> HIDE DEF h
<1>6. h = [i \in 1..Len(s) |-> IF i = 1 THEN s[i] ELSE h[i-1] \o s[i]] BY <1>4
<1> DEFINE Typed == {i \in 1..Len(s) : h[i] \in Seq(T)}
<1>7. \A m \in 1..Len(s) : m \in Typed
  <2>1. 1 \in Typed BY <1>0, <1>6
  <2>2. ASSUME NEW m \in 2..Len(s), m - 1 \in Typed PROVE m \in Typed
    <3>1. m \in 1..Len(s) /\ m # 1 /\ s[m] \in Seq(T) OBVIOUS
    <3>2. h[m] = h[m-1] \o s[m] BY <1>6, <3>1
    <3>3. h[m-1] \in Seq(T) BY <2>2
    <3>4. h[m-1] \o s[m] \in Seq(T) BY <3>3, <3>1
    <3> QED BY <3>1, <3>2, <3>4
  <2> HIDE DEF Typed
  <2> QED BY <2>1, <2>2, <1>0, UpTo
<1>8. h \in [1..Len(s) -> Seq(T)] BY <1>6, <1>7
<1>9. Chain(T, s, Len(s), h) BY <1>6, <1>8 DEF Chain
<1> QED BY <1>9, <1>5

\* The first sequence goes through itself.
LEMMA LaidFirst ==
  ASSUME NEW T, NEW s \in Seq(Seq(T)), Len(s) # 0
  PROVE  Laid(s, s[1], 1)
<1> DEFINE u == [k \in 1..Len(s[1]) |-> 1]
           v == [k \in 1..Len(s[1]) |-> k]
<1>1. s[1] \in Seq(T) BY 1 \in 1..Len(s)
<1>2. u \in [1..Len(s[1]) -> Nat] /\ v \in [1..Len(s[1]) -> Nat] OBVIOUS
<1>3. \A k \in 1..Len(s[1]) : u[k] \in 1..1 /\ v[k] \in 1..Len(s[u[k]]) /\ s[1][k] = s[u[k]][v[k]] OBVIOUS
<1>4. \A k, l \in 1..Len(s[1]) : k < l => u[k] < u[l] \/ (u[k] = u[l] /\ v[k] < v[l]) OBVIOUS
<1> HIDE DEF u, v
<1> QED BY <1>2, <1>3, <1>4 DEF Laid

\* What goes through m - 1 sequences goes, with the next one at its end, through m.
LEMMA LaidNext ==
  ASSUME NEW T, NEW s \in Seq(Seq(T)), NEW m \in 2..Len(s), NEW F \in Seq(T), Laid(s, F, m - 1)
  PROVE  Laid(s, F \o s[m], m)
<1> DEFINE n == Len(F)
           G == F \o s[m]
<1>0. s[m] \in Seq(T) /\ m \in Nat /\ m >= 2 BY m \in 1..Len(s)
<1>1. /\ n \in Nat /\ Len(s[m]) \in Nat /\ Len(G) = n + Len(s[m])
      /\ \A k \in 1..n : G[k] = F[k]
      /\ \A k \in (n+1)..(n + Len(s[m])) : G[k] = s[m][k - n]
  BY <1>0
<1>2. PICK u \in [1..n -> Nat], v \in [1..n -> Nat] :
         /\ \A k \in 1..n : u[k] \in 1..(m-1) /\ v[k] \in 1..Len(s[u[k]]) /\ F[k] = s[u[k]][v[k]]
         /\ \A k, l \in 1..n : k < l => u[k] < u[l] \/ (u[k] = u[l] /\ v[k] < v[l])
  BY DEF Laid
<1> DEFINE u2 == [k \in 1..Len(G) |-> IF k <= n THEN u[k] ELSE m]
           v2 == [k \in 1..Len(G) |-> IF k <= n THEN v[k] ELSE k - n]
<1> HIDE DEF n, G
<1>3. u2 \in [1..Len(G) -> Nat] /\ v2 \in [1..Len(G) -> Nat]
  <2> SUFFICES ASSUME NEW k \in 1..Len(G)
               PROVE  (k <= n => u[k] \in Nat /\ v[k] \in Nat) /\ (~(k <= n) => k - n \in Nat)
    BY <1>0
  <2>1. k <= n => k \in 1..n BY <1>1
  <2> QED BY <2>1, <1>1
<1>4. ASSUME NEW k \in 1..Len(G)
      PROVE  u2[k] \in 1..m /\ v2[k] \in 1..Len(s[u2[k]]) /\ G[k] = s[u2[k]][v2[k]]
  <2>1. CASE k <= n
    <3>1. k \in 1..n BY <2>1
    <3>2. u2[k] = u[k] /\ v2[k] = v[k] BY <2>1
    <3>3. u[k] \in 1..m BY <3>1, <1>2, <1>0
    <3> HIDE DEF u2, v2
    <3> QED BY <3>1, <3>2, <3>3, <1>2, <1>1
  <2>2. CASE ~(k <= n)
    <3>1. k \in (n+1)..(n + Len(s[m])) BY <2>2, <1>1
    <3>2. u2[k] = m /\ v2[k] = k - n BY <2>2
    <3> HIDE DEF u2, v2
    <3> QED BY <3>1, <3>2, <1>1, <1>0
  <2> QED BY <2>1, <2>2
<1>5. ASSUME NEW k \in 1..Len(G), NEW l \in 1..Len(G), k < l
      PROVE  u2[k] < u2[l] \/ (u2[k] = u2[l] /\ v2[k] < v2[l])
  <2>1. CASE l <= n
    <3>1. k \in 1..n /\ l \in 1..n BY <2>1, <1>1, <1>5
    <3>2. u2[k] = u[k] /\ v2[k] = v[k] /\ u2[l] = u[l] /\ v2[l] = v[l] BY <3>1, <1>1
    <3> HIDE DEF u2, v2
    <3> QED BY <3>1, <3>2, <1>2, <1>5
  <2>2. CASE k <= n /\ ~(l <= n)
    <3>1. k \in 1..n BY <2>2, <1>1
    <3>2. u2[k] = u[k] /\ u2[l] = m BY <2>2
    <3> HIDE DEF u2, v2
    <3> QED BY <3>1, <3>2, <1>2, <1>0
  <2>3. CASE ~(k <= n)
    <3>1. u2[k] = m /\ u2[l] = m /\ v2[k] = k - n /\ v2[l] = l - n BY <2>3, <1>1, <1>5
    <3> HIDE DEF u2, v2
    <3> QED BY <3>1, <1>1, <1>5
  <2> QED BY <2>1, <2>2, <2>3
<1> HIDE DEF u2, v2
<1>6. Laid(s, G, m) BY <1>3, <1>4, <1>5 DEF Laid
<1> QED BY <1>6 DEF G

\* FlattenSeq(s) goes through the sequences of s in order, each from its start.
LEMMA Flattened ==
  ASSUME NEW T, NEW s \in Seq(Seq(T))
  PROVE  FlattenSeq(s) \in Seq(T) /\ Laid(s, FlattenSeq(s), Len(s))
<1>1. CASE Len(s) = 0
  <2>1. FlattenSeq(s) = << >> /\ s = << >> BY <1>1 DEF FlattenSeq
  <2>2. Laid(s, << >>, 0)
    <3> DEFINE u == [k \in 1..0 |-> 0]
    <3>1. u \in [1..Len(<< >>) -> Nat] /\ Len(<< >>) = 0 OBVIOUS
    <3> HIDE DEF u
    <3>2. \A k \in 1..Len(<< >>) : FALSE BY <3>1
    <3> QED BY <3>1, <3>2 DEF Laid
  <2> QED BY <2>1, <2>2
<1>2. CASE Len(s) # 0
  <2>1. PICK g : Chain(T, s, Len(s), g) /\ FlattenSeq(s) = g[Len(s)] BY <1>2, Chained
  <2> DEFINE Good == {m \in 1..Len(s) : Laid(s, g[m], m)}
  <2>0. Len(s) \in Nat /\ Len(s) \in 1..Len(s) /\ 1 \in 1..Len(s) BY <1>2
  <2>2. \A m \in 1..Len(s) : g[m] \in Seq(T) BY <2>1 DEF Chain
  <2>3. \A m \in 1..Len(s) : m \in Good
    <3>1. 1 \in Good
      <4>1. g[1] = s[1] BY <2>1, <2>0 DEF Chain
      <4> QED BY <4>1, LaidFirst, <1>2, <2>0
    <3>2. ASSUME NEW m \in 2..Len(s), m - 1 \in Good PROVE m \in Good
      <4>1. m \in 1..Len(s) /\ m - 1 \in 1..Len(s) /\ m # 1 BY <2>0
      <4>2. Laid(s, g[m-1], m - 1) /\ g[m-1] \in Seq(T) BY <3>2, <4>1, <2>2
      <4>3. g[m] = g[m-1] \o s[m] BY <4>1, <2>1 DEF Chain
      <4>4. Laid(s, g[m-1] \o s[m], m) BY <4>2, LaidNext
      <4> QED BY <4>1, <4>3, <4>4
    <3> HIDE DEF Good
    <3> QED BY <3>1, <3>2, <2>0, UpTo
  <2> QED BY <2>1, <2>2, <2>3, <2>0
<1> QED BY <1>1, <1>2

-----------------------------------------------------------------------------
(* One step, and the same step back *)

\* The disk is a function on the slots; a skills root stands in its CLI's directory.
IsDisk(d) == d = [s \in Slots |-> d[s]]
Rooted(d) == \A a \in Aliases : d[<<a, "self">>] # None => d[<<a, "cli">>] = Dir

\* Where the steps make directories and links, and what they rename.
Making == {<<Root, "self">>} \cup (Aliases \X {"cli"})
Linking == (Aliases \X {"self"}) \cup ({Root} \X Names)
Parking(s, p, t) == [do |-> "rename", from |-> s, to |-> <<>>, park |-> p, text |-> t]
Parkable == (Aliases \X (Names \cup {"self"})) \cup ({Root} \X Names)
IsMkdir(st) == \E s \in Making : st = Mkdir(s)
IsLink(st) == \E s \in Linking : st = Symlink(s, IF s[1] = Root THEN "abs" ELSE "alias")
IsMove(st) == \E a \in Aliases, n \in Names : st = Move(<<a, n>>, <<Root, n>>)
IsPark(st) == \E s \in Parkable, p \in {"dir", "link", "entry"} : \E t : st = Parking(s, p, t)
IsStep(st) == IsMkdir(st) \/ IsLink(st) \/ IsMove(st) \/ IsPark(st)

\* The slots that steps name are slots of the disk, and are not each other.
LEMMA SlotFacts ==
  /\ \A a \in Aliases : <<a, "cli">> \in Slots /\ <<a, "self">> \in Slots
  /\ \A a \in Aliases, n \in Names : <<a, n>> \in Slots
  /\ <<Root, "self">> \in Slots
  /\ \A n \in Names : <<Root, n>> \in Slots /\ n # "self" /\ n # "cli"
  /\ \A a \in Aliases : a # Root
BY RootIsApart, NamesApart DEF Slots

\* Where a path leads: only an entry of a converted root leads elsewhere.
LEMMA Reaching ==
  ASSUME NEW d
  PROVE  /\ \A p : Reached(d, <<p, "self">>) = <<p, "self">>
         /\ \A p : Reached(d, <<p, "cli">>) = <<p, "cli">>
         /\ \A n \in Names : Reached(d, <<Root, n>>) = <<Root, n>>
         /\ \A p, n : Reached(d, <<p, n>>) \in {<<p, n>>, <<Root, n>>}
         /\ \A p, n : d[<<p, "self">>] # Link("alias") => Reached(d, <<p, n>>) = <<p, n>>
         /\ \A p : \A n \in Names : d[<<p, "self">>] = Link("alias") => Reached(d, <<p, n>>) = <<Root, n>>
BY NamesApart DEF Reached

\* What a slot that a step makes, links or parks can be.
LEMMA Shape ==
  /\ \A s \in Making : s = <<Root, "self">> \/ \E a \in Aliases : s = <<a, "cli">>
  /\ \A s \in Linking : (\E a \in Aliases : s = <<a, "self">>) \/ (\E n \in Names : s = <<Root, n>>)
  /\ \A s \in Parkable : \/ \E a \in Aliases : s = <<a, "self">>
                        \/ \E p \in Aliases \cup {Root} : \E n \in Names : s = <<p, n>>
<1>1. \A S, T : \A s \in S \X T : s[1] \in S /\ s[2] \in T /\ s = <<s[1], s[2]>> OBVIOUS
<1>2. ASSUME NEW s \in Making PROVE s = <<Root, "self">> \/ \E a \in Aliases : s = <<a, "cli">>
  BY <1>1, s \in Aliases \X {"cli"} \/ s = <<Root, "self">> DEF Making
<1>3. ASSUME NEW s \in Linking PROVE (\E a \in Aliases : s = <<a, "self">>) \/ (\E n \in Names : s = <<Root, n>>)
  <2>1. CASE s \in Aliases \X {"self"} BY <2>1, <1>1
  <2>2. CASE s \in {Root} \X Names BY <2>2, <1>1
  <2> QED BY <2>1, <2>2 DEF Linking
<1>4. ASSUME NEW s \in Parkable
      PROVE  \/ \E a \in Aliases : s = <<a, "self">>
             \/ \E p \in Aliases \cup {Root} : \E n \in Names : s = <<p, n>>
  <2>1. CASE s \in Aliases \X (Names \cup {"self"})
    <3>1. s[1] \in Aliases /\ s[2] \in Names \cup {"self"} /\ s = <<s[1], s[2]>> BY <2>1
    <3> QED BY <3>1
  <2>2. CASE s \in {Root} \X Names
    <3>1. s[1] = Root /\ s[2] \in Names /\ s = <<s[1], s[2]>> BY <2>2
    <3> QED BY <3>1
  <2> QED BY <2>1, <2>2 DEF Parkable
<1> QED BY <1>2, <1>3, <1>4

\* An entry is where its path says or at its namesake in .agents/skills.
LEMMA ReachedName ==
  ASSUME NEW d, NEW p, NEW n
  PROVE  /\ Reached(d, <<p, n>>) = <<p, n>> \/ Reached(d, <<p, n>>) = <<Root, n>>
         /\ d[<<p, "self">>] # Link("alias") => Reached(d, <<p, n>>) = <<p, n>>
BY DEF Reached

\* What is made or linked is made where the path says.
LEMMA ReachedFixed ==
  ASSUME NEW d, NEW s, s \in Making \/ s \in Linking
  PROVE  Reached(d, s) = s
<1>1. \/ s = <<Root, "self">> \/ \E a \in Aliases : s = <<a, "cli">>
      \/ (\E a \in Aliases : s = <<a, "self">>) \/ (\E n \in Names : s = <<Root, n>>)
  BY Shape
<1> QED BY <1>1, Reaching

\* When the directory a path is in is there.
LEMMA Parents ==
  ASSUME NEW d
  PROVE  /\ ParentThere(d, <<Root, "self">>)
         /\ \A p : ParentThere(d, <<p, "cli">>)
         /\ \A a \in Aliases : ParentThere(d, <<a, "self">>) <=> d[<<a, "cli">>] = Dir
         /\ \A p : \A n \in Names : ParentThere(d, <<p, n>>) <=> d[<<Reached(d, <<p, n>>)[1], "self">>] = Dir
         /\ \A n \in Names : ParentThere(d, <<Root, n>>) <=> d[<<Root, "self">>] = Dir
<1>1. \A p : \A n \in Names : ParentThere(d, <<p, n>>) <=> d[<<Reached(d, <<p, n>>)[1], "self">>] = Dir
  <2> SUFFICES ASSUME NEW p, NEW n \in Names
               PROVE  ParentThere(d, <<p, n>>) <=> d[<<Reached(d, <<p, n>>)[1], "self">>] = Dir
    OBVIOUS
  <2>1. n # "self" /\ n # "cli" BY SlotFacts
  <2> QED BY <2>1 DEF ParentThere
<1>2. \A a \in Aliases : ParentThere(d, <<a, "self">>) <=> d[<<a, "cli">>] = Dir
  BY SlotFacts DEF ParentThere
<1>3. ParentThere(d, <<Root, "self">>) /\ \A p : ParentThere(d, <<p, "cli">>)
  BY DEF ParentThere
<1> QED BY <1>1, <1>2, <1>3, Reaching

\* A link, a directory and nothing at all are three things.
LEMMA NodesApart == None # Dir /\ \A t : Link(t) # None /\ Link(t) # Dir
BY DEF None, Dir, Link

\* rmdir of what mkdir has made gives the disk as it was.
LEMMA MkdirBack ==
  ASSUME NEW d, IsDisk(d), NEW s \in Making, NEW st, st = Mkdir(s), Fits(d, st)
  PROVE  /\ d[s] = None
         /\ Done(d, st) = [d EXCEPT ![s] = Dir]
         /\ Parked(d, st) = None
         /\ Undone(Done(d, st), st, Parked(d, st)) = d
         /\ At(Done(d, st), s) = Dir
<1>0. s = <<Root, "self">> \/ \E a \in Aliases : s = <<a, "cli">> BY Shape
<1>1. s \in Slots /\ \A e : Reached(e, s) = s BY <1>0, SlotFacts, Reaching
<1>2. st.do = "mkdir" /\ st.at = s BY DEF Mkdir
<1>3. d[s] = None /\ ParentThere(d, s) BY <1>1, <1>2 DEF Fits, At
<1>4. Done(d, st) = [d EXCEPT ![s] = Dir]
  <2>1. Done(d, st) = Put(d, s, Dir) BY <1>2 DEF Done, Mkdir
  <2> QED BY <2>1, <1>1 DEF Put
<1>5. Parked(d, st) = None BY <1>2 DEF Parked
<1>6. [[d EXCEPT ![s] = Dir] EXCEPT ![s] = None] = d BY <1>1, <1>3 DEF IsDisk
<1>7. Undone(Done(d, st), st, Parked(d, st)) = d BY <1>1, <1>2, <1>4, <1>6 DEF Undone, Put
<1>8. ParentThere(Done(d, st), s) /\ Done(d, st)[s] = Dir
  BY <1>1, <1>3, <1>4, SlotFacts DEF ParentThere, Making, IsDisk
<1>9. At(Done(d, st), s) = Dir BY <1>1, <1>8 DEF At
<1> QED BY <1>3, <1>4, <1>5, <1>7, <1>9

\* Removing the link that was made gives the disk as it was.
LEMMA LinkBack ==
  ASSUME NEW d, IsDisk(d), NEW s \in Linking, NEW t, NEW st, st = Symlink(s, t), Fits(d, st)
  PROVE  /\ d[s] = None
         /\ Done(d, st) = [d EXCEPT ![s] = Link(t)]
         /\ Parked(d, st) = None
         /\ Undone(Done(d, st), st, Parked(d, st)) = d
         /\ At(Done(d, st), s) = Link(t)
<1>0. (\E a \in Aliases : s = <<a, "self">>) \/ (\E n \in Names : s = <<Root, n>>) BY Shape
<1>1. s \in Slots /\ \A e : Reached(e, s) = s BY <1>0, SlotFacts, Reaching
<1>2. st.do = "link" /\ st.at = s /\ st.text = t BY DEF Symlink
<1>3. d[s] = None /\ ParentThere(d, s) BY <1>1, <1>2 DEF Fits, At
<1>4. Done(d, st) = [d EXCEPT ![s] = Link(t)]
  <2>1. Done(d, st) = Put(d, s, Link(t)) BY <1>2 DEF Done, Symlink
  <2> QED BY <2>1, <1>1 DEF Put
<1>5. Parked(d, st) = None BY <1>2 DEF Parked
<1>6. [[d EXCEPT ![s] = Link(t)] EXCEPT ![s] = None] = d BY <1>1, <1>3 DEF IsDisk
<1>7. Undone(Done(d, st), st, Parked(d, st)) = d BY <1>1, <1>2, <1>4, <1>6 DEF Undone, Put
<1>8. ParentThere(Done(d, st), s) /\ Done(d, st)[s] = Link(t)
  <2>1. Done(d, st)[s] = Link(t) BY <1>1, <1>4 DEF IsDisk
  <2>2. CASE \E a \in Aliases : s = <<a, "self">>
    BY <2>2, <1>3, <1>4, SlotFacts DEF ParentThere, IsDisk
  <2>3. CASE \E n \in Names : s = <<Root, n>>
    <3>1. PICK n \in Names : s = <<Root, n>> BY <2>3
    <3>2. d[<<Root, "self">>] = Dir BY <3>1, <1>3, Parents
    <3>3. Done(d, st)[<<Root, "self">>] = Dir BY <3>1, <3>2, <1>4, SlotFacts DEF IsDisk
    <3>4. ParentThere(Done(d, st), s) BY <3>1, <3>3, Parents
    <3> QED BY <3>4, <2>1
  <2> QED BY <2>1, <2>2, <2>3, <1>0
<1>9. At(Done(d, st), s) = Link(t) BY <1>1, <1>8 DEF At
<1> QED BY <1>3, <1>4, <1>5, <1>7, <1>9

\* Renaming what is parked back gives the disk as it was: no later link hides the way.
LEMMA ParkBack ==
  ASSUME NEW d, IsDisk(d), NEW s \in Parkable, NEW p \in {"dir", "link", "entry"}, NEW t,
         NEW st, st = Parking(s, p, t), Fits(d, st)
  PROVE  /\ Reached(d, s) \in Slots
         /\ Done(d, st) = [d EXCEPT ![Reached(d, s)] = None]
         /\ Parked(d, st) = At(d, s) /\ At(d, s) # None
         /\ Undone(Done(d, st), st, Parked(d, st)) = d
         /\ At(Done(d, st), s) = None
<1>1. /\ st.do = "rename" /\ st.from = s /\ st.park = p /\ st.park # "" BY DEF Parking
<1>2. At(d, s) # None BY <1>1 DEF Fits
<1>3. Reached(d, s) \in Slots
  <2>1. \E a, n : s = <<a, n>> /\ <<Root, n>> \in Slots /\ <<a, n>> \in Slots
    BY SlotFacts, Shape
  <2> QED BY <2>1, Reaching
<1>4. At(d, s) = d[Reached(d, s)] BY <1>2 DEF At
<1> DEFINE e == [d EXCEPT ![Reached(d, s)] = None]
<1>5. Done(d, st) = e BY <1>1 DEF Done, Put
<1>6. Reached(e, s) = Reached(d, s)
  <2>1. CASE \E a \in Aliases : s = <<a, "self">> BY <2>1, Reaching
  <2>2. CASE \E a \in Aliases \cup {Root} : \E n \in Names : s = <<a, n>>
    <3>1. PICK a \in Aliases \cup {Root}, n \in Names : s = <<a, n>> BY <2>2
    <3>2. e[<<a, "self">>] = d[<<a, "self">>]
      <4>1. Reached(d, s) \in {<<a, n>>, <<Root, n>>} BY <3>1, Reaching
      <4>2. Reached(d, s) # <<a, "self">> BY <4>1, SlotFacts
      <4>3. <<a, "self">> \in Slots BY SlotFacts
      <4> QED BY <4>2, <4>3 DEF IsDisk
    <3> HIDE DEF e
    <3> QED BY <3>1, <3>2 DEF Reached
  <2> QED BY <2>1, <2>2, Shape
<1>7. e[Reached(d, s)] = None BY <1>3 DEF IsDisk
<1>8. At(e, s) = None BY <1>6, <1>7 DEF At
<1>9. Parked(d, st) = At(d, s) BY <1>1 DEF Parked
<1>10. Undone(e, st, At(d, s)) = [e EXCEPT ![Reached(d, s)] = At(d, s)]
  BY <1>1, <1>6 DEF Undone, Put, There
<1>11. [e EXCEPT ![Reached(d, s)] = At(d, s)] = d BY <1>3, <1>4 DEF IsDisk
<1> HIDE DEF e
<1> QED BY <1>2, <1>3, <1>5, <1>8, <1>9, <1>10, <1>11 DEF e

\* Renaming what has moved into .agents/skills back gives the disk as it was.
LEMMA MoveBack ==
  ASSUME NEW d, IsDisk(d), NEW a \in Aliases, NEW n \in Names,
         NEW st, st = Move(<<a, n>>, <<Root, n>>), Fits(d, st)
  PROVE  /\ Reached(d, <<a, n>>) = <<a, n>>
         /\ Done(d, st) = [d EXCEPT ![<<a, n>>] = None, ![<<Root, n>>] = d[<<a, n>>]]
         /\ d[<<Root, n>>] = None
         /\ d[<<a, n>>] # None
         /\ Parked(d, st) = None
         /\ Undone(Done(d, st), st, Parked(d, st)) = d
         /\ At(Done(d, st), <<a, n>>) = None
         /\ At(Done(d, st), <<Root, n>>) # None
<1> DEFINE s == <<a, n>>
           r == <<Root, n>>
<1>1. /\ st.do = "rename" /\ st.from = s /\ st.to = r /\ st.park = "" BY DEF Move
<1>2. At(d, s) # None /\ ParentThere(d, r) /\ At(d, r) = None BY <1>1 DEF Fits
<1>3. s \in Slots /\ r \in Slots /\ s # r BY SlotFacts
<1>4. \A e : Reached(e, r) = r BY Reaching
<1>5. d[r] = None BY <1>2, <1>4 DEF At
<1>6. Reached(d, s) = s
  <2>1. Reached(d, s) \in {s, r} BY Reaching
  <2>2. d[Reached(d, s)] # None BY <1>2 DEF At
  <2> QED BY <2>1, <2>2, <1>5
<1>7. At(d, s) = d[s] /\ d[s] # None BY <1>2, <1>6 DEF At
<1> DEFINE e == [d EXCEPT ![s] = None, ![r] = d[s]]
<1>8. \A x \in Slots : x \notin {s, r} => e[x] = d[x] BY DEF IsDisk
<1>9. e[<<a, "self">>] = d[<<a, "self">>] /\ e[<<Root, "self">>] = d[<<Root, "self">>] BY <1>8, SlotFacts
<1>10. Reached(e, s) = s BY <1>9, <1>6 DEF Reached
<1>10a. ParentThere(e, r)
  BY <1>2, <1>9, <1>4, SlotFacts DEF ParentThere
<1>11. Done(d, st) = e
  <2>1. Put(d, s, None) = [d EXCEPT ![s] = None] BY <1>6 DEF Put
  <2>2. Done(d, st) = Put([d EXCEPT ![s] = None], r, d[s]) BY <1>1, <1>7, <2>1 DEF Done
  <2> QED BY <2>2, <1>4 DEF Put
<1>12. e[s] = None /\ e[r] = d[s] BY <1>3 DEF IsDisk
<1>13. At(e, r) = d[s] BY <1>12, <1>10a, <1>4 DEF At
<1>14. At(e, s) = None BY <1>12, <1>10 DEF At
<1>15. Parked(d, st) = None BY <1>1 DEF Parked
<1>16. Undone(e, st, None) = d
  <2> DEFINE f == [e EXCEPT ![r] = None]
  <2>1. Put(e, r, None) = f BY <1>4 DEF Put
  <2>2. There(e, st, None) = d[s] BY <1>1, <1>13 DEF There
  <2>3. f[<<a, "self">>] = e[<<a, "self">>] BY SlotFacts, <1>3 DEF IsDisk
  <2>4. Reached(f, s) = s BY <2>3, <1>10 DEF Reached
  <2>5. Undone(e, st, None) = Put(f, s, d[s]) BY <1>1, <2>1, <2>2 DEF Undone
  <2>6. Put(f, s, d[s]) = [f EXCEPT ![s] = d[s]] BY <2>4 DEF Put
  <2>7. [f EXCEPT ![s] = d[s]] = d BY <1>3, <1>5 DEF IsDisk
  <2> HIDE DEF f
  <2> QED BY <2>5, <2>6, <2>7
<1> HIDE DEF e
<1> QED BY <1>5, <1>6, <1>7, <1>11, <1>13, <1>14, <1>15, <1>16 DEF e

\* The step has been taken, as restore.sh finds out when the log does not say so.
Seen(d, st, item) ==
  CASE st.do = "rename" -> There(d, st, item) # None /\ At(d, st.from) = None
    [] st.do = "link" -> At(d, st.at) = Link(st.text)
    [] st.do = "mkdir" -> At(d, st.at) = Dir
\* What keeps it from looking so before it is.
NotYet(d, st) ==
  /\ IsMkdir(st) => d[st.at] # Dir
  /\ IsLink(st) => d[st.at] # Link(st.text)
  /\ IsMove(st) => d[<<st.from[1], "self">>] = Dir /\ d[st.from] # None
\* e does not bring st about.
Spares(e, st) ==
  /\ IsMkdir(st) => (IsMkdir(e) => e.at # st.at)
  /\ IsLink(st) => (IsLink(e) => e.at # st.at) /\ (IsMove(e) => e.to # st.at)
  /\ IsMove(st) => /\ IsMove(e) \/ IsPark(e) => e.from \notin {st.from, <<st.from[1], "self">>}
                   /\ IsLink(e) => e.at # <<st.from[1], "self">>

\* The four kinds of step are told apart by what they do and where they park.
LEMMA KindsApart ==
  ASSUME NEW st
  PROVE  /\ IsMkdir(st) => st.do = "mkdir" /\ st.at \in Making
         /\ IsLink(st) => st.do = "link" /\ st.at \in Linking
         /\ IsMove(st) => /\ st.do = "rename" /\ st.park = ""
                          /\ \E a \in Aliases, n \in Names : st.from = <<a, n>> /\ st.to = <<Root, n>> /\ st = Move(<<a, n>>, <<Root, n>>)
         /\ IsPark(st) => st.do = "rename" /\ st.park # "" /\ st.from \in Parkable
<1>1. IsMkdir(st) => st.do = "mkdir" /\ st.at \in Making BY DEF IsMkdir, Mkdir
<1>2. IsLink(st) => st.do = "link" /\ st.at \in Linking BY DEF IsLink, Symlink
<1>3. IsMove(st) => /\ st.do = "rename" /\ st.park = ""
                    /\ \E a \in Aliases, n \in Names : st.from = <<a, n>> /\ st.to = <<Root, n>> /\ st = Move(<<a, n>>, <<Root, n>>)
  <2> SUFFICES ASSUME NEW a \in Aliases, NEW n \in Names, st = Move(<<a, n>>, <<Root, n>>)
               PROVE  st.do = "rename" /\ st.park = "" /\ st.from = <<a, n>> /\ st.to = <<Root, n>>
    BY DEF IsMove
  <2> QED BY DEF Move
<1>4. IsPark(st) => st.do = "rename" /\ st.park # "" /\ st.from \in Parkable
  <2> SUFFICES ASSUME NEW s \in Parkable, NEW p \in {"dir", "link", "entry"}, NEW t, st = Parking(s, p, t)
               PROVE  st.do = "rename" /\ st.park # "" /\ st.from = s
    BY DEF IsPark
  <2> QED BY DEF Parking
<1> QED BY <1>1, <1>2, <1>3, <1>4

\* A step that could be taken can be taken back exactly, and looks taken to the script.
LEMMA StepBack ==
  ASSUME NEW d, IsDisk(d), NEW st, IsStep(st), Fits(d, st)
  PROVE  /\ Undone(Done(d, st), st, Parked(d, st)) = d
         /\ Seen(Done(d, st), st, Parked(d, st))
<1>1. CASE IsMkdir(st)
  <2>1. PICK s \in Making : st = Mkdir(s) BY <1>1 DEF IsMkdir
  <2>2. st.do = "mkdir" /\ st.at = s BY <2>1 DEF Mkdir
  <2> QED BY <2>1, <2>2, MkdirBack DEF Seen
<1>2. CASE IsLink(st)
  <2>1. PICK s \in Linking : st = Symlink(s, IF s[1] = Root THEN "abs" ELSE "alias") BY <1>2 DEF IsLink
  <2> DEFINE t == IF s[1] = Root THEN "abs" ELSE "alias"
  <2>2. st.do = "link" /\ st.at = s /\ st.text = t BY <2>1 DEF Symlink
  <2> HIDE DEF t
  <2>3. st = Symlink(s, t) BY <2>1 DEF t
  <2>4. Undone(Done(d, st), st, Parked(d, st)) = d /\ At(Done(d, st), s) = Link(t) BY <2>3, LinkBack
  <2> QED BY <2>2, <2>4 DEF Seen
<1>3. CASE IsMove(st)
  <2>1. PICK a \in Aliases, n \in Names : st = Move(<<a, n>>, <<Root, n>>) BY <1>3 DEF IsMove
  <2>2. st.do = "rename" /\ st.from = <<a, n>> /\ st.to = <<Root, n>> /\ st.park = "" BY <2>1 DEF Move
  <2>3. /\ Undone(Done(d, st), st, Parked(d, st)) = d
        /\ At(Done(d, st), <<a, n>>) = None
        /\ At(Done(d, st), <<Root, n>>) # None
    BY <2>1, MoveBack
  <2>4. There(Done(d, st), st, Parked(d, st)) = At(Done(d, st), <<Root, n>>) BY <2>2 DEF There
  <2> QED BY <2>2, <2>3, <2>4 DEF Seen
<1>4. CASE IsPark(st)
  <2>1. PICK s \in Parkable, p \in {"dir", "link", "entry"} : \E t : st = Parking(s, p, t) BY <1>4 DEF IsPark
  <2>1a. PICK t : st = Parking(s, p, t) BY <2>1
  <2>2. st.do = "rename" /\ st.from = s /\ st.park # "" BY <2>1a DEF Parking
  <2>3. /\ Parked(d, st) # None
        /\ Undone(Done(d, st), st, Parked(d, st)) = d
        /\ At(Done(d, st), s) = None
    BY <2>1a, ParkBack
  <2>4. There(Done(d, st), st, Parked(d, st)) = Parked(d, st) BY <2>2 DEF There
  <2> QED BY <2>2, <2>3, <2>4 DEF Seen
<1> QED BY <1>1, <1>2, <1>3, <1>4 DEF IsStep

\* Whatever happens to an entry, the roots stay in their directories.
LEMMA EntryKeepsRooted ==
  ASSUME NEW d, IsDisk(d), Rooted(d), NEW p \in Aliases \cup {Root}, NEW n \in Names, NEW v
  PROVE  IsDisk([d EXCEPT ![<<p, n>>] = v]) /\ Rooted([d EXCEPT ![<<p, n>>] = v])
<1>1. \A a \in Aliases : [d EXCEPT ![<<p, n>>] = v][<<a, "self">>] = d[<<a, "self">>]
                         /\ [d EXCEPT ![<<p, n>>] = v][<<a, "cli">>] = d[<<a, "cli">>]
  BY SlotFacts DEF IsDisk
<1> QED BY <1>1 DEF IsDisk, Rooted

\* So they do when a root is made in a directory, or goes.
LEMMA SelfKeepsRooted ==
  ASSUME NEW d, IsDisk(d), Rooted(d), NEW a \in Aliases, NEW v, v = None \/ d[<<a, "cli">>] = Dir
  PROVE  IsDisk([d EXCEPT ![<<a, "self">>] = v]) /\ Rooted([d EXCEPT ![<<a, "self">>] = v])
<1> DEFINE e == [d EXCEPT ![<<a, "self">>] = v]
<1>1. \A b \in Aliases : e[<<b, "self">>] = (IF b = a THEN v ELSE d[<<b, "self">>]) /\ e[<<b, "cli">>] = d[<<b, "cli">>]
  BY SlotFacts DEF IsDisk
<1>2. IsDisk(e) BY DEF IsDisk
<1> HIDE DEF e
<1>3. Rooted(e) BY <1>1 DEF Rooted
<1> QED BY <1>2, <1>3 DEF e

\* So they do when a CLI's directory is made, or goes with no root in it.
LEMMA MadeKeepsRooted ==
  ASSUME NEW d, IsDisk(d), Rooted(d), NEW s \in Making, NEW v,
         v = Dir \/ \A a \in Aliases : s = <<a, "cli">> => d[<<a, "self">>] = None
  PROVE  IsDisk([d EXCEPT ![s] = v]) /\ Rooted([d EXCEPT ![s] = v])
<1> DEFINE e == [d EXCEPT ![s] = v]
<1>0. s \in Slots BY Shape, SlotFacts
<1>1. \A b \in Aliases : e[<<b, "self">>] = d[<<b, "self">>] /\ e[<<b, "cli">>] = (IF s = <<b, "cli">> THEN v ELSE d[<<b, "cli">>])
  <2> SUFFICES ASSUME NEW b \in Aliases
               PROVE  e[<<b, "self">>] = d[<<b, "self">>] /\ e[<<b, "cli">>] = (IF s = <<b, "cli">> THEN v ELSE d[<<b, "cli">>])
    OBVIOUS
  <2>1. s # <<b, "self">>
    <3>1. CASE s = <<Root, "self">> BY <3>1, SlotFacts
    <3>2. CASE \E a \in Aliases : s = <<a, "cli">> BY <3>2
    <3> QED BY <3>1, <3>2, Shape
  <2> QED BY <2>1, <1>0, SlotFacts DEF IsDisk
<1>2. IsDisk(e) BY <1>0 DEF IsDisk
<1> HIDE DEF e
<1>3. Rooted(e) BY <1>1 DEF Rooted
<1> QED BY <1>2, <1>3 DEF e

\* A step keeps the roots in their directories.
LEMMA DoneDisk ==
  ASSUME NEW d, IsDisk(d), Rooted(d), NEW st, IsStep(st), Fits(d, st)
  PROVE  IsDisk(Done(d, st)) /\ Rooted(Done(d, st))
<1>1. CASE IsMkdir(st)
  <2>1. PICK s \in Making : st = Mkdir(s) BY <1>1 DEF IsMkdir
  <2>2. Done(d, st) = [d EXCEPT ![s] = Dir] BY <2>1, MkdirBack
  <2>3. IsDisk([d EXCEPT ![s] = Dir]) /\ Rooted([d EXCEPT ![s] = Dir]) BY MadeKeepsRooted
  <2> QED BY <2>2, <2>3
<1>2. CASE IsLink(st)
  <2>1. PICK s \in Linking : \E t : st = Symlink(s, t) BY <1>2 DEF IsLink
  <2>2. PICK t : st = Symlink(s, t) BY <2>1
  <2>3. Done(d, st) = [d EXCEPT ![s] = Link(t)] BY <2>2, LinkBack
  <2>4. ParentThere(d, s)
    <3>1. st.do = "link" /\ st.at = s BY <2>2 DEF Symlink
    <3> QED BY <3>1 DEF Fits
  <2>5. CASE \E a \in Aliases : s = <<a, "self">>
    <3>1. PICK a \in Aliases : s = <<a, "self">> BY <2>5
    <3>2. d[<<a, "cli">>] = Dir BY <3>1, <2>4, Parents
    <3>3. IsDisk([d EXCEPT ![<<a, "self">>] = Link(t)]) /\ Rooted([d EXCEPT ![<<a, "self">>] = Link(t)])
      BY <3>2, SelfKeepsRooted
    <3> QED BY <3>1, <3>3, <2>3
  <2>6. CASE \E n \in Names : s = <<Root, n>>
    <3>1. PICK n \in Names : s = <<Root, n>> BY <2>6
    <3>2. IsDisk([d EXCEPT ![<<Root, n>>] = Link(t)]) /\ Rooted([d EXCEPT ![<<Root, n>>] = Link(t)])
      BY EntryKeepsRooted
    <3> QED BY <3>1, <3>2, <2>3
  <2> QED BY <2>5, <2>6, Shape
<1>3. CASE IsMove(st)
  <2>1. PICK a \in Aliases, n \in Names : st = Move(<<a, n>>, <<Root, n>>) BY <1>3 DEF IsMove
  <2>2. Done(d, st) = [d EXCEPT ![<<a, n>>] = None, ![<<Root, n>>] = d[<<a, n>>]] BY <2>1, MoveBack
  <2>3. IsDisk([d EXCEPT ![<<a, n>>] = None]) /\ Rooted([d EXCEPT ![<<a, n>>] = None]) BY EntryKeepsRooted
  <2> DEFINE e == [d EXCEPT ![<<a, n>>] = None]
             v == d[<<a, n>>]
  <2>4. Done(d, st) = [e EXCEPT ![<<Root, n>>] = v] BY <2>2
  <2> HIDE DEF e, v
  <2>5. IsDisk([e EXCEPT ![<<Root, n>>] = v]) /\ Rooted([e EXCEPT ![<<Root, n>>] = v])
    BY <2>3, EntryKeepsRooted DEF e
  <2> QED BY <2>4, <2>5
<1>4. CASE IsPark(st)
  <2>1. PICK s \in Parkable, p \in {"dir", "link", "entry"} : \E t : st = Parking(s, p, t) BY <1>4 DEF IsPark
  <2>2. PICK t : st = Parking(s, p, t) BY <2>1
  <2>3. Done(d, st) = [d EXCEPT ![Reached(d, s)] = None] BY <2>2, ParkBack
  <2>4. CASE \E a \in Aliases : s = <<a, "self">>
    <3>1. PICK a \in Aliases : s = <<a, "self">> BY <2>4
    <3>2. Reached(d, s) = <<a, "self">> BY <3>1, ReachedFixed DEF Linking
    <3>3. IsDisk([d EXCEPT ![<<a, "self">>] = None]) /\ Rooted([d EXCEPT ![<<a, "self">>] = None])
      BY SelfKeepsRooted
    <3> QED BY <3>2, <3>3, <2>3
  <2>5. CASE \E a \in Aliases \cup {Root} : \E n \in Names : s = <<a, n>>
    <3>1. PICK a \in Aliases \cup {Root}, n \in Names : s = <<a, n>> BY <2>5
    <3>2. PICK b \in Aliases \cup {Root} : Reached(d, s) = <<b, n>> BY <3>1, ReachedName
    <3>3. IsDisk([d EXCEPT ![<<b, n>>] = None]) /\ Rooted([d EXCEPT ![<<b, n>>] = None])
      BY EntryKeepsRooted
    <3> QED BY <3>2, <3>3, <2>3
  <2> QED BY <2>4, <2>5, Shape
<1> QED BY <1>1, <1>2, <1>3, <1>4 DEF IsStep

\* So does its reversal, which removes a directory only when it is bare.
LEMMA UndoneDisk ==
  ASSUME NEW d, IsDisk(d), Rooted(d), NEW st, IsStep(st), NEW item, CanUndo(d, st, item)
  PROVE  IsDisk(Undone(d, st, item)) /\ Rooted(Undone(d, st, item))
<1>1. CASE IsMkdir(st)
  <2>1. st.do = "mkdir" /\ st.at \in Making BY <1>1, KindsApart
  <2>2. \A a \in Aliases : st.at = <<a, "cli">> => d[<<a, "self">>] = None
    BY <2>1 DEF CanUndo, Bare
  <2>3. Reached(d, st.at) = st.at BY <2>1, ReachedFixed
  <2>4. Undone(d, st, item) = [d EXCEPT ![st.at] = None] BY <2>1, <2>3 DEF Undone, Put
  <2>5. IsDisk([d EXCEPT ![st.at] = None]) /\ Rooted([d EXCEPT ![st.at] = None])
    BY <2>1, <2>2, MadeKeepsRooted
  <2> QED BY <2>4, <2>5
<1>2. CASE IsLink(st)
  <2>1. st.do = "link" /\ st.at \in Linking BY <1>2, KindsApart
  <2>2. Reached(d, st.at) = st.at BY <2>1, ReachedFixed
  <2>3. Undone(d, st, item) = [d EXCEPT ![st.at] = None] BY <2>1, <2>2 DEF Undone, Put
  <2>4. CASE \E a \in Aliases : st.at = <<a, "self">>
    <3>1. PICK a \in Aliases : st.at = <<a, "self">> BY <2>4
    <3>2. IsDisk([d EXCEPT ![<<a, "self">>] = None]) /\ Rooted([d EXCEPT ![<<a, "self">>] = None])
      BY SelfKeepsRooted
    <3> QED BY <3>1, <3>2, <2>3
  <2>5. CASE \E n \in Names : st.at = <<Root, n>>
    <3>1. PICK n \in Names : st.at = <<Root, n>> BY <2>5
    <3>2. IsDisk([d EXCEPT ![<<Root, n>>] = None]) /\ Rooted([d EXCEPT ![<<Root, n>>] = None])
      BY EntryKeepsRooted
    <3> QED BY <3>1, <3>2, <2>3
  <2> QED BY <2>1, <2>4, <2>5, Shape
<1>3. CASE IsMove(st)
  <2>1. PICK a \in Aliases, n \in Names :
          st.do = "rename" /\ st.park = "" /\ st.from = <<a, n>> /\ st.to = <<Root, n>>
    BY <1>3, KindsApart
  <2> DEFINE e == [d EXCEPT ![<<Root, n>>] = None]
             v == There(d, st, item)
  <2>2. Put(d, st.to, None) = e BY <2>1, Reaching DEF Put
  <2>3. IsDisk(e) /\ Rooted(e) BY EntryKeepsRooted
  <2>4. PICK b \in Aliases \cup {Root} : Reached(e, <<a, n>>) = <<b, n>> BY ReachedName
  <2>5. Undone(d, st, item) = Put(e, st.from, v) BY <2>1, <2>2 DEF Undone
  <2> HIDE DEF e, v
  <2>6. Undone(d, st, item) = [e EXCEPT ![<<b, n>>] = v] BY <2>1, <2>4, <2>5 DEF Put
  <2>7. IsDisk([e EXCEPT ![<<b, n>>] = v]) /\ Rooted([e EXCEPT ![<<b, n>>] = v])
    BY <2>3, EntryKeepsRooted
  <2> QED BY <2>6, <2>7
<1>4. CASE IsPark(st)
  <2>1. st.do = "rename" /\ st.park # "" /\ st.from \in Parkable BY <1>4, KindsApart
  <2> DEFINE v == There(d, st, item)
  <2>2. Undone(d, st, item) = Put(d, st.from, v) BY <2>1 DEF Undone
  <2>3. ParentThere(d, st.from) BY <2>1 DEF CanUndo
  <2> HIDE DEF v
  <2>4. CASE \E a \in Aliases : st.from = <<a, "self">>
    <3>1. PICK a \in Aliases : st.from = <<a, "self">> BY <2>4
    <3>2. d[<<a, "cli">>] = Dir BY <3>1, <2>3, Parents
    <3>3. Reached(d, <<a, "self">>) = <<a, "self">> BY ReachedFixed DEF Linking
    <3>4. Undone(d, st, item) = [d EXCEPT ![<<a, "self">>] = v] BY <3>1, <3>3, <2>2 DEF Put
    <3>5. IsDisk([d EXCEPT ![<<a, "self">>] = v]) /\ Rooted([d EXCEPT ![<<a, "self">>] = v])
      BY <3>2, SelfKeepsRooted
    <3> QED BY <3>4, <3>5
  <2>5. CASE \E a \in Aliases \cup {Root} : \E n \in Names : st.from = <<a, n>>
    <3>1. PICK a \in Aliases \cup {Root}, n \in Names : st.from = <<a, n>> BY <2>5
    <3>2. PICK b \in Aliases \cup {Root} : Reached(d, <<a, n>>) = <<b, n>> BY ReachedName
    <3>3. Undone(d, st, item) = [d EXCEPT ![<<b, n>>] = v] BY <3>1, <3>2, <2>2 DEF Put
    <3>4. IsDisk([d EXCEPT ![<<b, n>>] = v]) /\ Rooted([d EXCEPT ![<<b, n>>] = v])
      BY EntryKeepsRooted
    <3> QED BY <3>3, <3>4
  <2> QED BY <2>1, <2>4, <2>5, Shape
<1> QED BY <1>1, <1>2, <1>3, <1>4 DEF IsStep

\* A step that cannot look taken is not mistaken for one by the script.
LEMMA NotYetUnseen ==
  ASSUME NEW d, IsDisk(d), NEW st, IsStep(st), NotYet(d, st)
  PROVE  ~Seen(d, st, None) /\ (st.do = "rename" => ~CanUndo(d, st, None))
<1>1. CASE IsMkdir(st)
  <2>1. st.do = "mkdir" /\ st.at \in Making BY <1>1, KindsApart
  <2>2. Reached(d, st.at) = st.at BY <2>1, ReachedFixed
  <2>3. At(d, st.at) # Dir BY <1>1, <2>2, NodesApart DEF At, NotYet
  <2> QED BY <2>1, <2>3 DEF Seen
<1>2. CASE IsLink(st)
  <2>1. st.do = "link" /\ st.at \in Linking BY <1>2, KindsApart
  <2>2. Reached(d, st.at) = st.at BY <2>1, ReachedFixed
  <2>3. At(d, st.at) # Link(st.text) BY <1>2, <2>2, NodesApart DEF At, NotYet
  <2> QED BY <2>1, <2>3 DEF Seen
<1>3. CASE IsMove(st)
  <2>1. PICK a \in Aliases, n \in Names :
          st.do = "rename" /\ st.park = "" /\ st.from = <<a, n>> /\ st.to = <<Root, n>>
    BY <1>3, KindsApart
  <2>2. d[<<a, "self">>] = Dir /\ d[<<a, n>>] # None
    <3>1. <<a, n>>[1] = a OBVIOUS
    <3>2. st.from[1] = a BY <2>1, <3>1
    <3> QED BY <1>3, <2>1, <3>2 DEF NotYet
  <2>3. Reached(d, <<a, n>>) = <<a, n>> BY <2>2, ReachedName, NodesApart
  <2>4. ParentThere(d, <<a, n>>) BY <2>2, <2>3, Parents
  <2>5. At(d, <<a, n>>) # None BY <2>2, <2>3, <2>4 DEF At
  <2> QED BY <2>1, <2>5 DEF Seen, CanUndo
<1>4. CASE IsPark(st)
  <2>1. st.do = "rename" /\ st.park # "" /\ st.from \in Parkable BY <1>4, KindsApart
  <2>2. There(d, st, None) = None BY <2>1 DEF There
  <2> QED BY <2>1, <2>2 DEF Seen, CanUndo
<1> QED BY <1>1, <1>2, <1>3, <1>4 DEF IsStep

\* A step stays so while the steps that spare it are taken.
LEMMA NotYetKept ==
  ASSUME NEW d, IsDisk(d), NEW e, IsStep(e), Fits(d, e), NEW st, IsStep(st), NotYet(d, st), Spares(e, st)
  PROVE  NotYet(Done(d, e), st)
<1> DEFINE D == Done(d, e)
<1>1. CASE IsMkdir(e)
  <2>1. PICK s \in Making : e = Mkdir(s) BY <1>1 DEF IsMkdir
  <2>2. e.at = s BY <2>1 DEF Mkdir
  <2>3. D = [d EXCEPT ![s] = Dir] BY <2>1, MkdirBack
  <2>4. \A x \in Slots : D[x] = IF x = s THEN Dir ELSE d[x] BY <2>3 DEF IsDisk
  <2>5. s = <<Root, "self">> \/ \E a \in Aliases : s = <<a, "cli">> BY Shape
  <2> HIDE DEF D
  <2>6. ASSUME IsMkdir(st) PROVE D[st.at] # Dir
    <3>1. st.at \in Making /\ st.at # s BY <2>6, <1>1, <2>2, KindsApart DEF Spares
    <3>2. st.at \in Slots BY <3>1, Shape, SlotFacts
    <3> QED BY <2>4, <2>6, <3>1, <3>2 DEF NotYet
  <2>7. ASSUME IsLink(st) PROVE D[st.at] # Link(st.text)
    <3>1. st.at \in Linking BY <2>7, KindsApart
    <3>2. st.at \in Slots BY <3>1, Shape, SlotFacts
    <3> QED BY <2>4, <2>7, <3>2, NodesApart DEF NotYet
  <2>8. ASSUME IsMove(st) PROVE D[<<st.from[1], "self">>] = Dir /\ D[st.from] # None
    <3>1. PICK a \in Aliases, n \in Names : st.from = <<a, n>> BY <2>8, KindsApart
    <3>2. <<a, n>>[1] = a OBVIOUS
    <3>3. d[<<a, "self">>] = Dir /\ d[<<a, n>>] # None BY <2>8, <3>1, <3>2 DEF NotYet
    <3>4. <<a, "self">> # s /\ <<a, n>> # s
      <4>1. CASE s = <<Root, "self">> BY <4>1, SlotFacts
      <4>2. CASE \E b \in Aliases : s = <<b, "cli">>
        <5>1. PICK b \in Aliases : s = <<b, "cli">> BY <4>2
        <5>2. n # "cli" BY SlotFacts
        <5> QED BY <5>1, <5>2
      <4> QED BY <4>1, <4>2, <2>5
    <3> QED BY <2>4, <3>1, <3>2, <3>3, <3>4, SlotFacts
  <2> QED BY <2>6, <2>7, <2>8 DEF NotYet, D
<1>2. CASE IsLink(e)
  <2>1. PICK s \in Linking : \E t : e = Symlink(s, t) BY <1>2 DEF IsLink
  <2>2. PICK t : e = Symlink(s, t) BY <2>1
  <2>3. e.at = s BY <2>2 DEF Symlink
  <2>4. D = [d EXCEPT ![s] = Link(t)] BY <2>2, LinkBack
  <2>5. \A x \in Slots : D[x] = IF x = s THEN Link(t) ELSE d[x] BY <2>4 DEF IsDisk
  <2>6. (\E a \in Aliases : s = <<a, "self">>) \/ (\E n \in Names : s = <<Root, n>>) BY Shape
  <2> HIDE DEF D
  <2>7. ASSUME IsMkdir(st) PROVE D[st.at] # Dir
    <3>1. st.at \in Making BY <2>7, KindsApart
    <3>2. st.at \in Slots BY <3>1, Shape, SlotFacts
    <3> QED BY <2>5, <2>7, <3>2, NodesApart DEF NotYet
  <2>8. ASSUME IsLink(st) PROVE D[st.at] # Link(st.text)
    <3>1. st.at \in Linking /\ st.at # s BY <2>8, <1>2, <2>3, KindsApart DEF Spares
    <3>2. st.at \in Slots BY <3>1, Shape, SlotFacts
    <3> QED BY <2>5, <2>8, <3>1, <3>2 DEF NotYet
  <2>9. ASSUME IsMove(st) PROVE D[<<st.from[1], "self">>] = Dir /\ D[st.from] # None
    <3>1. PICK a \in Aliases, n \in Names : st.from = <<a, n>> BY <2>9, KindsApart
    <3>2. <<a, n>>[1] = a OBVIOUS
    <3>3. d[<<a, "self">>] = Dir /\ d[<<a, n>>] # None BY <2>9, <3>1, <3>2 DEF NotYet
    <3>4. <<a, "self">> # s BY <2>9, <1>2, <2>3, <3>1, <3>2 DEF Spares
    <3>5. <<a, n>> # s BY <2>6, SlotFacts
    <3> QED BY <2>5, <3>1, <3>2, <3>3, <3>4, <3>5, SlotFacts
  <2> QED BY <2>7, <2>8, <2>9 DEF NotYet, D
<1>3. CASE IsMove(e)
  <2>1. PICK b \in Aliases, m \in Names : e.from = <<b, m>> /\ e.to = <<Root, m>> /\ e = Move(<<b, m>>, <<Root, m>>)
    BY <1>3, KindsApart
  <2>2. D = [d EXCEPT ![<<b, m>>] = None, ![<<Root, m>>] = d[<<b, m>>]] BY <2>1, MoveBack
  <2>3. \A x \in Slots : x # <<Root, m>> => D[x] = IF x = <<b, m>> THEN None ELSE d[x]
    BY <2>2, SlotFacts DEF IsDisk
  <2> HIDE DEF D
  <2>4. ASSUME IsMkdir(st) PROVE D[st.at] # Dir
    <3>1. st.at \in Making BY <2>4, KindsApart
    <3>2. st.at \in Slots BY <3>1, Shape, SlotFacts
    <3>3. st.at # <<Root, m>> BY <3>1, Shape, SlotFacts
    <3> QED BY <2>3, <2>4, <3>2, <3>3, NodesApart DEF NotYet
  <2>5. ASSUME IsLink(st) PROVE D[st.at] # Link(st.text)
    <3>1. st.at \in Linking /\ st.at # <<Root, m>> BY <2>5, <1>3, <2>1, KindsApart DEF Spares
    <3>2. st.at \in Slots BY <3>1, Shape, SlotFacts
    <3> QED BY <2>3, <2>5, <3>1, <3>2, NodesApart DEF NotYet
  <2>6. ASSUME IsMove(st) PROVE D[<<st.from[1], "self">>] = Dir /\ D[st.from] # None
    <3>1. PICK a \in Aliases, n \in Names : st.from = <<a, n>> BY <2>6, KindsApart
    <3>2. <<a, n>>[1] = a OBVIOUS
    <3>3. d[<<a, "self">>] = Dir /\ d[<<a, n>>] # None BY <2>6, <3>1, <3>2 DEF NotYet
    <3>4. <<a, n>> # <<b, m>> BY <2>6, <1>3, <2>1, <3>1 DEF Spares
    <3>5. <<a, "self">> # <<b, m>> /\ <<a, "self">> # <<Root, m>> /\ <<a, n>> # <<Root, m>> BY SlotFacts
    <3> QED BY <2>3, <3>1, <3>2, <3>3, <3>4, <3>5, SlotFacts
  <2> QED BY <2>4, <2>5, <2>6 DEF NotYet, D
<1>4. CASE IsPark(e)
  <2>1. PICK s \in Parkable, p \in {"dir", "link", "entry"} : \E t : e = Parking(s, p, t) BY <1>4 DEF IsPark
  <2>2. PICK t : e = Parking(s, p, t) BY <2>1
  <2>3. e.from = s BY <2>2 DEF Parking
  <2> DEFINE r == Reached(d, s)
  <2>4. r \in Slots /\ D = [d EXCEPT ![r] = None] BY <2>2, ParkBack
  <2>5. \A x \in Slots : D[x] = IF x = r THEN None ELSE d[x] BY <2>4 DEF IsDisk
  <2>6. r = s \/ \E m \in Names : r = <<Root, m>>
    <3>1. CASE \E b \in Aliases : s = <<b, "self">> BY <3>1, ReachedFixed DEF Linking
    <3>2. CASE \E b \in Aliases \cup {Root} : \E m \in Names : s = <<b, m>>
      <4>1. PICK b \in Aliases \cup {Root}, m \in Names : s = <<b, m>> BY <3>2
      <4>2. r = <<b, m>> \/ r = <<Root, m>> BY <4>1, ReachedName
      <4> QED BY <4>1, <4>2
    <3> QED BY <3>1, <3>2, Shape
  <2> HIDE DEF D, r
  <2>7. ASSUME IsMkdir(st) PROVE D[st.at] # Dir
    <3>1. st.at \in Making BY <2>7, KindsApart
    <3>2. st.at \in Slots BY <3>1, Shape, SlotFacts
    <3> QED BY <2>5, <2>7, <3>2, NodesApart DEF NotYet
  <2>8. ASSUME IsLink(st) PROVE D[st.at] # Link(st.text)
    <3>1. st.at \in Linking BY <2>8, KindsApart
    <3>2. st.at \in Slots BY <3>1, Shape, SlotFacts
    <3> QED BY <2>5, <2>8, <3>2, NodesApart DEF NotYet
  <2>9. ASSUME IsMove(st) PROVE D[<<st.from[1], "self">>] = Dir /\ D[st.from] # None
    <3>1. PICK a \in Aliases, n \in Names : st.from = <<a, n>> BY <2>9, KindsApart
    <3>2. <<a, n>>[1] = a OBVIOUS
    <3>3. d[<<a, "self">>] = Dir /\ d[<<a, n>>] # None BY <2>9, <3>1, <3>2 DEF NotYet
    <3>4. s # <<a, n>> /\ s # <<a, "self">> BY <2>9, <1>4, <2>3, <3>1, <3>2 DEF Spares
    <3>5. r # <<a, n>> /\ r # <<a, "self">> BY <2>6, <3>4, SlotFacts
    <3> QED BY <2>5, <3>1, <3>2, <3>3, <3>5, SlotFacts
  <2> QED BY <2>7, <2>8, <2>9 DEF NotYet, D
<1> QED BY <1>1, <1>2, <1>3, <1>4 DEF IsStep

(* What the planner decides *)

\* The operations of planSkillRoots: what they do and to which slot.
ArrivalKinds == {"replace-subset", "move-entry", "move-link", "recreate-link"}
DropKinds == {"drop-link", "drop-entry"}
SelfKinds == {"convert-alias", "create-alias", "replace-dangling"}
MakeKinds == {"create-root", "create-cli-root"}

IsOp(o) ==
  \/ o = Op("create-root", <<Root, "self">>)
  \/ \E a \in Aliases : o = Op("create-cli-root", <<a, "cli">>)
  \/ \E a \in Aliases, k \in SelfKinds : o = Op(k, <<a, "self">>)
  \/ \E a \in Aliases, n \in Names, k \in ArrivalKinds \cup DropKinds : o = Op(k, <<a, n>>)
Ops == {o \in {Op(k, s) : k \in MakeKinds \cup SelfKinds \cup ArrivalKinds \cup DropKinds, s \in Slots} : IsOp(o)}

\* What an operation's kind says of its slot.
LEMMA OpForms ==
  ASSUME NEW o, IsOp(o)
  PROVE  /\ o \in Ops
         /\ o = Op(o.kind, o.slot)
         /\ o.kind \in MakeKinds \cup SelfKinds \cup ArrivalKinds \cup DropKinds
         /\ o.kind \in MakeKinds => o.slot \in Making /\ (o.kind = "create-root" <=> o.slot = <<Root, "self">>)
         /\ o.kind \in SelfKinds => \E a \in Aliases : o.slot = <<a, "self">>
         /\ o.kind \in ArrivalKinds \cup DropKinds => \E a \in Aliases, n \in Names : o.slot = <<a, n>>
<1> DEFINE K == MakeKinds \cup SelfKinds \cup ArrivalKinds \cup DropKinds
<1>0. ASSUME NEW k \in K, NEW s \in Slots, o = Op(k, s)
      PROVE  o \in Ops /\ o.kind = k /\ o.slot = s /\ o = Op(o.kind, o.slot)
  <2>1. o.kind = k /\ o.slot = s BY <1>0 DEF Op
  <2>2. o \in {Op(j, t) : j \in K, t \in Slots} BY <1>0
  <2> QED BY <2>1, <2>2, <1>0 DEF Ops
<1>1. CASE o = Op("create-root", <<Root, "self">>)
  <2>1. o \in Ops /\ o.kind = "create-root" /\ o.slot = <<Root, "self">> /\ o = Op(o.kind, o.slot)
    BY <1>0, <1>1, SlotFacts, "create-root" \in K DEF MakeKinds
  <2> QED BY <2>1 DEF MakeKinds, SelfKinds, ArrivalKinds, DropKinds, Making
<1>2. CASE \E a \in Aliases : o = Op("create-cli-root", <<a, "cli">>)
  <2>1. PICK a \in Aliases : o = Op("create-cli-root", <<a, "cli">>) BY <1>2
  <2>2. o \in Ops /\ o.kind = "create-cli-root" /\ o.slot = <<a, "cli">> /\ o = Op(o.kind, o.slot)
    BY <1>0, <2>1, SlotFacts, "create-cli-root" \in K DEF MakeKinds
  <2>3. <<a, "cli">> # <<Root, "self">> /\ <<a, "cli">> \in Making BY DEF Making
  <2> QED BY <2>2, <2>3 DEF MakeKinds, SelfKinds, ArrivalKinds, DropKinds
<1>3. CASE \E a \in Aliases, k \in SelfKinds : o = Op(k, <<a, "self">>)
  <2>1. PICK a \in Aliases, k \in SelfKinds : o = Op(k, <<a, "self">>) BY <1>3
  <2>2. o \in Ops /\ o.kind = k /\ o.slot = <<a, "self">> /\ o = Op(o.kind, o.slot)
    BY <1>0, <2>1, SlotFacts, k \in K
  <2>3. k \notin MakeKinds /\ k \notin ArrivalKinds \cup DropKinds
    BY DEF MakeKinds, SelfKinds, ArrivalKinds, DropKinds
  <2> QED BY <2>2, <2>3
<1>4. CASE \E a \in Aliases, n \in Names, k \in ArrivalKinds \cup DropKinds : o = Op(k, <<a, n>>)
  <2>1. PICK a \in Aliases, n \in Names, k \in ArrivalKinds \cup DropKinds : o = Op(k, <<a, n>>) BY <1>4
  <2>2. o \in Ops /\ o.kind = k /\ o.slot = <<a, n>> /\ o = Op(o.kind, o.slot)
    BY <1>0, <2>1, SlotFacts, k \in K
  <2>3. k \notin MakeKinds /\ k \notin SelfKinds
    BY DEF MakeKinds, SelfKinds, ArrivalKinds, DropKinds
  <2> QED BY <2>2, <2>3
<1> QED BY <1>1, <1>2, <1>3, <1>4 DEF IsOp

\* There are finitely many operations, for the layout is finite.
LEMMA OpsFinite == IsFiniteSet(Ops)
<1>1. IsFiniteSet(Slots)
  <2>1. IsFiniteSet(Aliases) /\ IsFiniteSet(Names) BY FiniteLayout
  <2>2. IsFiniteSet({"cli"}) /\ IsFiniteSet({Root}) /\ IsFiniteSet({"self"}) BY FS_Singleton
  <2>3. IsFiniteSet(Aliases \X {"cli"}) BY <2>1, <2>2, FS_Product
  <2>4. IsFiniteSet(Aliases \cup {Root}) BY <2>1, <2>2, FS_Union
  <2>5. IsFiniteSet(Names \cup {"self"}) BY <2>1, <2>2, FS_Union
  <2>6. IsFiniteSet((Aliases \cup {Root}) \X (Names \cup {"self"})) BY <2>4, <2>5, FS_Product
  <2> QED BY <2>3, <2>6, FS_Union DEF Slots
<1> DEFINE K == MakeKinds \cup SelfKinds \cup ArrivalKinds \cup DropKinds
<1>2. IsFiniteSet(K)
  <2>1. IsFiniteSet(MakeKinds)
    <3>1. MakeKinds = {"create-root"} \cup {"create-cli-root"} BY DEF MakeKinds
    <3> QED BY <3>1, FS_Singleton, FS_AddElement
  <2>2. IsFiniteSet(SelfKinds)
    <3>1. SelfKinds = ({"convert-alias"} \cup {"create-alias"}) \cup {"replace-dangling"} BY DEF SelfKinds
    <3> QED BY <3>1, FS_Singleton, FS_AddElement
  <2>3. IsFiniteSet(ArrivalKinds)
    <3>1. ArrivalKinds = (({"replace-subset"} \cup {"move-entry"}) \cup {"move-link"}) \cup {"recreate-link"}
      BY DEF ArrivalKinds
    <3>2. IsFiniteSet({"replace-subset"} \cup {"move-entry"}) BY FS_Singleton, FS_AddElement
    <3>3. IsFiniteSet(({"replace-subset"} \cup {"move-entry"}) \cup {"move-link"}) BY <3>2, FS_AddElement
    <3>4. IsFiniteSet((({"replace-subset"} \cup {"move-entry"}) \cup {"move-link"}) \cup {"recreate-link"})
      BY <3>3, FS_AddElement
    <3> QED BY <3>1, <3>4
  <2>4. IsFiniteSet(DropKinds)
    <3>1. DropKinds = {"drop-link"} \cup {"drop-entry"} BY DEF DropKinds
    <3> QED BY <3>1, FS_Singleton, FS_AddElement
  <2>5. IsFiniteSet(MakeKinds \cup SelfKinds) BY <2>1, <2>2, FS_Union
  <2>6. IsFiniteSet((MakeKinds \cup SelfKinds) \cup ArrivalKinds) BY <2>5, <2>3, FS_Union
  <2>7. IsFiniteSet(((MakeKinds \cup SelfKinds) \cup ArrivalKinds) \cup DropKinds) BY <2>6, <2>4, FS_Union
  <2> QED BY <2>7
<1> HIDE DEF K
<1>3. IsFiniteSet(K \X Slots) BY <1>1, <1>2, FS_Product
<1> DEFINE f == [x \in K \X Slots |-> Op(x[1], x[2])]
           T == {Op(k, s) : k \in K, s \in Slots}
<1>4. f \in Surjection(K \X Slots, T)
  <2>1. f \in [K \X Slots -> T] OBVIOUS
  <2>2. ASSUME NEW t \in T PROVE \E x \in K \X Slots : f[x] = t
    <3>1. PICK k \in K, s \in Slots : t = Op(k, s) OBVIOUS
    <3>2. <<k, s>> \in K \X Slots /\ f[<<k, s>>] = t BY <3>1
    <3> QED BY <3>2
  <2> QED BY <2>1, <2>2 DEF Surjection
<1>5. IsFiniteSet(T) BY <1>3, <1>4, FS_Surjection
<1>6. Ops \subseteq T BY DEF Ops, K
<1> QED BY <1>5, <1>6, FS_Subset

\* SetToSeq lists a finite set, each member once.
LEMMA Listed ==
  ASSUME NEW S, IsFiniteSet(S)
  PROVE  /\ SetToSeq(S) \in Seq(S)
         /\ \A i, j \in 1..Len(SetToSeq(S)) : i # j => SetToSeq(S)[i] # SetToSeq(S)[j]
<1> DEFINE n == Cardinality(S)
           F == {f \in [1..n -> S] : IsInjective(f)}
<1>1. n \in Nat /\ ExistsBijection(1..n, S) BY FS_CardinalityType
<1>2. \E f \in [1..n -> S] : IsInjective(f)
  <2>1. PICK f : f \in Bijection(1..n, S) BY <1>1 DEF ExistsBijection
  <2>2. f \in [1..n -> S] /\ IsInjective(f) BY <2>1 DEF Bijection, Injection, IsInjective
  <2> QED BY <2>2
<1>3. SetToSeq(S) \in [1..n -> S] /\ IsInjective(SetToSeq(S)) BY <1>2 DEF SetToSeq
<1> DEFINE f == SetToSeq(S)
<1> HIDE DEF f, n
<1>4. DOMAIN f = 1..n BY <1>3 DEF f
<1>5. f \in Seq(S) /\ Len(f) = n BY <1>1, <1>3 DEF f
<1>6. \A i, j \in 1..n : i # j => f[i] # f[j] BY <1>3, <1>4 DEF IsInjective, f
<1> QED BY <1>5, <1>6 DEF f

\* The steps that operations compile to.
AllSteps(d) ==
  {Mkdir(s) : s \in Making} \cup {Symlink(s, IF s[1] = Root THEN "abs" ELSE "alias") : s \in Linking}
    \cup {Move(<<x[1], x[2]>>, <<Root, x[2]>>) : x \in Aliases \X Names}
    \cup {Park(d, x[1], x[2]) : x \in Parkable \X {"dir", "link", "entry"}}

\* They are steps.
LEMMA AllAreSteps ==
  ASSUME NEW d, NEW st \in AllSteps(d)
  PROVE  IsStep(st)
<1> DEFINE M == {Mkdir(s) : s \in Making}
           L == {Symlink(s, IF s[1] = Root THEN "abs" ELSE "alias") : s \in Linking}
           V == {Move(<<x[1], x[2]>>, <<Root, x[2]>>) : x \in Aliases \X Names}
           P == {Park(d, x[1], x[2]) : x \in Parkable \X {"dir", "link", "entry"}}
<1>1. ASSUME st \in M PROVE IsStep(st)
  <2>1. PICK s \in Making : st = Mkdir(s) BY <1>1
  <2> QED BY <2>1 DEF IsStep, IsMkdir
<1>2. ASSUME st \in L PROVE IsStep(st)
  <2>1. PICK s \in Linking : st = Symlink(s, IF s[1] = Root THEN "abs" ELSE "alias") BY <1>2
  <2> QED BY <2>1 DEF IsStep, IsLink
<1>3. ASSUME st \in V PROVE IsStep(st)
  <2>1. PICK x \in Aliases \X Names : st = Move(<<x[1], x[2]>>, <<Root, x[2]>>) BY <1>3
  <2>2. x[1] \in Aliases /\ x[2] \in Names OBVIOUS
  <2> QED BY <2>1, <2>2 DEF IsStep, IsMove
<1>4. ASSUME st \in P PROVE IsStep(st)
  <2>1. PICK x \in Parkable \X {"dir", "link", "entry"} : st = Park(d, x[1], x[2]) BY <1>4
  <2> DEFINE s == x[1]
             p == x[2]
             t == IF p = "link" /\ At(d, s).is = "link" THEN At(d, s).to ELSE ""
  <2>2. st = Parking(s, p, t) BY <2>1 DEF Park, Parking
  <2>3. s \in Parkable /\ p \in {"dir", "link", "entry"} OBVIOUS
  <2> HIDE DEF t, s, p
  <2> QED BY <2>2, <2>3 DEF IsStep, IsPark
<1>5. st \in M \/ st \in L \/ st \in V \/ st \in P
  BY DEF AllSteps
<1> HIDE DEF M, L, V, P
<1> QED BY <1>1, <1>2, <1>3, <1>4, <1>5

\* The roots to convert are real directories.
AllReal(d, conv) == conv \subseteq Aliases /\ \A a \in conv : d[<<a, "self">>] = Dir

\* The path to an entry of a real directory leads to that entry.
LEMMA RealEntry ==
  ASSUME NEW d, NEW a, d[<<a, "self">>] = Dir, NEW n \in Names
  PROVE  /\ Reached(d, <<a, n>>) = <<a, n>>
         /\ At(d, <<a, n>>) = d[<<a, n>>]
         /\ Ends(d, <<a, n>>) # {} => d[<<a, n>>] # None
<1>1. Reached(d, <<a, n>>) = <<a, n>> BY ReachedName, NodesApart
<1>2. <<a, n>>[1] = a /\ <<a, n>>[2] = n OBVIOUS
<1>3. ParentThere(d, <<a, n>>) BY <1>1, <1>2, Parents
<1>4. At(d, <<a, n>>) = d[<<a, n>>] BY <1>1, <1>3 DEF At
<1>5. d[<<a, n>>] = None => Ends(d, <<a, n>>) = {}
  BY <1>4, NodesApart DEF Ends, EndOf, None
<1> QED BY <1>1, <1>4, <1>5

\* The occupant of a name is one of the live entries or stands in .agents/skills already.
LEMMA Occupies ==
  ASSUME NEW d, NEW live, live # {}, NEW r
  PROVE  /\ Occupant(d, live, r) \in live \cup {r}
         /\ d[r] = None => Occupant(d, live, r) \in live
<1> DEFINE reals == Reals(d, live)
<1>1. reals \subseteq live BY DEF Reals
<1>2. Arrivals(d, live, reals) # {} /\ Arrivals(d, live, reals) \subseteq live
  BY <1>1 DEF Arrivals
<1>3. Replacers(d, live, r) \subseteq live BY <1>1 DEF Replacers
<1>4. CASE d[r] = None
  <2>1. Occupant(d, live, r) = CHOOSE o \in Arrivals(d, live, reals) : TRUE BY <1>4 DEF Occupant
  <2> HIDE DEF reals
  <2> QED BY <2>1, <1>2
<1>5. CASE d[r] # None /\ ~HoldsAll(d, live, r) /\ Replacers(d, live, r) # {}
  <2>1. Occupant(d, live, r) = CHOOSE o \in Replacers(d, live, r) : TRUE BY <1>5 DEF Occupant
  <2> QED BY <2>1, <1>3, <1>5
<1>6. CASE d[r] # None /\ ~(~HoldsAll(d, live, r) /\ Replacers(d, live, r) # {})
  <2>1. Occupant(d, live, r) = r BY <1>6 DEF Occupant
  <2> QED BY <2>1, <1>6
<1> QED BY <1>4, <1>5, <1>6

\* How the occupant of a name comes into .agents/skills.
ArrivalKind(d, o, r) ==
  IF d[r] # None THEN "replace-subset"
  ELSE CASE d[o].is = "real" -> "move-entry" [] d[o] = Link("odd") -> "recreate-link" [] OTHER -> "move-link"

\* The occupant arrives by one operation, or is there already.
LEMMA ArrivalKindFacts ==
  ASSUME NEW d, NEW o, NEW r
  PROVE  /\ ArrivalKind(d, o, r) \in ArrivalKinds
         /\ ArrivalKind(d, o, r) = "recreate-link" => d[r] = None
         /\ o # r => Arrival(d, o, r) = {Op(ArrivalKind(d, o, r), o)}
         /\ o = r => Arrival(d, o, r) = {}
<1>1. ArrivalKind(d, o, r) \in ArrivalKinds BY DEF ArrivalKind, ArrivalKinds, Link
<1>2. ArrivalKind(d, o, r) = "recreate-link" => d[r] = None BY DEF ArrivalKind
<1>3. o = r => Arrival(d, o, r) = {} BY DEF Arrival
<1>4. ASSUME o # r PROVE Arrival(d, o, r) = {Op(ArrivalKind(d, o, r), o)}
  <2>1. CASE d[r] # None BY <1>4, <2>1 DEF Arrival, ArrivalKind
  <2>2. CASE d[r] = None BY <1>4, <2>2 DEF Arrival, ArrivalKind
  <2> QED BY <2>1, <2>2
<1> QED BY <1>1, <1>2, <1>3, <1>4

\* x is what becomes of the entry n of the root a.
Fated(d, conv, a, n, x) ==
  LET s == <<a, n>>  r == <<Root, n>>  live == Live(d, conv, n)  o == Occupant(d, live, r) IN
  \/ x = Op("drop-link", s) /\ d[s] # None /\ Ends(d, s) = {}
  \/ Ends(d, s) # {} /\ s # o /\ x = Drop(d, s)
  \/ Ends(d, s) # {} /\ s = o /\ x = Op(ArrivalKind(d, s, r), s)

\* Every operation on content is what becomes of some entry of a root to convert.
LEMMA EveryoneFated ==
  ASSUME NEW d, NEW conv, AllReal(d, conv), NEW x \in Contents(d, conv)
  PROVE  \E a \in conv, n \in Names : Fated(d, conv, a, n, x)
<1>1. CASE x \in {Op("drop-link", s) : s \in {y \in conv \X Names : d[y] # None /\ Ends(d, y) = {}}}
  <2>1. PICK s \in conv \X Names : d[s] # None /\ Ends(d, s) = {} /\ x = Op("drop-link", s) BY <1>1
  <2>2. s[1] \in conv /\ s[2] \in Names /\ s = <<s[1], s[2]>> OBVIOUS
  <2>3. Fated(d, conv, s[1], s[2], x) BY <2>1, <2>2 DEF Fated
  <2> QED BY <2>2, <2>3
<1>2. CASE x \in UNION {Decided(d, Live(d, conv, n), <<Root, n>>).ops : n \in Names}
  <2>1. PICK n \in Names : x \in Decided(d, Live(d, conv, n), <<Root, n>>).ops BY <1>2
  <2> DEFINE live == Live(d, conv, n)
             r == <<Root, n>>
             o == Occupant(d, live, r)
  <2>2. \A s \in live : \E a \in conv : s = <<a, n>> /\ Ends(d, s) # {}
    <3> SUFFICES ASSUME NEW s \in live PROVE \E a \in conv : s = <<a, n>> /\ Ends(d, s) # {}
      OBVIOUS
    <3>1. s \in conv \X {n} /\ Ends(d, s) # {} BY DEF Live
    <3>2. s[1] \in conv /\ s = <<s[1], n>> BY <3>1
    <3> QED BY <3>1, <3>2
  <2>3. live # {} /\ ~(d[r] # None /\ Ends(d, r) = {})
    <3>1. CASE live = {} BY <2>1, <3>1 DEF Decided
    <3>2. CASE live # {} /\ d[r] # None /\ Ends(d, r) = {} BY <2>1, <3>2 DEF Decided
    <3> QED BY <3>1, <3>2
  <2>4. x \in Around(d, live, o, r).ops BY <2>1, <2>3 DEF Decided
  <2>5. x \in Arrival(d, o, r) \/ \E s \in live \ {o} : x = Drop(d, s) BY <2>4 DEF Around
  <2>6. CASE x \in Arrival(d, o, r)
    <3>1. o # r /\ x = Op(ArrivalKind(d, o, r), o) BY <2>6, ArrivalKindFacts
    <3>2. o \in live BY <3>1, <2>3, Occupies
    <3>3. PICK a \in conv : o = <<a, n>> /\ Ends(d, o) # {} BY <3>2, <2>2
    <3>4. Fated(d, conv, a, n, x) BY <3>1, <3>3 DEF Fated
    <3> QED BY <3>4
  <2>7. CASE \E s \in live \ {o} : x = Drop(d, s)
    <3>1. PICK s \in live \ {o} : x = Drop(d, s) BY <2>7
    <3>2. PICK a \in conv : s = <<a, n>> /\ Ends(d, s) # {} BY <2>2
    <3>3. Fated(d, conv, a, n, x) BY <3>1, <3>2 DEF Fated
    <3> QED BY <3>3
  <2> QED BY <2>5, <2>6, <2>7
<1> QED BY <1>1, <1>2 DEF Contents

\* The operation is one for the disk d, which the plan was made from.
Apt(d, o) ==
  /\ IsOp(o)
  /\ o.kind \in MakeKinds => d[o.slot] = None
  /\ o.kind \in SelfKinds => d[o.slot] # Link("alias")
  /\ o.kind \in ArrivalKinds \cup DropKinds => d[<<o.slot[1], "self">>] = Dir /\ d[o.slot] # None
  /\ o.kind = "recreate-link" => d[<<Root, o.slot[2]>>] = None
\* x may come before y: they do not meet, and no root is replaced before its entries leave.
Precedes(x, y) ==
  /\ x.slot # y.slot
  /\ x.kind \in ArrivalKinds /\ y.kind \in ArrivalKinds => x.slot[2] # y.slot[2]
  /\ y.kind \in ArrivalKinds \cup DropKinds => x.kind \notin SelfKinds

\* An entry has one operation, apt for the disk; only the occupant of a name arrives.
LEMMA FatedFacts ==
  ASSUME NEW d, NEW conv, AllReal(d, conv), NEW a \in conv, NEW n \in Names, NEW x, Fated(d, conv, a, n, x)
  PROVE  /\ x.slot = <<a, n>> /\ x = Op(x.kind, <<a, n>>)
         /\ x.kind \in ArrivalKinds \cup DropKinds
         /\ x.kind \in ArrivalKinds => <<a, n>> = Occupant(d, Live(d, conv, n), <<Root, n>>)
         /\ Apt(d, x)
         /\ \A y : Fated(d, conv, a, n, y) => y = x
<1> DEFINE s == <<a, n>>
           r == <<Root, n>>
           o == Occupant(d, Live(d, conv, n), r)
           k == ArrivalKind(d, s, r)
           k2 == IF d[s].is = "link" THEN "drop-link" ELSE "drop-entry"
<1>1. \/ x = Op("drop-link", s) /\ d[s] # None /\ Ends(d, s) = {}
      \/ Ends(d, s) # {} /\ s # o /\ x = Op(k2, s)
      \/ Ends(d, s) # {} /\ s = o /\ x = Op(k, s)
  BY DEF Fated, Drop
<1>2. \A y : Fated(d, conv, a, n, y) =>
         \/ y = Op("drop-link", s) /\ d[s] # None /\ Ends(d, s) = {}
         \/ Ends(d, s) # {} /\ s # o /\ y = Op(k2, s)
         \/ Ends(d, s) # {} /\ s = o /\ y = Op(k, s)
  BY DEF Fated, Drop
<1>3. d[<<a, "self">>] = Dir /\ a \in Aliases BY DEF AllReal
<1>4. k \in ArrivalKinds /\ (k = "recreate-link" => d[r] = None) BY ArrivalKindFacts
<1>5. k2 \in DropKinds /\ "drop-link" \in DropKinds BY DEF DropKinds
<1>6. d[s] # None BY <1>1, <1>3, RealEntry
<1>7. ArrivalKinds \cap DropKinds = {} /\ MakeKinds \cap (ArrivalKinds \cup DropKinds) = {}
      /\ SelfKinds \cap (ArrivalKinds \cup DropKinds) = {} /\ "recreate-link" \notin DropKinds
  BY DEF ArrivalKinds, DropKinds, MakeKinds, SelfKinds
<1>8. \A j, t : Op(j, t).kind = j /\ Op(j, t).slot = t BY DEF Op
<1>9. s[1] = a /\ s[2] = n OBVIOUS
<1> HIDE DEF k, k2, o, s, r
<1>10. x.slot = s /\ x = Op(x.kind, s) /\ x.kind \in ArrivalKinds \cup DropKinds
      /\ (x.kind \in ArrivalKinds => s = o /\ x.kind = k)
  BY <1>1, <1>4, <1>5, <1>7, <1>8
<1>11. \A y : Fated(d, conv, a, n, y) => y = x BY <1>1, <1>2
<1>12. IsOp(x) BY <1>10, <1>3 DEF IsOp, s
<1>13. Apt(d, x)
  <2>1. x.kind \notin MakeKinds /\ x.kind \notin SelfKinds BY <1>10, <1>7
  <2>2. d[<<x.slot[1], "self">>] = Dir /\ d[x.slot] # None BY <1>10, <1>9, <1>3, <1>6
  <2>3. x.kind = "recreate-link" => d[<<Root, x.slot[2]>>] = None
    BY <1>10, <1>9, <1>7, <1>4 DEF r
  <2> QED BY <1>12, <2>1, <2>2, <2>3 DEF Apt
<1> QED BY <1>10, <1>11, <1>13 DEF s, o, r

\* The operations on content do not meet, in whatever order they come.
LEMMA ContentsFacts ==
  ASSUME NEW d, NEW conv, AllReal(d, conv)
  PROVE  /\ \A x \in Contents(d, conv) :
              /\ Apt(d, x) /\ x.kind \in ArrivalKinds \cup DropKinds
              /\ \E a \in conv, n \in Names : x.slot = <<a, n>>
         /\ \A x, y \in Contents(d, conv) : x # y => Precedes(x, y)
<1>1. ASSUME NEW x \in Contents(d, conv)
      PROVE  /\ Apt(d, x) /\ x.kind \in ArrivalKinds \cup DropKinds
             /\ \E a \in conv, n \in Names : x.slot = <<a, n>>
  <2>1. PICK a \in conv, n \in Names : Fated(d, conv, a, n, x) BY EveryoneFated
  <2>2. Apt(d, x) /\ x.kind \in ArrivalKinds \cup DropKinds /\ x.slot = <<a, n>> BY <2>1, FatedFacts
  <2> QED BY <2>2
<1>2. ASSUME NEW x \in Contents(d, conv), NEW y \in Contents(d, conv), x # y
      PROVE  Precedes(x, y)
  <2>1. PICK a \in conv, n \in Names : Fated(d, conv, a, n, x) BY EveryoneFated
  <2>2. PICK b \in conv, m \in Names : Fated(d, conv, b, m, y) BY EveryoneFated
  <2>3. x.slot = <<a, n>> /\ x.kind \in ArrivalKinds \cup DropKinds
        /\ (x.kind \in ArrivalKinds => <<a, n>> = Occupant(d, Live(d, conv, n), <<Root, n>>))
    BY <2>1, FatedFacts
  <2>4. y.slot = <<b, m>> /\ (y.kind \in ArrivalKinds => <<b, m>> = Occupant(d, Live(d, conv, m), <<Root, m>>))
    BY <2>2, FatedFacts
  <2>5. ~(a = b /\ n = m) BY <2>1, <2>2, <1>2, FatedFacts
  <2>6. x.slot # y.slot BY <2>3, <2>4, <2>5
  <2>7. x.slot[2] = n /\ y.slot[2] = m BY <2>3, <2>4
  <2>8. ASSUME x.kind \in ArrivalKinds, y.kind \in ArrivalKinds, n = m PROVE FALSE
    <3>1. <<a, n>> = <<b, m>> BY <2>3, <2>4, <2>8
    <3> QED BY <3>1, <2>5
  <2>9. x.kind \notin SelfKinds BY <2>3 DEF ArrivalKinds, DropKinds, SelfKinds
  <2> QED BY <2>6, <2>7, <2>8, <2>9 DEF Precedes
<1> QED BY <1>1, <1>2

\* A sequence of operations from S, in an order in which they do not hinder each other.
Ordered(s) == \A i, j \in 1..Len(s) : i < j => Precedes(s[i], s[j])

\* Two parts of a plan, each in order, are in order when the first may precede the second.
LEMMA OrderedConcat ==
  ASSUME NEW S, NEW T, NEW s \in Seq(S), NEW t \in Seq(T), Ordered(s), Ordered(t),
         \A x \in S, y \in T : Precedes(x, y)
  PROVE  s \o t \in Seq(S \cup T) /\ Ordered(s \o t)
<1> DEFINE n == Len(s)  m == Len(t)  c == s \o t
<1>1. n \in Nat /\ m \in Nat /\ \A i \in 1..n : s[i] \in S OBVIOUS
<1>1a. \A j \in 1..m : t[j] \in T OBVIOUS
<1>2. s \in Seq(S \cup T) /\ t \in Seq(S \cup T) OBVIOUS
<1>3. c \in Seq(S \cup T) /\ Len(c) = n + m /\ \A i \in 1..(n+m) : c[i] = IF i <= n THEN s[i] ELSE t[i - n]
  BY <1>2
<1> SUFFICES ASSUME NEW i \in 1..(n+m), NEW j \in 1..(n+m), i < j PROVE Precedes(c[i], c[j])
  BY <1>3 DEF Ordered
<1>4. c[i] = (IF i <= n THEN s[i] ELSE t[i - n]) /\ c[j] = (IF j <= n THEN s[j] ELSE t[j - n]) BY <1>3
<1> HIDE DEF c, n, m
<1>5. CASE j <= n
  <2>1. i \in 1..n /\ j \in 1..n /\ i <= n BY <1>5, <1>1
  <2> QED BY <2>1, <1>4, <1>5 DEF Ordered, n
<1>6. CASE i <= n /\ ~(j <= n)
  <2>1. i \in 1..n /\ j - n \in 1..m BY <1>6, <1>1
  <2> QED BY <2>1, <1>4, <1>6, <1>1, <1>1a
<1>7. CASE ~(i <= n)
  <2>1. i - n \in 1..m /\ j - n \in 1..m /\ i - n < j - n /\ ~(j <= n) BY <1>7, <1>1
  <2> QED BY <2>1, <1>4, <1>7 DEF Ordered, m
<1> QED BY <1>5, <1>6, <1>7

\* Operations that do not meet are in order however SetToSeq lists them.
LEMMA OrderedSet ==
  ASSUME NEW S, IsFiniteSet(S), \A x, y \in S : x # y => Precedes(x, y)
  PROVE  SetToSeq(S) \in Seq(S) /\ Ordered(SetToSeq(S))
<1> DEFINE s == SetToSeq(S)
<1>1. s \in Seq(S) /\ \A i, j \in 1..Len(s) : i # j => s[i] # s[j] BY Listed
<1> HIDE DEF s
<1>2. \A i \in 1..Len(s) : s[i] \in S BY <1>1
<1>3. Len(s) \in Nat BY <1>1
<1> SUFFICES ASSUME NEW i \in 1..Len(s), NEW j \in 1..Len(s), i < j PROVE Precedes(s[i], s[j])
  BY <1>1 DEF s, Ordered
<1> QED BY <1>1, <1>2, <1>3

\* The operations of each phase of the plan.
OfRoot(d, conv) == {o \in {Op("create-root", <<Root, "self">>)} : d[<<Root, "self">>] = None}
OfAlias(conv) == {Op("convert-alias", <<a, "self">>) : a \in conv}
OfMade(d, a) ==
  {o \in Ops : /\ Apt(d, o) /\ AliasState(d, a) # "real-directory"
               /\ \/ o.kind = "create-cli-root" /\ o.slot = <<a, "cli">>
                  \/ o.kind \in {"create-alias", "replace-dangling"} /\ o.slot = <<a, "self">>}

\* What makes a missing alias: its CLI's directory first.
LEMMA MadeFacts ==
  ASSUME NEW d, Rooted(d), NEW a \in Aliases
  PROVE  Made(d, a) \in Seq(OfMade(d, a)) /\ Ordered(Made(d, a))
<1> DEFINE c == Op("create-cli-root", <<a, "cli">>)
           e == Op("create-alias", <<a, "self">>)
           p == Op("replace-dangling", <<a, "self">>)
           T == OfMade(d, a)
<1>1. /\ c.kind = "create-cli-root" /\ c.slot = <<a, "cli">>
      /\ e.kind = "create-alias" /\ e.slot = <<a, "self">>
      /\ p.kind = "replace-dangling" /\ p.slot = <<a, "self">>
  BY DEF Op
<1>2. IsOp(c) BY DEF IsOp
<1>3. IsOp(e) BY "create-alias" \in SelfKinds DEF IsOp, SelfKinds
<1>4. IsOp(p) BY "replace-dangling" \in SelfKinds DEF IsOp, SelfKinds
<1>5. c \in Ops /\ e \in Ops /\ p \in Ops BY <1>2, <1>3, <1>4, OpForms
<1>6. At(d, <<a, "self">>) = (IF d[<<a, "cli">>] = Dir THEN d[<<a, "self">>] ELSE None)
  BY Reaching, Parents DEF At
<1> HIDE DEF c, e, p
<1>7. CASE AliasState(d, a) = "absent"
  <2>1. At(d, <<a, "self">>) = None BY <1>7, NodesApart DEF AliasState
  <2>2. d[<<a, "self">>] # Link("alias") BY <2>1, <1>6, NodesApart DEF Rooted
  <2>3. Apt(d, e)
    BY <1>3, <1>1, <2>2 DEF Apt, MakeKinds, SelfKinds, ArrivalKinds, DropKinds
  <2>4. e \in T BY <2>3, <1>5, <1>7, <1>1 DEF OfMade
  <2>5. CASE d[<<a, "cli">>] = None
    <3>1. Apt(d, c)
      BY <1>2, <1>1, <2>5 DEF Apt, MakeKinds, SelfKinds, ArrivalKinds, DropKinds
    <3>2. c \in T BY <3>1, <1>5, <1>7, <1>1 DEF OfMade
    <3>3. Made(d, a) = <<c>> \o <<e>> BY <1>7, <2>5 DEF Made, c, e
    <3>4. Precedes(c, e)
      BY <1>1 DEF Precedes, SelfKinds, ArrivalKinds, DropKinds
    <3> HIDE DEF T
    <3>5. <<c>> \in Seq({c}) /\ Ordered(<<c>>) /\ <<e>> \in Seq({e}) /\ Ordered(<<e>>) BY DEF Ordered
    <3>6. \A x \in {c}, y \in {e} : Precedes(x, y) BY <3>4
    <3>7. <<c>> \o <<e>> \in Seq({c} \cup {e}) /\ Ordered(<<c>> \o <<e>>)
      <4> DEFINE S == {c}  U == {e}  s == <<c>>  t == <<e>>
      <4>1. s \in Seq(S) /\ Ordered(s) /\ t \in Seq(U) /\ Ordered(t) /\ \A x \in S, y \in U : Precedes(x, y)
        BY <3>5, <3>6
      <4> HIDE DEF S, U, s, t
      <4>2. s \o t \in Seq(S \cup U) /\ Ordered(s \o t) BY <4>1, OrderedConcat
      <4> QED BY <4>2 DEF S, U, s, t
    <3>8. {c} \cup {e} \subseteq T BY <3>2, <2>4
    <3>9. <<c>> \o <<e>> \in Seq(T) BY <3>7, <3>8
    <3> QED BY <3>3, <3>7, <3>9 DEF T
  <2>6. CASE d[<<a, "cli">>] # None
    <3>1. Made(d, a) = << >> \o <<e>> BY <1>7, <2>6 DEF Made, e
    <3>2. Made(d, a) = <<e>> BY <3>1
    <3> HIDE DEF T
    <3>3. <<e>> \in Seq(T) /\ Ordered(<<e>>) BY <2>4 DEF Ordered
    <3> QED BY <3>2, <3>3 DEF T
  <2> QED BY <2>5, <2>6
<1>8. CASE AliasState(d, a) = "dangling"
  <2>1. At(d, <<a, "self">>) = Link("lost") BY <1>8 DEF AliasState
  <2>2. d[<<a, "self">>] # Link("alias") BY <2>1, <1>6, NodesApart DEF Link
  <2>3. Apt(d, p)
    BY <1>4, <1>1, <2>2 DEF Apt, MakeKinds, SelfKinds, ArrivalKinds, DropKinds
  <2>4. p \in T BY <2>3, <1>5, <1>8, <1>1 DEF OfMade
  <2>5. Made(d, a) = <<p>> BY <1>8 DEF Made, p
  <2> HIDE DEF T
  <2>6. <<p>> \in Seq(T) /\ Ordered(<<p>>) BY <2>4 DEF Ordered
  <2> QED BY <2>5, <2>6 DEF T
<1>9. CASE AliasState(d, a) # "absent" /\ AliasState(d, a) # "dangling"
  <2>1. Made(d, a) = << >> BY <1>9 DEF Made
  <2>2. << >> \in Seq(T) /\ Ordered(<< >>) BY DEF Ordered
  <2> QED BY <2>1, <2>2
<1> QED BY <1>7, <1>8, <1>9

\* So it is for all the missing aliases, one after the other.
LEMMA AllMade ==
  ASSUME NEW d, Rooted(d), NEW A, A \subseteq Aliases
  PROVE  LET free == SetToSeq(A)
             F == FlattenSeq([i \in 1..Len(free) |-> Made(d, free[i])])
         IN  F \in Seq(UNION {OfMade(d, a) : a \in A}) /\ Ordered(F)
<1> DEFINE free == SetToSeq(A)
           s == [i \in 1..Len(free) |-> Made(d, free[i])]
           F == FlattenSeq(s)
           T == UNION {OfMade(d, a) : a \in A}
<1>1. free \in Seq(A) /\ \A i, j \in 1..Len(free) : i # j => free[i] # free[j]
  <2>1. IsFiniteSet(A) BY FiniteLayout, FS_Subset
  <2> QED BY <2>1, Listed
<1> HIDE DEF free
<1>2. Len(free) \in Nat /\ \A i \in 1..Len(free) : free[i] \in A BY <1>1
<1>3. \A i \in 1..Len(free) : s[i] \in Seq(OfMade(d, free[i])) /\ Ordered(s[i])
  BY <1>2, MadeFacts
<1>4. Len(s) = Len(free) /\ s \in Seq(Seq(T))
  <2>1. \A i \in 1..Len(free) : s[i] \in Seq(T)
    <3> SUFFICES ASSUME NEW i \in 1..Len(free) PROVE s[i] \in Seq(T) OBVIOUS
    <3>1. OfMade(d, free[i]) \subseteq T BY <1>2
    <3>2. s[i] \in Seq(OfMade(d, free[i])) BY <1>3
    <3> HIDE DEF T, s
    <3> QED BY <3>1, <3>2
  <2> HIDE DEF T
  <2>2. s \in [1..Len(free) -> Seq(T)] BY <2>1
  <2> QED BY <2>2, <1>2
<1> HIDE DEF s, T
<1>5. F \in Seq(T) /\ Laid(s, F, Len(s)) BY <1>4, Flattened
<1> HIDE DEF F
<1>6. PICK u \in [1..Len(F) -> Nat], v \in [1..Len(F) -> Nat] :
         /\ \A k \in 1..Len(F) : u[k] \in 1..Len(s) /\ v[k] \in 1..Len(s[u[k]]) /\ F[k] = s[u[k]][v[k]]
         /\ \A k, l \in 1..Len(F) : k < l => u[k] < u[l] \/ (u[k] = u[l] /\ v[k] < v[l])
  BY <1>5 DEF Laid
<1>7. ASSUME NEW k \in 1..Len(F), NEW l \in 1..Len(F), k < l PROVE Precedes(F[k], F[l])
  <2> DEFINE i == u[k]  j == u[l]
  <2>0. i \in 1..Len(free) /\ j \in 1..Len(free) /\ v[k] \in 1..Len(s[i]) /\ v[l] \in 1..Len(s[j])
        /\ F[k] = s[i][v[k]] /\ F[l] = s[j][v[l]] /\ (i < j \/ (i = j /\ v[k] < v[l]))
    BY <1>6, <1>7, <1>4
  <2> HIDE DEF i, j
  <2>1. CASE i = j
    <3>1. v[k] < v[l] BY <2>0, <2>1, <1>2
    <3> QED BY <2>0, <2>1, <3>1, <1>3 DEF Ordered
  <2>2. CASE i # j
    <3>1. F[k] \in OfMade(d, free[i])
      <4>1. s[i] \in Seq(OfMade(d, free[i])) BY <2>0, <1>3
      <4> QED BY <4>1, <2>0
    <3>2. F[l] \in OfMade(d, free[j])
      <4>1. s[j] \in Seq(OfMade(d, free[j])) BY <2>0, <1>3
      <4> QED BY <4>1, <2>0
    <3>3. free[i] # free[j] BY <2>0, <2>2, <1>1
    <3> DEFINE a == free[i]  b == free[j]  x == F[k]  y == F[l]
    <3>4. x.slot = <<a, "cli">> \/ x.slot = <<a, "self">> BY <3>1 DEF OfMade
    <3>5. y.slot = <<b, "cli">> \/ y.slot = <<b, "self">> BY <3>2 DEF OfMade
    <3>6. y.kind \in {"create-cli-root", "create-alias", "replace-dangling"} BY <3>2 DEF OfMade
    <3> HIDE DEF a, b, x, y
    <3>7. x.slot # y.slot BY <3>4, <3>5, <3>3 DEF a, b
    <3>8. Precedes(x, y) BY <3>6, <3>7 DEF Precedes, ArrivalKinds, DropKinds
    <3> QED BY <3>8 DEF x, y
  <2> QED BY <2>1, <2>2
<1>8. Ordered(F) BY <1>7 DEF Ordered
<1> QED BY <1>5, <1>8 DEF F, T, s, free

\* A root that is converted is a real directory that nothing blocks.
LEMMA ConvertibleReal ==
  ASSUME NEW d, NEW blocked
  PROVE  /\ AllReal(d, Convertible(d, blocked)) /\ Convertible(d, blocked) \subseteq Aliases \ blocked
         /\ \A a \in Convertible(d, blocked) : AliasState(d, a) = "real-directory"
<1>1. ASSUME NEW a \in Aliases, AliasState(d, a) = "real-directory" PROVE d[<<a, "self">>] = Dir
  <2>1. At(d, <<a, "self">>) = Dir
    <3>1. CASE At(d, <<a, "self">>) = None BY <3>1, <1>1, NodesApart DEF AliasState
    <3>2. CASE At(d, <<a, "self">>) = Dir BY <3>2
    <3>3. CASE At(d, <<a, "self">>) # None /\ At(d, <<a, "self">>) # Dir BY <3>3, <1>1, NodesApart DEF AliasState, Link
    <3> QED BY <3>1, <3>2, <3>3
  <2>2. d[Reached(d, <<a, "self">>)] = Dir BY <2>1, NodesApart DEF At
  <2> QED BY <2>2, Reaching
<1> QED BY <1>1 DEF Convertible, AllReal

\* The phases of planSkillRoots are in an order: for every disk its operations are apt,
\* do not meet, and replace a root after all of its entries have left it.
LEMMA PlanOrdered ==
  ASSUME NEW d, Rooted(d)
  PROVE  /\ Planned(d) \in Seq(Ops) /\ Ordered(Planned(d))
         /\ \A i \in 1..Len(Planned(d)) : Apt(d, Planned(d)[i])
<1> DEFINE blocked == Blocked(d)
           conv == Convertible(d, blocked)
           C == Contents(d, conv)
           A == Aliases \ blocked
           free == SetToSeq(A)
           K1 == {"replace-subset", "move-entry"}
           K2 == {"drop-entry"}
           K3 == {"move-link", "recreate-link", "drop-link"}
           S1 == {o \in C : o.kind \in K1}
           S2 == {o \in C : o.kind \in K2}
           S3 == {o \in C : o.kind \in K3}
           V == OfAlias(conv)
           R == OfRoot(d, conv)
           W == UNION {OfMade(d, a) : a \in A}
           p0 == IF conv # {} /\ d[<<Root, "self">>] = None THEN <<Op("create-root", <<Root, "self">>)>> ELSE << >>
           p4 == SetToSeq({Op("convert-alias", <<a, "self">>) : a \in conv})
           p5 == FlattenSeq([i \in 1..Len(free) |-> Made(d, free[i])])
<1> HIDE DEF blocked
<1>1. AllReal(d, conv) /\ conv \subseteq A /\ conv \subseteq Aliases /\ \A a \in conv : AliasState(d, a) = "real-directory"
  BY ConvertibleReal
<1>2. Planned(d) = p0 \o Of(C, K1) \o Of(C, K2) \o Of(C, K3) \o p4 \o p5
  BY DEF Planned, Unblocked, InOrder, blocked
<1>3. Of(C, K1) = SetToSeq(S1) /\ Of(C, K2) = SetToSeq(S2) /\ Of(C, K3) = SetToSeq(S3)
  BY DEF Of
<1>4. p4 = SetToSeq(V) BY DEF OfAlias
<1> HIDE DEF conv, C, free, p4
<1>5. /\ \A x \in C : /\ Apt(d, x) /\ x.kind \in ArrivalKinds \cup DropKinds
                       /\ \E a \in conv, n \in Names : x.slot = <<a, n>>
      /\ \A x, y \in C : x # y => Precedes(x, y)
  BY <1>1, ContentsFacts DEF C
<1>6. \A x \in C : /\ x \in Ops /\ x.kind \notin SelfKinds /\ x.kind \notin MakeKinds
                   /\ x.slot # <<Root, "self">> /\ \A a : x.slot # <<a, "self">> /\ x.slot # <<a, "cli">>
  <2> SUFFICES ASSUME NEW x \in C
               PROVE  /\ x \in Ops /\ x.kind \notin SelfKinds /\ x.kind \notin MakeKinds
                      /\ x.slot # <<Root, "self">> /\ \A a : x.slot # <<a, "self">> /\ x.slot # <<a, "cli">>
    OBVIOUS
  <2>1. IsOp(x) BY <1>5 DEF Apt
  <2>2. x \in Ops BY <2>1, OpForms
  <2>3. x.kind \notin SelfKinds /\ x.kind \notin MakeKinds
    BY <1>5 DEF ArrivalKinds, DropKinds, SelfKinds, MakeKinds
  <2>4. PICK a \in conv, n \in Names : x.slot = <<a, n>> BY <1>5
  <2>5. n # "self" /\ n # "cli" BY SlotFacts
  <2> QED BY <2>2, <2>3, <2>4, <2>5
<1>7. \A x \in V : /\ Apt(d, x) /\ x \in Ops /\ x.kind = "convert-alias"
                   /\ \E a \in conv : x.slot = <<a, "self">> /\ x = Op("convert-alias", <<a, "self">>)
  <2> SUFFICES ASSUME NEW x \in V
               PROVE  /\ Apt(d, x) /\ x \in Ops /\ x.kind = "convert-alias"
                      /\ \E a \in conv : x.slot = <<a, "self">> /\ x = Op("convert-alias", <<a, "self">>)
    OBVIOUS
  <2>1. PICK a \in conv : x = Op("convert-alias", <<a, "self">>) BY DEF OfAlias
  <2>2. x.kind = "convert-alias" /\ x.slot = <<a, "self">> BY <2>1 DEF Op
  <2>3. IsOp(x) BY <2>1, <1>1, "convert-alias" \in SelfKinds DEF IsOp, SelfKinds
  <2>4. d[<<a, "self">>] # Link("alias") BY <1>1, NodesApart DEF AllReal
  <2>5. Apt(d, x) BY <2>2, <2>3, <2>4 DEF Apt, MakeKinds, SelfKinds, ArrivalKinds, DropKinds
  <2> QED BY <2>1, <2>2, <2>3, <2>5, OpForms
<1>8. \A x \in R : /\ Apt(d, x) /\ x \in Ops /\ x.kind = "create-root" /\ x.slot = <<Root, "self">>
  <2> SUFFICES ASSUME NEW x \in R
               PROVE  Apt(d, x) /\ x \in Ops /\ x.kind = "create-root" /\ x.slot = <<Root, "self">>
    OBVIOUS
  <2>1. x = Op("create-root", <<Root, "self">>) /\ d[<<Root, "self">>] = None BY DEF OfRoot
  <2>2. x.kind = "create-root" /\ x.slot = <<Root, "self">> BY <2>1 DEF Op
  <2>3. IsOp(x) BY <2>1 DEF IsOp
  <2>4. Apt(d, x) BY <2>1, <2>2, <2>3 DEF Apt, MakeKinds, SelfKinds, ArrivalKinds, DropKinds
  <2> QED BY <2>2, <2>3, <2>4, OpForms
<1>9. \A x \in W : /\ Apt(d, x) /\ x \in Ops /\ x.kind \notin ArrivalKinds \cup DropKinds
                   /\ \E a \in A : AliasState(d, a) # "real-directory" /\ (x.slot = <<a, "self">> \/ x.slot = <<a, "cli">>)
  <2> SUFFICES ASSUME NEW a \in A, NEW x \in OfMade(d, a)
               PROVE  /\ Apt(d, x) /\ x \in Ops /\ x.kind \notin ArrivalKinds \cup DropKinds
                      /\ AliasState(d, a) # "real-directory" /\ (x.slot = <<a, "self">> \/ x.slot = <<a, "cli">>)
    OBVIOUS
  <2> QED BY DEF OfMade, ArrivalKinds, DropKinds
<1>10. A \subseteq Aliases OBVIOUS
<1>11. p5 \in Seq(W) /\ Ordered(p5) BY <1>10, AllMade DEF free
<1> HIDE DEF p5, W, A
<1>12. SetToSeq(S1) \in Seq(S1) /\ Ordered(SetToSeq(S1))
       /\ SetToSeq(S2) \in Seq(S2) /\ Ordered(SetToSeq(S2))
       /\ SetToSeq(S3) \in Seq(S3) /\ Ordered(SetToSeq(S3))
       /\ S1 \subseteq C /\ S2 \subseteq C /\ S3 \subseteq C
       /\ S1 \cap S2 = {} /\ (S1 \cup S2) \cap S3 = {}
  <2>1. \A S : S \subseteq C => IsFiniteSet(S)
    <3>1. C \subseteq Ops BY <1>6
    <3> QED BY <3>1, OpsFinite, FS_Subset
  <2>2. \A S : S \subseteq C => SetToSeq(S) \in Seq(S) /\ Ordered(SetToSeq(S))
    BY <2>1, <1>5, OrderedSet
  <2>3. S1 \subseteq C /\ S2 \subseteq C /\ S3 \subseteq C /\ S1 \cap S2 = {} /\ (S1 \cup S2) \cap S3 = {} OBVIOUS
  <2> HIDE DEF S1, S2, S3
  <2> QED BY <2>2, <2>3
<1> HIDE DEF S1, S2, S3
<1>13. p4 \in Seq(V) /\ Ordered(p4)
  <2>1. V \subseteq Ops BY <1>7
  <2>2. IsFiniteSet(V) BY <2>1, OpsFinite, FS_Subset
  <2>3. \A x, y \in V : x # y => Precedes(x, y)
    <3> SUFFICES ASSUME NEW x \in V, NEW y \in V, x # y PROVE Precedes(x, y) OBVIOUS
    <3>1. PICK a \in conv : x.slot = <<a, "self">> /\ x = Op("convert-alias", <<a, "self">>) BY <1>7
    <3>2. PICK b \in conv : y.slot = <<b, "self">> /\ y = Op("convert-alias", <<b, "self">>) BY <1>7
    <3>3. a # b BY <3>1, <3>2
    <3>4. x.slot # y.slot BY <3>1, <3>2, <3>3
    <3> QED BY <3>4, <1>7 DEF Precedes, ArrivalKinds, DropKinds
  <2> HIDE DEF V
  <2> QED BY <1>4, <2>2, <2>3, OrderedSet
<1>14. p0 \in Seq(R) /\ Ordered(p0)
  <2> DEFINE x == Op("create-root", <<Root, "self">>)
  <2>1. CASE conv # {} /\ d[<<Root, "self">>] = None
    <3>1. x \in R BY <2>1 DEF OfRoot
    <3>2. p0 = <<x>> BY <2>1
    <3> HIDE DEF x, R, p0
    <3>3. <<x>> \in Seq(R) /\ Ordered(<<x>>) BY <3>1 DEF Ordered
    <3> QED BY <3>2, <3>3
  <2>2. CASE ~(conv # {} /\ d[<<Root, "self">>] = None)
    <3>1. p0 = << >> BY <2>2
    <3> HIDE DEF p0, R
    <3>2. << >> \in Seq(R) /\ Ordered(<< >>) BY DEF Ordered
    <3> QED BY <3>1, <3>2
  <2> QED BY <2>1, <2>2
<1> HIDE DEF p0, R, V
<1>15. \A x \in R : (\A y \in C \cup V \cup W : Precedes(x, y))
  <2> SUFFICES ASSUME NEW x \in R, NEW y \in C \cup V \cup W PROVE Precedes(x, y) OBVIOUS
  <2>1. x.slot = <<Root, "self">> /\ x.kind = "create-root" BY <1>8
  <2>2. y.slot # <<Root, "self">>
    <3>1. CASE y \in C BY <3>1, <1>6
    <3>2. CASE y \in V
      <4>1. PICK a \in conv : y.slot = <<a, "self">> BY <3>2, <1>7
      <4>2. a # Root BY <1>1, SlotFacts
      <4> QED BY <4>1, <4>2
    <3>3. CASE y \in W
      <4>1. PICK a \in A : y.slot = <<a, "self">> \/ y.slot = <<a, "cli">> BY <3>3, <1>9
      <4>2. a # Root BY <1>10, SlotFacts
      <4> QED BY <4>1, <4>2
    <3> QED BY <3>1, <3>2, <3>3
  <2> QED BY <2>1, <2>2 DEF Precedes, SelfKinds, ArrivalKinds
<1>16. \A x \in C : (\A y \in V \cup W : Precedes(x, y))
  <2> SUFFICES ASSUME NEW x \in C, NEW y \in V \cup W PROVE Precedes(x, y) OBVIOUS
  <2>1. x.slot # y.slot
    <3>1. \E a : y.slot = <<a, "self">> \/ y.slot = <<a, "cli">> BY <1>7, <1>9
    <3> QED BY <3>1, <1>6
  <2>2. y.kind \notin ArrivalKinds \cup DropKinds
    <3>1. CASE y \in V BY <3>1, <1>7 DEF ArrivalKinds, DropKinds
    <3>2. CASE y \in W BY <3>2, <1>9
    <3> QED BY <3>1, <3>2
  <2> QED BY <2>1, <2>2 DEF Precedes
<1>17. \A x \in V : (\A y \in W : Precedes(x, y))
  <2> SUFFICES ASSUME NEW x \in V, NEW y \in W PROVE Precedes(x, y) OBVIOUS
  <2>1. PICK a \in conv : x.slot = <<a, "self">> BY <1>7
  <2>2. PICK b \in A : AliasState(d, b) # "real-directory" /\ (y.slot = <<b, "self">> \/ y.slot = <<b, "cli">>) BY <1>9
  <2>3. a # b BY <2>2, <1>1
  <2>4. x.slot # y.slot BY <2>1, <2>2, <2>3
  <2> QED BY <2>4, <1>9 DEF Precedes
<1>18. \A x \in S1 : (\A y \in S2 : Precedes(x, y))
  BY <1>12, <1>5
<1>19. \A x \in S1 \cup S2 : (\A y \in S3 : Precedes(x, y))
  BY <1>12, <1>5
<1> DEFINE q1 == p0 \o SetToSeq(S1)
           q2 == q1 \o SetToSeq(S2)
           q3 == q2 \o SetToSeq(S3)
           q4 == q3 \o p4
<1>20. q1 \in Seq(R \cup S1) /\ Ordered(q1)
  BY <1>14, <1>12, <1>15, OrderedConcat
<1> HIDE DEF q1
<1>21. q2 \in Seq((R \cup S1) \cup S2) /\ Ordered(q2)
  <2>1. \A x \in R \cup S1, y \in S2 : Precedes(x, y) BY <1>15, <1>18, <1>12
  <2> QED BY <1>20, <1>12, <2>1, OrderedConcat
<1> HIDE DEF q2
<1>22. q3 \in Seq(((R \cup S1) \cup S2) \cup S3) /\ Ordered(q3)
  <2>1. \A x \in (R \cup S1) \cup S2, y \in S3 : Precedes(x, y) BY <1>15, <1>19, <1>12
  <2> QED BY <1>21, <1>12, <2>1, OrderedConcat
<1> HIDE DEF q3
<1> DEFINE U == ((R \cup S1) \cup S2) \cup S3
<1>23. q4 \in Seq(U \cup V) /\ Ordered(q4)
  <2>1. \A x \in U, y \in V : Precedes(x, y) BY <1>15, <1>16, <1>12
  <2> QED BY <1>22, <1>13, <2>1, OrderedConcat
<1> HIDE DEF q4
<1>24. q4 \o p5 \in Seq((U \cup V) \cup W) /\ Ordered(q4 \o p5)
  <2>1. \A x \in U \cup V, y \in W : Precedes(x, y) BY <1>15, <1>16, <1>17, <1>12
  <2> QED BY <1>23, <1>11, <2>1, OrderedConcat
<1>25. Planned(d) = q4 \o p5
  BY <1>2, <1>3 DEF q1, q2, q3, q4
<1> DEFINE X == (U \cup V) \cup W
<1>26. \A x \in X : x \in Ops /\ Apt(d, x) BY <1>5, <1>6, <1>7, <1>8, <1>9, <1>12
<1> HIDE DEF X
<1>27. Planned(d) \in Seq(X) /\ Ordered(Planned(d)) BY <1>24, <1>25 DEF X
<1> QED BY <1>26, <1>27

\* st is a step of the operation o.
StepOf(d, o, st) ==
  /\ st \in AllSteps(d)
  /\ IsMkdir(st) => o.kind \in MakeKinds /\ st.at = o.slot
  /\ IsLink(st) => \/ o.kind \in SelfKinds /\ st.at = o.slot /\ st.text = "alias"
                   \/ o.kind = "recreate-link" /\ st.at = <<Root, o.slot[2]>>
  /\ IsMove(st) => o.kind \in ArrivalKinds /\ st.from = o.slot /\ st.to = <<Root, o.slot[2]>>
  /\ IsPark(st) => \/ o.kind \notin MakeKinds /\ st.from = o.slot
                   \/ o.kind = "replace-subset" /\ st.from = <<Root, o.slot[2]>>

\* Making a directory is a step of the operations that make one.
LEMMA MkdirOf ==
  ASSUME NEW d, NEW o, o.kind \in MakeKinds, o.slot \in Making
  PROVE  StepOf(d, o, Mkdir(o.slot))
<1> DEFINE st == Mkdir(o.slot)
<1>1. st \in AllSteps(d) BY DEF AllSteps
<1>2. st.do = "mkdir" /\ st.at = o.slot BY DEF Mkdir
<1> HIDE DEF st
<1>3. ~IsLink(st) /\ ~IsMove(st) /\ ~IsPark(st) BY <1>2, KindsApart
<1> QED BY <1>1, <1>2, <1>3 DEF StepOf, st

\* Making a link is one of the operations that make an alias or rewrite a catalog link.
LEMMA LinkOf ==
  ASSUME NEW d, NEW o, NEW s \in Linking, NEW t, t = IF s[1] = Root THEN "abs" ELSE "alias",
         \/ o.kind \in SelfKinds /\ s = o.slot /\ t = "alias"
         \/ o.kind = "recreate-link" /\ s = <<Root, o.slot[2]>>
  PROVE  StepOf(d, o, Symlink(s, t)) /\ IsLink(Symlink(s, t))
<1> DEFINE st == Symlink(s, t)
<1>1. st \in AllSteps(d) BY DEF AllSteps
<1>2. st.do = "link" /\ st.at = s /\ st.text = t BY DEF Symlink
<1>2a. IsLink(st) BY DEF IsLink
<1> HIDE DEF st
<1>3. ~IsMkdir(st) /\ ~IsMove(st) /\ ~IsPark(st) BY <1>2, KindsApart
<1> QED BY <1>1, <1>2, <1>2a, <1>3 DEF StepOf, st

\* Moving an entry is one of the operations by which it arrives.
LEMMA MoveOf ==
  ASSUME NEW d, NEW o, o.kind \in ArrivalKinds, NEW a \in Aliases, NEW n \in Names, o.slot = <<a, n>>
  PROVE  LET st == Move(<<a, n>>, <<Root, n>>) IN StepOf(d, o, st) /\ IsMove(st) /\ st.from = <<a, n>>
<1> DEFINE st == Move(<<a, n>>, <<Root, n>>)
<1>1. st \in AllSteps(d)
  <2>1. <<a, n>> \in Aliases \X Names OBVIOUS
  <2>2. st = Move(<<<<a, n>>[1], <<a, n>>[2]>>, <<Root, <<a, n>>[2]>>) OBVIOUS
  <2> HIDE DEF st
  <2> QED BY <2>1, <2>2 DEF AllSteps
<1>2. st.do = "rename" /\ st.park = "" /\ st.from = <<a, n>> /\ st.to = <<Root, n>> BY DEF Move
<1>3. IsMove(st) BY DEF IsMove
<1>4. o.slot[2] = n OBVIOUS
<1> HIDE DEF st
<1>5. ~IsMkdir(st) /\ ~IsLink(st) /\ ~IsPark(st) BY <1>2, KindsApart
<1> QED BY <1>1, <1>2, <1>3, <1>4, <1>5 DEF StepOf, st

\* Parking is one of the operations that replace or drop what is there.
LEMMA ParkOf ==
  ASSUME NEW d, NEW o, NEW s \in Parkable, NEW p \in {"dir", "link", "entry"},
         \/ o.kind \notin MakeKinds /\ s = o.slot
         \/ o.kind = "replace-subset" /\ s = <<Root, o.slot[2]>>
  PROVE  LET st == Park(d, s, p) IN StepOf(d, o, st) /\ IsPark(st) /\ st.from = s
<1> DEFINE st == Park(d, s, p)
<1>1. st \in AllSteps(d)
  <2>1. <<s, p>> \in Parkable \X {"dir", "link", "entry"} OBVIOUS
  <2>2. st = Park(d, <<s, p>>[1], <<s, p>>[2]) OBVIOUS
  <2> HIDE DEF st
  <2> QED BY <2>1, <2>2 DEF AllSteps
<1>2. st.do = "rename" /\ st.park = p /\ st.from = s BY DEF Park
<1> HIDE DEF st
<1>3. ~IsMkdir(st) /\ ~IsLink(st) /\ ~IsMove(st) BY <1>2, KindsApart
<1>4. IsPark(st) BY <1>1, <1>3, AllAreSteps DEF IsStep
<1> QED BY <1>1, <1>2, <1>3, <1>4 DEF StepOf, st

\* c holds steps of the operation o, none of which another one brings about.
StepsOf(d, o, c) ==
  /\ \A v \in 1..Len(c) : StepOf(d, o, c[v])
  /\ \A v, w \in 1..Len(c) : v < w => Spares(c[v], c[w])

\* One step does so.
LEMMA OneStep ==
  ASSUME NEW d, NEW o, NEW x, StepOf(d, o, x)
  PROVE  <<x>> \in Seq(AllSteps(d)) /\ StepsOf(d, o, <<x>>)
BY DEF StepsOf, StepOf

\* Two steps do when the first spares the second.
LEMMA TwoSteps ==
  ASSUME NEW d, NEW o, NEW x, NEW y, StepOf(d, o, x), StepOf(d, o, y), Spares(x, y)
  PROVE  <<x, y>> \in Seq(AllSteps(d)) /\ StepsOf(d, o, <<x, y>>)
BY DEF StepsOf, StepOf

\* What an operation compiles to are its steps.
LEMMA CompiledFacts ==
  ASSUME NEW d, NEW o, IsOp(o)
  PROVE  Compiled(d, o) \in Seq(AllSteps(d)) /\ StepsOf(d, o, Compiled(d, o))
<1>0. /\ o.kind \in MakeKinds \cup SelfKinds \cup ArrivalKinds \cup DropKinds
      /\ o.kind \in MakeKinds => o.slot \in Making
      /\ o.kind \in SelfKinds => \E a \in Aliases : o.slot = <<a, "self">>
      /\ o.kind \in ArrivalKinds \cup DropKinds => \E a \in Aliases, n \in Names : o.slot = <<a, n>>
  BY OpForms
<1>1. CASE o.kind \in MakeKinds
  <2>1. Compiled(d, o) = <<Mkdir(o.slot)>> BY <1>1 DEF Compiled, MakeKinds
  <2>2. StepOf(d, o, Mkdir(o.slot)) BY <1>0, <1>1, MkdirOf
  <2> QED BY <2>1, <2>2, OneStep
<1>2. CASE o.kind \in SelfKinds
  <2>1. PICK a \in Aliases : o.slot = <<a, "self">> BY <1>0, <1>2
  <2> DEFINE s == <<a, "self">>
  <2>2. s \in Linking /\ s \in Parkable /\ s[1] # Root BY SlotFacts DEF Linking, Parkable
  <2>3. o.kind \notin MakeKinds BY <1>2 DEF SelfKinds, MakeKinds
  <2>4. StepOf(d, o, Symlink(s, "alias")) /\ IsLink(Symlink(s, "alias"))
    BY <2>1, <2>2, <1>2, LinkOf
  <2>5. \A p \in {"dir", "link", "entry"} : StepOf(d, o, Park(d, s, p)) /\ Spares(Park(d, s, p), Symlink(s, "alias"))
    <3> SUFFICES ASSUME NEW p \in {"dir", "link", "entry"}
                 PROVE  StepOf(d, o, Park(d, s, p)) /\ Spares(Park(d, s, p), Symlink(s, "alias"))
      OBVIOUS
    <3>1. StepOf(d, o, Park(d, s, p)) /\ IsPark(Park(d, s, p)) BY <2>1, <2>2, <2>3, ParkOf
    <3> DEFINE x == Park(d, s, p)  y == Symlink(s, "alias")
    <3>2. IsPark(x) /\ IsLink(y) BY <3>1, <2>4
    <3> HIDE DEF x, y
    <3>3. ~IsLink(x) /\ ~IsMove(x) /\ ~IsMkdir(y) /\ ~IsMove(y)
      <4>1. x.do = "rename" /\ x.park # "" /\ y.do = "link" BY <3>2, KindsApart
      <4> QED BY <4>1, KindsApart
    <3>4. Spares(x, y) BY <3>3 DEF Spares
    <3> QED BY <3>1, <3>4 DEF x, y
  <2>6. CASE o.kind = "create-alias"
    <3>1. Compiled(d, o) = <<Symlink(s, "alias")>> BY <2>1, <2>6 DEF Compiled
    <3> QED BY <3>1, <2>4, OneStep
  <2>7. CASE o.kind = "replace-dangling"
    <3>1. Compiled(d, o) = <<Park(d, s, "link"), Symlink(s, "alias")>> BY <2>1, <2>7 DEF Compiled
    <3> QED BY <3>1, <2>4, <2>5, TwoSteps
  <2>8. CASE o.kind = "convert-alias"
    <3>1. Compiled(d, o) = <<Park(d, s, "dir"), Symlink(s, "alias")>> BY <2>1, <2>8 DEF Compiled
    <3> QED BY <3>1, <2>4, <2>5, TwoSteps
  <2> QED BY <2>6, <2>7, <2>8, <1>2 DEF SelfKinds
<1>3. CASE o.kind \in ArrivalKinds \cup DropKinds
  <2>1. PICK a \in Aliases, n \in Names : o.slot = <<a, n>> BY <1>0, <1>3
  <2> DEFINE s == <<a, n>>
             r == <<Root, n>>
  <2>2. s \in Parkable /\ r \in Parkable /\ r \in Linking /\ r[1] = Root /\ o.slot[2] = n
    BY <2>1 DEF Parkable, Linking
  <2>3. o.kind \notin MakeKinds BY <1>3 DEF ArrivalKinds, DropKinds, MakeKinds
  <2>4. \A p \in {"dir", "link", "entry"} : StepOf(d, o, Park(d, s, p)) /\ IsPark(Park(d, s, p))
    BY <2>1, <2>2, <2>3, ParkOf
  <2>5. o.kind \in ArrivalKinds => StepOf(d, o, Move(s, r)) /\ IsMove(Move(s, r)) /\ Move(s, r).from = s
    BY <2>1, MoveOf
  <2>6. CASE o.kind = "drop-link"
    <3>1. Compiled(d, o) = <<Park(d, s, "link")>> BY <2>1, <2>6 DEF Compiled
    <3> QED BY <3>1, <2>4, OneStep
  <2>7. CASE o.kind = "drop-entry"
    <3>1. Compiled(d, o) = <<Park(d, s, "entry")>> BY <2>1, <2>7 DEF Compiled
    <3> QED BY <3>1, <2>4, OneStep
  <2>8. CASE o.kind \in {"move-link", "move-entry"}
    <3>1. Compiled(d, o) = <<Move(s, r)>> BY <2>1, <2>2, <2>8 DEF Compiled
    <3>2. o.kind \in ArrivalKinds BY <2>8 DEF ArrivalKinds
    <3> QED BY <3>1, <3>2, <2>5, OneStep
  <2>9. CASE o.kind = "recreate-link"
    <3>1. Compiled(d, o) = <<Park(d, s, "link"), Symlink(r, "abs")>> BY <2>1, <2>2, <2>9 DEF Compiled
    <3> DEFINE x == Park(d, s, "link")  y == Symlink(r, "abs")
    <3>2. StepOf(d, o, y) /\ IsLink(y) BY <2>2, <2>9, LinkOf
    <3>3. StepOf(d, o, x) /\ IsPark(x) BY <2>4
    <3> HIDE DEF x, y
    <3>4. ~IsLink(x) /\ ~IsMove(x) /\ ~IsMkdir(y) /\ ~IsMove(y)
      <4>1. x.do = "rename" /\ x.park # "" /\ y.do = "link" BY <3>2, <3>3, KindsApart
      <4> QED BY <4>1, KindsApart
    <3>5. Spares(x, y) BY <3>4 DEF Spares
    <3>6. Compiled(d, o) = <<x, y>> BY <3>1 DEF x, y
    <3> QED BY <3>2, <3>3, <3>5, <3>6, TwoSteps
  <2>10. CASE o.kind = "replace-subset"
    <3>1. Compiled(d, o) = <<Park(d, r, "entry"), Move(s, r)>> BY <2>1, <2>2, <2>10 DEF Compiled
    <3> DEFINE x == Park(d, r, "entry")  y == Move(s, r)
    <3>2. StepOf(d, o, y) /\ IsMove(y) /\ y.from = s BY <2>5, <2>10 DEF ArrivalKinds
    <3>3. StepOf(d, o, x) /\ IsPark(x) /\ x.from = r BY <2>2, <2>10, ParkOf
    <3> HIDE DEF x, y
    <3>4. ~IsLink(x) /\ ~IsMkdir(y) /\ ~IsLink(y)
      <4>1. x.do = "rename" /\ y.do = "rename" BY <3>2, <3>3, KindsApart
      <4> QED BY <4>1, KindsApart
    <3>5. r # s /\ r # <<a, "self">> /\ s[1] = a BY SlotFacts
    <3>6. Spares(x, y) BY <3>2, <3>3, <3>4, <3>5 DEF Spares
    <3>7. Compiled(d, o) = <<x, y>> BY <3>1 DEF x, y
    <3> QED BY <3>2, <3>3, <3>6, <3>7, TwoSteps
  <2> QED BY <2>6, <2>7, <2>8, <2>9, <2>10, <1>3 DEF ArrivalKinds, DropKinds
<1> QED BY <1>0, <1>1, <1>2, <1>3

\* On the disk the plan was made from, a step of an apt operation does not look taken.
LEMMA StepOfNotYet ==
  ASSUME NEW d, NEW o, Apt(d, o), NEW st, StepOf(d, o, st)
  PROVE  NotYet(d, st)
<1>0. IsOp(o) BY DEF Apt
<1>1. ASSUME IsMkdir(st) PROVE d[st.at] # Dir
  BY <1>1, NodesApart DEF StepOf, Apt
<1>2. ASSUME IsLink(st) PROVE d[st.at] # Link(st.text)
  <2>1. CASE o.kind \in SelfKinds /\ st.at = o.slot /\ st.text = "alias" BY <2>1 DEF Apt
  <2>2. CASE o.kind = "recreate-link" /\ st.at = <<Root, o.slot[2]>> BY <2>2, NodesApart DEF Apt
  <2> QED BY <2>1, <2>2, <1>2 DEF StepOf
<1>3. ASSUME IsMove(st) PROVE d[<<st.from[1], "self">>] = Dir /\ d[st.from] # None
  BY <1>3 DEF StepOf, Apt
<1> QED BY <1>1, <1>2, <1>3 DEF NotYet

\* The steps of an operation spare those of the operations it precedes.
LEMMA StepOfSpares ==
  ASSUME NEW d, NEW x, Apt(d, x), NEW y, Apt(d, y), Precedes(x, y),
         NEW e, StepOf(d, x, e), NEW st, StepOf(d, y, st)
  PROVE  Spares(e, st)
<1>0. IsOp(x) /\ IsOp(y) BY DEF Apt
<1>1. ASSUME IsMkdir(st) PROVE IsMkdir(e) => e.at # st.at
  BY <1>1 DEF StepOf, Precedes
<1>2. ASSUME IsLink(st) PROVE (IsLink(e) => e.at # st.at) /\ (IsMove(e) => e.to # st.at)
  <2>1. CASE y.kind \in SelfKinds /\ st.at = y.slot
    <3>1. PICK b \in Aliases : st.at = <<b, "self">> BY <2>1, <1>0, OpForms
    <3>2. ASSUME IsLink(e) PROVE e.at # st.at
      <4>1. CASE x.kind \in SelfKinds /\ e.at = x.slot BY <4>1, <2>1 DEF Precedes
      <4>2. CASE x.kind = "recreate-link" /\ e.at = <<Root, x.slot[2]>>
        BY <4>2, <3>1, SlotFacts
      <4> QED BY <4>1, <4>2, <3>2 DEF StepOf
    <3>3. ASSUME IsMove(e) PROVE e.to # st.at
      <4>1. e.to = <<Root, x.slot[2]>> BY <3>3 DEF StepOf
      <4> QED BY <4>1, <3>1, SlotFacts
    <3> QED BY <3>2, <3>3
  <2>2. CASE y.kind = "recreate-link" /\ st.at = <<Root, y.slot[2]>>
    <3>1. y.kind \in ArrivalKinds BY <2>2 DEF ArrivalKinds
    <3>2. ASSUME IsLink(e) PROVE e.at # st.at
      <4>1. CASE x.kind \in SelfKinds /\ e.at = x.slot
        BY <4>1, <3>1 DEF Precedes
      <4>2. CASE x.kind = "recreate-link" /\ e.at = <<Root, x.slot[2]>>
        <5>1. x.kind \in ArrivalKinds BY <4>2 DEF ArrivalKinds
        <5>2. x.slot[2] # y.slot[2] BY <5>1, <3>1 DEF Precedes
        <5> QED BY <5>2, <4>2, <2>2
      <4> QED BY <4>1, <4>2, <3>2 DEF StepOf
    <3>3. ASSUME IsMove(e) PROVE e.to # st.at
      <4>1. e.to = <<Root, x.slot[2]>> /\ x.kind \in ArrivalKinds BY <3>3 DEF StepOf
      <4>2. x.slot[2] # y.slot[2] BY <4>1, <3>1 DEF Precedes
      <4> QED BY <4>1, <4>2, <2>2
    <3> QED BY <3>2, <3>3
  <2> QED BY <2>1, <2>2, <1>2 DEF StepOf
<1>3. ASSUME IsMove(st)
      PROVE  /\ IsMove(e) \/ IsPark(e) => e.from \notin {st.from, <<st.from[1], "self">>}
             /\ IsLink(e) => e.at # <<st.from[1], "self">>
  <2>1. y.kind \in ArrivalKinds /\ st.from = y.slot BY <1>3 DEF StepOf
  <2>2. PICK b \in Aliases, n \in Names : y.slot = <<b, n>> BY <2>1, <1>0, OpForms
  <2>3. <<b, n>>[1] = b OBVIOUS
  <2>4. st.from = <<b, n>> /\ st.from[1] = b BY <2>1, <2>2, <2>3
  <2>5. x.kind \notin SelfKinds /\ x.slot # <<b, n>> BY <2>1, <2>2 DEF Precedes
  <2>6. ASSUME x.kind \notin MakeKinds PROVE \E a \in Aliases, m \in Names : x.slot = <<a, m>>
    BY <2>6, <2>5, <1>0, OpForms
  <2>7. ASSUME IsMove(e) \/ IsPark(e) PROVE e.from \notin {<<b, n>>, <<b, "self">>}
    <3>1. CASE x.kind \notin MakeKinds /\ e.from = x.slot
      <4>1. PICK a \in Aliases, m \in Names : x.slot = <<a, m>> BY <3>1, <2>6
      <4>2. m # "self" BY SlotFacts
      <4> QED BY <4>1, <4>2, <3>1, <2>5
    <3>2. CASE e.from = <<Root, x.slot[2]>> BY <3>2, SlotFacts
    <3>3. x.kind \in ArrivalKinds => x.kind \notin MakeKinds BY DEF ArrivalKinds, MakeKinds
    <3> QED BY <3>1, <3>2, <3>3, <2>7 DEF StepOf
  <2>8. ASSUME IsLink(e) PROVE e.at # <<b, "self">>
    <3>1. e.at = <<Root, x.slot[2]>> BY <2>5, <2>8 DEF StepOf
    <3> QED BY <3>1, SlotFacts
  <2> QED BY <2>4, <2>7, <2>8
<1> QED BY <1>1, <1>2, <1>3 DEF Spares

\* The steps of a plan are steps.
LEMMA StepsTyped ==
  ASSUME NEW d, NEW ops \in Seq(Ops)
  PROVE  /\ Steps(d, ops) \in Seq(AllSteps(d))
         /\ \A i \in 1..Len(Steps(d, ops)) : IsStep(Steps(d, ops)[i])
<1> DEFINE s == [i \in 1..Len(ops) |-> Compiled(d, ops[i])]
           T == AllSteps(d)
<1>1. \A o \in Ops : IsOp(o) BY DEF Ops
<1>2. \A i \in 1..Len(ops) : Compiled(d, ops[i]) \in Seq(T) BY <1>1, CompiledFacts
<1> HIDE DEF T
<1>3. s \in Seq(Seq(T)) /\ Len(ops) \in Nat BY <1>2
<1> HIDE DEF s
<1>4. FlattenSeq(s) \in Seq(T) BY <1>3, Flattened
<1>5. Steps(d, ops) = FlattenSeq(s) BY DEF Steps, s
<1>6. \A i \in 1..Len(Steps(d, ops)) : Steps(d, ops)[i] \in T BY <1>4, <1>5
<1> QED BY <1>4, <1>5, <1>6, AllAreSteps DEF T

\* The plan of a disk: no step of it looks taken there, and none of them makes a later one look so.
LEMMA PlanSound ==
  ASSUME NEW d, Rooted(d)
  PROVE  LET steps == Steps(d, Planned(d)) IN
         /\ \A i \in 1..Len(steps) : NotYet(d, steps[i])
         /\ \A i, j \in 1..Len(steps) : i < j => Spares(steps[i], steps[j])
<1> DEFINE ops == Planned(d)
           s == [i \in 1..Len(ops) |-> Compiled(d, ops[i])]
           T == AllSteps(d)
           F == FlattenSeq(s)
<1>0. ops \in Seq(Ops) /\ Ordered(ops) /\ \A i \in 1..Len(ops) : Apt(d, ops[i]) BY PlanOrdered
<1> HIDE DEF ops
<1>1. \A i \in 1..Len(ops) : IsOp(ops[i]) BY <1>0 DEF Apt
<1>2. \A i \in 1..Len(ops) : Compiled(d, ops[i]) \in Seq(T) /\ StepsOf(d, ops[i], Compiled(d, ops[i]))
  BY <1>1, CompiledFacts
<1> HIDE DEF T
<1>3. s \in Seq(Seq(T)) /\ Len(ops) \in Nat /\ Len(s) = Len(ops) BY <1>2, <1>0
<1>3a. \A i \in 1..Len(ops) : StepsOf(d, ops[i], s[i]) BY <1>2
<1> HIDE DEF s
<1>4. F \in Seq(T) /\ Laid(s, F, Len(s)) BY <1>3, Flattened
<1> HIDE DEF F
<1>5. PICK u \in [1..Len(F) -> Nat], v \in [1..Len(F) -> Nat] :
         /\ \A k \in 1..Len(F) : u[k] \in 1..Len(s) /\ v[k] \in 1..Len(s[u[k]]) /\ F[k] = s[u[k]][v[k]]
         /\ \A k, l \in 1..Len(F) : k < l => u[k] < u[l] \/ (u[k] = u[l] /\ v[k] < v[l])
  BY <1>4 DEF Laid
<1>6. \A k \in 1..Len(F) : u[k] \in 1..Len(ops) /\ v[k] \in 1..Len(s[u[k]]) /\ F[k] = s[u[k]][v[k]]
                           /\ StepOf(d, ops[u[k]], F[k]) /\ Apt(d, ops[u[k]])
  BY <1>5, <1>3, <1>3a, <1>0 DEF StepsOf
<1>7. \A k \in 1..Len(F) : NotYet(d, F[k]) BY <1>6, StepOfNotYet
<1>8. ASSUME NEW k \in 1..Len(F), NEW l \in 1..Len(F), k < l PROVE Spares(F[k], F[l])
  <2>1. CASE u[k] < u[l]
    <3>1. Precedes(ops[u[k]], ops[u[l]]) BY <2>1, <1>6, <1>0 DEF Ordered
    <3> QED BY <3>1, <1>6, StepOfSpares
  <2>2. CASE u[k] = u[l] /\ v[k] < v[l]
    BY <2>2, <1>6, <1>3a DEF StepsOf
  <2> QED BY <2>1, <2>2, <1>5, <1>8
<1>9. Steps(d, Planned(d)) = F BY DEF Steps, F, s, ops
<1> QED BY <1>7, <1>8, <1>9

-----------------------------------------------------------------------------
(* Records *)

\* The fields of a command and of the quarantine; the records' values stay hidden.
IsRun(x) == x = [pc |-> x.pc, ops |-> x.ops, before |-> x.before, tracked |-> x.tracked, calm |-> x.calm]
IsQ(x) == x = [at |-> "ready", owner |-> x.owner, steps |-> x.steps, items |-> x.items, done |-> x.done,
               undone |-> x.undone, mark |-> x.mark, calm |-> x.calm, spoilt |-> x.spoilt, was |-> x.was]

\* A command that goes on keeps its plan.
LEMMA RunGo ==
  ASSUME NEW x, IsRun(x), NEW v
  PROVE  LET y == [x EXCEPT !.pc = v] IN IsRun(y) /\ y.pc = v /\ y.ops = x.ops /\ y.calm = x.calm
<1>1. PICK o, b, t, c, p : x = [pc |-> p, ops |-> o, before |-> b, tracked |-> t, calm |-> c] BY DEF IsRun
<1>2. [x EXCEPT !.pc = v] = [pc |-> v, ops |-> o, before |-> b, tracked |-> t, calm |-> c] BY <1>1
<1> QED BY <1>1, <1>2 DEF IsRun

\* A command whose plan became stale keeps its plan and its place.
LEMMA RunDisturbed ==
  ASSUME NEW x, IsRun(x), NEW v
  PROVE  LET y == [x EXCEPT !.calm = v] IN IsRun(y) /\ y.pc = x.pc /\ y.ops = x.ops /\ y.calm = v
<1>1. PICK o, b, t, c, p : x = [pc |-> p, ops |-> o, before |-> b, tracked |-> t, calm |-> c] BY DEF IsRun
<1>2. [x EXCEPT !.calm = v] = [pc |-> p, ops |-> o, before |-> b, tracked |-> t, calm |-> v] BY <1>1
<1> QED BY <1>1, <1>2 DEF IsRun

\* The quarantine y is the quarantine x, further on.
SameQ(x, y) == /\ IsQ(y) /\ y.owner = x.owner /\ y.steps = x.steps /\ y.was = x.was

\* Setting one field of the quarantine leaves the others.
LEMMA QEdited ==
  ASSUME NEW x, IsQ(x)
  PROVE  /\ \A i, v : LET y == [x EXCEPT !.items[i] = v] IN
              /\ SameQ(x, y) /\ y.items = [x.items EXCEPT ![i] = v]
              /\ y.done = x.done /\ y.undone = x.undone /\ y.mark = x.mark /\ y.calm = x.calm
         /\ \A v : LET y == [x EXCEPT !.done = v] IN
              /\ SameQ(x, y) /\ y.items = x.items
              /\ y.done = v /\ y.undone = x.undone /\ y.mark = x.mark /\ y.calm = x.calm
         /\ \A v : LET y == [x EXCEPT !.undone = v] IN
              /\ SameQ(x, y) /\ y.items = x.items
              /\ y.done = x.done /\ y.undone = v /\ y.mark = x.mark /\ y.calm = x.calm
         /\ \A v : LET y == [x EXCEPT !.mark = v] IN
              /\ SameQ(x, y) /\ y.items = x.items
              /\ y.done = x.done /\ y.undone = x.undone /\ y.mark = v /\ y.calm = x.calm
         /\ \A v : LET y == [x EXCEPT !.spoilt = v] IN
              /\ SameQ(x, y) /\ y.items = x.items
              /\ y.done = x.done /\ y.undone = x.undone /\ y.mark = x.mark /\ y.calm = x.calm
         /\ \A v : LET y == [x EXCEPT !.calm = v] IN
              /\ SameQ(x, y) /\ y.items = x.items
              /\ y.done = x.done /\ y.undone = x.undone /\ y.mark = x.mark /\ y.calm = v
<1>1. PICK o, s, t, n, u, m, c, p, w :
        x = [at |-> "ready", owner |-> o, steps |-> s, items |-> t, done |-> n,
             undone |-> u, mark |-> m, calm |-> c, spoilt |-> p, was |-> w]
  BY DEF IsQ
<1>2. ASSUME NEW i, NEW v
      PROVE  LET y == [x EXCEPT !.items[i] = v] IN
              /\ SameQ(x, y) /\ y.items = [x.items EXCEPT ![i] = v]
              /\ y.done = x.done /\ y.undone = x.undone /\ y.mark = x.mark /\ y.calm = x.calm
  <2>1. [x EXCEPT !.items[i] = v] =
          [at |-> "ready", owner |-> o, steps |-> s, items |-> [t EXCEPT ![i] = v], done |-> n,
           undone |-> u, mark |-> m, calm |-> c, spoilt |-> p, was |-> w]
    BY <1>1
  <2> QED BY <1>1, <2>1 DEF SameQ, IsQ
<1>3. ASSUME NEW v
      PROVE  LET y == [x EXCEPT !.done = v] IN
              /\ SameQ(x, y) /\ y.items = x.items
              /\ y.done = v /\ y.undone = x.undone /\ y.mark = x.mark /\ y.calm = x.calm
  <2>1. [x EXCEPT !.done = v] =
          [at |-> "ready", owner |-> o, steps |-> s, items |-> t, done |-> v,
           undone |-> u, mark |-> m, calm |-> c, spoilt |-> p, was |-> w]
    BY <1>1
  <2> QED BY <1>1, <2>1 DEF SameQ, IsQ
<1>4. ASSUME NEW v
      PROVE  LET y == [x EXCEPT !.undone = v] IN
              /\ SameQ(x, y) /\ y.items = x.items
              /\ y.done = x.done /\ y.undone = v /\ y.mark = x.mark /\ y.calm = x.calm
  <2>1. [x EXCEPT !.undone = v] =
          [at |-> "ready", owner |-> o, steps |-> s, items |-> t, done |-> n,
           undone |-> v, mark |-> m, calm |-> c, spoilt |-> p, was |-> w]
    BY <1>1
  <2> QED BY <1>1, <2>1 DEF SameQ, IsQ
<1>5. ASSUME NEW v
      PROVE  LET y == [x EXCEPT !.mark = v] IN
              /\ SameQ(x, y) /\ y.items = x.items
              /\ y.done = x.done /\ y.undone = x.undone /\ y.mark = v /\ y.calm = x.calm
  <2>1. [x EXCEPT !.mark = v] =
          [at |-> "ready", owner |-> o, steps |-> s, items |-> t, done |-> n,
           undone |-> u, mark |-> v, calm |-> c, spoilt |-> p, was |-> w]
    BY <1>1
  <2> QED BY <1>1, <2>1 DEF SameQ, IsQ
<1>6. ASSUME NEW v
      PROVE  LET y == [x EXCEPT !.spoilt = v] IN
              /\ SameQ(x, y) /\ y.items = x.items
              /\ y.done = x.done /\ y.undone = x.undone /\ y.mark = x.mark /\ y.calm = x.calm
  <2>1. [x EXCEPT !.spoilt = v] =
          [at |-> "ready", owner |-> o, steps |-> s, items |-> t, done |-> n,
           undone |-> u, mark |-> m, calm |-> c, spoilt |-> v, was |-> w]
    BY <1>1
  <2> QED BY <1>1, <2>1 DEF SameQ, IsQ
<1>7. ASSUME NEW v
      PROVE  LET y == [x EXCEPT !.calm = v] IN
              /\ SameQ(x, y) /\ y.items = x.items
              /\ y.done = x.done /\ y.undone = x.undone /\ y.mark = x.mark /\ y.calm = v
  <2>1. [x EXCEPT !.calm = v] =
          [at |-> "ready", owner |-> o, steps |-> s, items |-> t, done |-> n,
           undone |-> u, mark |-> m, calm |-> v, spoilt |-> p, was |-> w]
    BY <1>1
  <2> QED BY <1>1, <2>1 DEF SameQ, IsQ
<1> QED BY <1>2, <1>3, <1>4, <1>5, <1>6, <1>7

-----------------------------------------------------------------------------
(* The invariant *)

\* The parts of the invariant: how many logged steps are not taken back.
Todo(x) == x.done - Cardinality(x.undone)
IsMark(m) == m \in {"", "committed", "rolled-back"}
\* The quarantine is whole: its log is a prefix of its plan, taken back from the end.
IsReady(x) ==
  /\ IsQ(x)
  /\ x.owner \in Runs /\ IsMark(x.mark)
  /\ Len(x.steps) \in Nat /\ \A i \in 1..Len(x.steps) : IsStep(x.steps[i])
  /\ x.items = [i \in 1..Len(x.steps) |-> x.items[i]]
  /\ x.done \in 0..Len(x.steps) /\ Todo(x) \in 0..x.done /\ x.undone = (Todo(x) + 1)..x.done

\* The command's stages while the quarantine is its own; while it holds only a plan.
Active == {"step", "looked", "ran", "verified", "untracked", "clean", "undo", "undid"}
Forward == {"step", "looked", "ran", "verified", "untracked"}
Planners == {"planned", "claimed"}

DiskOK == IsDisk(disk) /\ Rooted(disk)
RunsOK == run = [r \in Runs |-> run[r]] /\ \A r \in Runs : run[r].pc # "idle" => IsRun(run[r])
\* There is no quarantine, a bare directory, or a whole one.
QOK ==
  \/ q = NoQ
  \/ q = [at |-> "bare", owner |-> q.owner] /\ q.owner \in Runs
  \/ IsReady(q)
\* The script runs in the place of a command that is dead or has given up.
ScriptOK ==
  /\ script.on \in BOOLEAN
  /\ script.on =>
       /\ script = [on |-> TRUE, at |-> script.at, seen |-> script.seen, stuck |-> FALSE]
       /\ q.at = "ready" /\ script.at \in 0..Len(q.steps) /\ script.seen = q.done /\ q.mark = ""
       /\ run[q.owner].pc \in {"dead", "stopped"}

\* Where the command is that made the quarantine x.
AtWork(pc, x) ==
  /\ pc = "clean" <=> x.mark # ""
  /\ pc \in Forward => Todo(x) = x.done
  /\ pc \in {"looked", "ran"} => x.done < Len(x.steps)
  /\ pc = "undid" => Todo(x) > 0
\* One command has the quarantine; a quarantine has one command, at work or gone.
Owned ==
  /\ \A r \in Runs :
       /\ run[r].pc = "claimed" => q.at = "bare" /\ q.owner = r
       /\ run[r].pc \in Active => q.at = "ready" /\ q.owner = r /\ AtWork(run[r].pc, q)
  /\ q.at = "bare" => run[q.owner].pc \in {"claimed", "dead"}
  /\ q.at = "ready" => run[q.owner].pc \in Active \cup {"dead", "stopped"}
\* A plan that nothing overtook is the plan of the disk as it is.
Planning ==
  \A r \in Runs : run[r].pc \in Planners =>
    run[r].ops \in Seq(Ops) /\ (run[r].calm => run[r].ops = Planned(disk))
\* Once anything is parked, no other command holds a plan that nothing overtook.
Holds(x) == \E i \in 1..Len(x.steps) : x.items[i] # None
Quiet ==
  q.at = "ready" /\ Holds(q) =>
    \A r \in Runs : r # q.owner /\ run[r].pc \in Planners => ~run[r].calm

\* Nobody but the steps of x, k of them, has changed the disk since it was x.was.
Trail(d, x, past, k) ==
  /\ past[0] = x.was /\ d = past[k]
  /\ \A j \in 0..k : IsDisk(past[j]) /\ \A i \in (j+1)..Len(x.steps) : NotYet(past[j], x.steps[i])
  /\ \A j \in 1..k : /\ Fits(past[j-1], x.steps[j]) /\ past[j] = Done(past[j-1], x.steps[j])
                     /\ x.items[j] = Parked(past[j-1], x.steps[j])
  /\ \A j \in (k+1)..Len(x.steps) : x.items[j] = None
\* The disk is as many steps on as the log says, one more that is not logged yet, or fewer:
\* the script takes steps back without a line in the log.
Place(k, pc, todo, done, mark) ==
  /\ k <= todo \/ (k = done + 1 /\ todo = done)
  /\ pc \in {"step", "looked", "verified"} => k = done
  /\ pc = "ran" => k = done + 1
  /\ pc = "undo" => k = todo
  /\ pc = "undid" => k = todo - 1
  /\ mark = "rolled-back" => k = 0
Where(k, pc, x) == Place(k, pc, Todo(x), x.done, x.mark)
Apart(s) == \A i, j \in 1..Len(s) : i < j => Spares(s[i], s[j])
\* Nobody else wrote: the disk is where k steps of the plan lead, and the script has not passed k.
Trailed ==
  q.at = "ready" /\ q.calm =>
    /\ Apart(q.steps)
    /\ q.mark # "committed" =>
         \E k \in 0..Len(q.steps) : \E past :
           /\ Trail(disk, q, past, k) /\ Where(k, run[q.owner].pc, q)
           /\ script.on => k <= script.at
\* The inductive invariant.
IInv == DiskOK /\ RunsOK /\ QOK /\ ScriptOK /\ Owned /\ Planning /\ Quiet /\ Trailed

-----------------------------------------------------------------------------
(* The trail *)

\* A step that fits leads one on.
LEMMA TrailForward ==
  ASSUME NEW d, IsDisk(d), Rooted(d), NEW x, Len(x.steps) \in Nat, \A i \in 1..Len(x.steps) : IsStep(x.steps[i]),
         x.items = [i \in 1..Len(x.steps) |-> x.items[i]],
         Apart(x.steps), NEW k \in 0..Len(x.steps), k < Len(x.steps), NEW past, Trail(d, x, past, k),
         Fits(d, x.steps[k+1]),
         NEW y, y.steps = x.steps, y.was = x.was, y.items = [x.items EXCEPT ![k+1] = Parked(d, x.steps[k+1])]
  PROVE  \E new : Trail(Done(d, x.steps[k+1]), y, new, k + 1)
<1> DEFINE n == Len(x.steps)  st == x.steps[k+1]  e == Done(d, st)
           new == [j \in 0..(k+1) |-> IF j = k + 1 THEN e ELSE past[j]]
<1>1. n \in Nat /\ k \in Nat /\ k + 1 \in 1..n /\ IsStep(st) OBVIOUS
<1>2. new[k+1] = e /\ new[0] = past[0] /\ \A j \in 0..k : new[j] = past[j] BY <1>1
<1>3. IsDisk(e) BY <1>1, DoneDisk
<1>4. d = past[k] /\ \A i \in (k+1)..n : NotYet(past[k], x.steps[i]) BY DEF Trail
<1>5. \A i \in (k+2)..n : NotYet(e, x.steps[i])
  <2> SUFFICES ASSUME NEW i \in (k+2)..n PROVE NotYet(e, x.steps[i]) OBVIOUS
  <2>1. i \in 1..n /\ i \in (k+1)..n /\ k + 1 < i BY <1>1
  <2>2. IsStep(x.steps[i]) /\ NotYet(d, x.steps[i]) BY <2>1, <1>4
  <2>3. Spares(st, x.steps[i]) BY <2>1, <1>1 DEF Apart
  <2> QED BY <2>2, <2>3, <1>1, NotYetKept
<1>6. y.items[k+1] = Parked(d, st) /\ \A j \in 1..n : j # k + 1 => y.items[j] = x.items[j]
  BY <1>1
<1> HIDE DEF new, e, n, st
<1>7. y.steps = x.steps /\ Len(y.steps) = n BY DEF n
<1>8. ASSUME NEW j \in 0..(k+1)
      PROVE  IsDisk(new[j]) /\ \A i \in (j+1)..n : NotYet(new[j], y.steps[i])
  <2>1. CASE j = k + 1 BY <2>1, <1>2, <1>3, <1>5, <1>7
  <2>2. CASE j # k + 1
    <3>1. j \in 0..k BY <2>2, <1>1
    <3> QED BY <3>1, <1>2, <1>7 DEF Trail, n
  <2> QED BY <2>1, <2>2
<1>9. ASSUME NEW j \in 1..(k+1)
      PROVE  /\ Fits(new[j-1], y.steps[j]) /\ new[j] = Done(new[j-1], y.steps[j])
             /\ y.items[j] = Parked(new[j-1], y.steps[j])
  <2>1. CASE j = k + 1
    <3>1. j - 1 = k /\ new[j-1] = d BY <2>1, <1>1, <1>2, <1>4
    <3> QED BY <3>1, <2>1, <1>2, <1>6, <1>7 DEF e, st
  <2>2. CASE j # k + 1
    <3>1. j \in 1..k /\ j - 1 \in 0..k /\ j \in 0..k /\ j \in 1..n BY <2>2, <1>1
    <3>2. new[j] = past[j] /\ new[j-1] = past[j-1] /\ y.items[j] = x.items[j] BY <3>1, <2>2, <1>2, <1>6
    <3> QED BY <3>1, <3>2, <1>7 DEF Trail
  <2> QED BY <2>1, <2>2
<1>10. ASSUME NEW j \in (k+2)..n PROVE y.items[j] = None
  <2>1. j \in 1..n /\ j # k + 1 /\ j \in (k+1)..n BY <1>1
  <2>2. x.items[j] = None BY <2>1 DEF Trail, n
  <2> QED BY <2>1, <2>2, <1>6
<1>11. new[0] = y.was /\ e = new[k+1] BY <1>2 DEF Trail
<1>12. (k + 1) + 1 = k + 2 BY <1>1
<1>13. Trail(e, y, new, k + 1) BY <1>8, <1>9, <1>10, <1>11, <1>12, <1>7 DEF Trail
<1> QED BY <1>13 DEF e, st

\* The last step looks taken, and its reversal leads one back.
LEMMA TrailBack ==
  ASSUME NEW d, NEW x, Len(x.steps) \in Nat, \A i \in 1..Len(x.steps) : IsStep(x.steps[i]),
         x.items = [i \in 1..Len(x.steps) |-> x.items[i]],
         NEW k \in 1..Len(x.steps), NEW past, Trail(d, x, past, k)
  PROVE  /\ Seen(d, x.steps[k], x.items[k])
         /\ \A y : y.steps = x.steps /\ y.was = x.was /\ y.items = [x.items EXCEPT ![k] = None]
                   => Trail(Undone(d, x.steps[k], x.items[k]), y, past, k - 1)
<1> DEFINE n == Len(x.steps)  st == x.steps[k]  p == past[k-1]
<1>1. k \in Nat /\ n \in Nat /\ k - 1 \in 0..k /\ k \in 1..k /\ IsStep(st) OBVIOUS
<1>2. IsDisk(p) /\ Fits(p, st) /\ d = Done(p, st) /\ x.items[k] = Parked(p, st) BY <1>1 DEF Trail
<1>3. Undone(d, st, x.items[k]) = p /\ Seen(d, st, x.items[k]) BY <1>1, <1>2, StepBack
<1> SUFFICES ASSUME NEW y, y.steps = x.steps, y.was = x.was, y.items = [x.items EXCEPT ![k] = None]
             PROVE  Trail(p, y, past, k - 1)
  BY <1>3
<1>4. y.items[k] = None /\ \A j \in 1..n : j # k => y.items[j] = x.items[j] OBVIOUS
<1> HIDE DEF n, st, p
<1>5. \A j \in 0..(k-1) : j \in 0..k BY <1>1
<1>6. \A j \in 1..(k-1) : j \in 1..k /\ j \in 1..n /\ j # k BY <1>1 DEF n
<1>7. ASSUME NEW j \in k..n PROVE y.items[j] = None
  <2>1. CASE j = k BY <2>1, <1>4
  <2>2. CASE j # k
    <3>1. j \in (k+1)..n /\ j \in 1..n BY <2>2, <1>1
    <3> QED BY <3>1, <2>2, <1>4 DEF Trail, n
  <2> QED BY <2>1, <2>2
<1>8. (k - 1) + 1 = k BY <1>1
<1>9. \A j \in 0..(k-1) : IsDisk(past[j]) /\ \A i \in (j+1)..n : NotYet(past[j], y.steps[i])
  BY <1>5 DEF Trail, n
<1>10. \A j \in 1..(k-1) : /\ Fits(past[j-1], y.steps[j]) /\ past[j] = Done(past[j-1], y.steps[j])
                          /\ y.items[j] = Parked(past[j-1], y.steps[j])
  BY <1>6, <1>4 DEF Trail
<1>11. past[0] = y.was /\ p = past[k-1] BY DEF Trail, p
<1> QED BY <1>7, <1>8, <1>9, <1>10, <1>11 DEF Trail, n

\* The log does not matter to where the disk is.
LEMMA TrailSame ==
  ASSUME NEW d, NEW x, NEW y, NEW past, NEW k, Trail(d, x, past, k),
         y.steps = x.steps, y.was = x.was, y.items = x.items
  PROVE  Trail(d, y, past, k)
BY DEF Trail

\* The command r goes to pc, and the others stay, their plans stale or not;
\* Stales: they are stale.
Moves(r, pc) ==
  /\ RunsOK'
  /\ run'[r].pc = pc /\ run'[r].ops = run[r].ops /\ (run'[r].calm => run[r].calm)
  /\ \A x \in Runs \ {r} : run'[x].pc = run[x].pc /\ run'[x].ops = run[x].ops /\ (run'[x].calm => run[x].calm)
Stales(r) == \A x \in Runs \ {r} : run'[x].pc # "idle" => ~run'[x].calm

\* Go does so.
LEMMA GoMoves ==
  ASSUME RunsOK, NEW r \in Runs, run[r].pc # "idle", NEW pc, Go(r, pc)
  PROVE  Moves(r, pc) /\ run'[r].calm = run[r].calm
<1>1. IsRun(run[r]) BY DEF RunsOK
<1> DEFINE y == [run[r] EXCEPT !.pc = pc]
<1>2. IsRun(y) /\ y.pc = pc /\ y.ops = run[r].ops /\ y.calm = run[r].calm BY <1>1, RunGo
<1> HIDE DEF y
<1>3. run' = [run EXCEPT ![r] = y] BY DEF Go, y
<1>4. run'[r] = y /\ \A x \in Runs \ {r} : run'[x] = run[x] BY <1>3 DEF RunsOK
<1>5. run' = [x \in Runs |-> run'[x]] BY <1>3 DEF RunsOK
<1>6. \A x \in Runs : run'[x].pc # "idle" => IsRun(run'[x]) BY <1>2, <1>4 DEF RunsOK
<1> QED BY <1>2, <1>4, <1>5, <1>6 DEF Moves, RunsOK

\* Staled spoils the plans of the others, and nothing else.
LEMMA StaledRuns ==
  ASSUME RunsOK, NEW r \in Runs
  PROVE  LET s == Staled(r) IN
         /\ s = [x \in Runs |-> s[x]] /\ s[r] = run[r]
         /\ \A x \in Runs \ {r} : /\ s[x].pc = run[x].pc /\ s[x].ops = run[x].ops
                                  /\ (run[x].pc # "idle" => IsRun(s[x]) /\ ~s[x].calm)
                                  /\ (s[x].calm => run[x].calm)
<1> DEFINE s == Staled(r)
<1>1. s = [x \in Runs |-> s[x]] /\ s[r] = run[r] BY DEF Staled
<1>2. ASSUME NEW x \in Runs \ {r}
      PROVE  /\ s[x].pc = run[x].pc /\ s[x].ops = run[x].ops
             /\ (run[x].pc # "idle" => IsRun(s[x]) /\ ~s[x].calm)
             /\ (s[x].calm => run[x].calm)
  <2>1. CASE run[x].pc = "idle"
    <3>1. s[x] = run[x] BY <2>1 DEF Staled
    <3> HIDE DEF s
    <3> QED BY <3>1, <2>1
  <2>2. CASE run[x].pc # "idle"
    <3>1. s[x] = [run[x] EXCEPT !.calm = FALSE] BY <2>2 DEF Staled
    <3>2. IsRun(run[x]) BY <2>2 DEF RunsOK
    <3> HIDE DEF s
    <3>3. IsRun(s[x]) /\ s[x].pc = run[x].pc /\ s[x].ops = run[x].ops /\ s[x].calm = FALSE
      BY <3>1, <3>2, RunDisturbed
    <3> QED BY <3>3
  <2> QED BY <2>1, <2>2
<1> QED BY <1>1, <1>2

\* So does a command that changes the disk.
LEMMA StaledMoves ==
  ASSUME RunsOK, NEW r \in Runs, run[r].pc # "idle", NEW pc, run' = [Staled(r) EXCEPT ![r].pc = pc]
  PROVE  Moves(r, pc) /\ Stales(r)
<1> DEFINE s == Staled(r)
<1>1. /\ s = [x \in Runs |-> s[x]] /\ s[r] = run[r]
      /\ \A x \in Runs \ {r} : /\ s[x].pc = run[x].pc /\ s[x].ops = run[x].ops
                               /\ (run[x].pc # "idle" => IsRun(s[x]) /\ ~s[x].calm)
                               /\ (s[x].calm => run[x].calm)
  BY StaledRuns
<1>2. IsRun(run[r]) BY DEF RunsOK
<1> DEFINE y == [run[r] EXCEPT !.pc = pc]
<1>3. IsRun(y) /\ y.pc = pc /\ y.ops = run[r].ops /\ y.calm = run[r].calm BY <1>2, RunGo
<1> HIDE DEF y, s
<1>4. run' = [s EXCEPT ![r] = y] BY <1>1 DEF y, s
<1>5. run'[r] = y /\ \A x \in Runs \ {r} : run'[x] = s[x] BY <1>4, <1>1
<1>6. run' = [x \in Runs |-> run'[x]] BY <1>4, <1>1
<1>7. \A x \in Runs : run'[x].pc # "idle" => IsRun(run'[x]) BY <1>1, <1>3, <1>5
<1> QED BY <1>1, <1>3, <1>5, <1>6, <1>7 DEF Moves, Stales, RunsOK

\* And the script.
LEMMA StaledStays ==
  ASSUME RunsOK, NEW r \in Runs, run' = Staled(r)
  PROVE  Moves(r, run[r].pc) /\ Stales(r)
<1> DEFINE s == Staled(r)
<1>1. /\ s = [x \in Runs |-> s[x]] /\ s[r] = run[r]
      /\ \A x \in Runs \ {r} : /\ s[x].pc = run[x].pc /\ s[x].ops = run[x].ops
                               /\ (run[x].pc # "idle" => IsRun(s[x]) /\ ~s[x].calm)
                               /\ (s[x].calm => run[x].calm)
  BY StaledRuns
<1> HIDE DEF s
<1>2. run' = s BY DEF s
<1>3. \A x \in Runs : run'[x].pc # "idle" => IsRun(run'[x]) BY <1>1, <1>2 DEF RunsOK
<1>4. RunsOK' BY <1>1, <1>2, <1>3 DEF RunsOK
<1> QED BY <1>1, <1>2, <1>4 DEF Moves, Stales

-----------------------------------------------------------------------------
(* A step of the command that made the quarantine *)

\* What the quarantine's command does keeps the invariant when it stays on the trail.
LEMMA OwnerStep ==
  ASSUME IInv, NEW r \in Runs, run[r].pc \in Active, NEW pc \in Active \cup {"dead", "stopped"},
         Moves(r, pc), UNCHANGED script,
         IsReady(q'), SameQ(q, q'), q'.calm = q.calm, AtWork(pc, q') \/ pc \in {"dead", "stopped"},
         DiskOK', disk' = disk \/ Stales(r), Holds(q') => Holds(q) \/ Stales(r),
         q.calm /\ Apart(q.steps) /\ q'.mark # "committed" =>
           \E k \in 0..Len(q.steps) : \E past : Trail(disk', q', past, k) /\ Where(k, pc, q')
  PROVE  IInv'
<1>0. q.at = "ready" /\ q.owner = r /\ AtWork(run[r].pc, q) BY DEF IInv, Owned
<1>1. q'.at = "ready" /\ q'.owner = r /\ q'.steps = q.steps BY <1>0 DEF SameQ, IsQ
<1>2. run'[r].pc = pc /\ RunsOK' BY DEF Moves
<1>3. QOK' BY DEF QOK
<1>4. script.on = FALSE
  <2>1. ASSUME script.on PROVE FALSE
    <3>1. run[r].pc \in {"dead", "stopped"} BY <1>0, <2>1 DEF IInv, ScriptOK
    <3> QED BY <3>1 DEF Active
  <2> QED BY <2>1 DEF IInv, ScriptOK
<1>5. ScriptOK' BY <1>4 DEF ScriptOK
<1>6. pc \notin {"idle", "planned", "claimed"} BY DEF Active
<1>7. \A x \in Runs \ {r} : run[x].pc \notin Active \cup {"claimed"} /\ run'[x].pc = run[x].pc
  <2> SUFFICES ASSUME NEW x \in Runs \ {r} PROVE run[x].pc \notin Active \cup {"claimed"} /\ run'[x].pc = run[x].pc
    OBVIOUS
  <2>1. run[x].pc \notin Active BY <1>0 DEF IInv, Owned
  <2>2. run[x].pc # "claimed" BY <1>0 DEF IInv, Owned
  <2> QED BY <2>1, <2>2 DEF Moves
<1>8. Owned'
  <2>1. \A x \in Runs : run'[x].pc # "claimed" BY <1>2, <1>6, <1>7
  <2>2. ASSUME NEW x \in Runs, run'[x].pc \in Active
        PROVE  q'.at = "ready" /\ q'.owner = x /\ AtWork(run'[x].pc, q')
    <3>1. x = r BY <1>7, <2>2
    <3>2. pc \notin {"dead", "stopped"} BY <3>1, <1>2, <2>2 DEF Active
    <3> QED BY <3>1, <3>2, <1>1, <1>2
  <2> QED BY <2>1, <2>2, <1>1, <1>2 DEF Owned, Active
<1>9. Planning'
  <2> SUFFICES ASSUME NEW x \in Runs, run'[x].pc \in Planners
               PROVE  run'[x].ops \in Seq(Ops) /\ (run'[x].calm => run'[x].ops = Planned(disk'))
    BY DEF Planning
  <2>1. x # r /\ run'[x].pc # "idle" BY <1>2, <1>6 DEF Planners
  <2>2. run[x].pc \in Planners /\ run'[x].ops = run[x].ops /\ (run'[x].calm => run[x].calm)
    BY <2>1 DEF Moves
  <2>3. run[x].ops \in Seq(Ops) /\ (run[x].calm => run[x].ops = Planned(disk)) BY <2>2 DEF IInv, Planning
  <2>4. run'[x].calm => disk' = disk BY <2>1 DEF Stales
  <2> QED BY <2>2, <2>3, <2>4
<1>10. Quiet'
  <2> SUFFICES ASSUME Holds(q'), NEW x \in Runs, x # r, run'[x].pc \in Planners, run'[x].calm
               PROVE  FALSE
    BY <1>1 DEF Quiet
  <2>1. run'[x].pc # "idle" BY DEF Planners
  <2>2. ~Stales(r) BY <2>1 DEF Stales
  <2>3. run[x].pc \in Planners /\ run[x].calm BY DEF Moves
  <2> QED BY <2>2, <2>3, <1>0 DEF IInv, Quiet
<1>11. Trailed'
  <2>1. q.calm => Apart(q.steps) BY <1>0 DEF IInv, Trailed
  <2> SUFFICES ASSUME q'.calm PROVE
        /\ Apart(q'.steps)
        /\ q'.mark # "committed" =>
            \E k \in 0..Len(q'.steps) : \E past :
              Trail(disk', q', past, k) /\ Where(k, run'[q'.owner].pc, q') /\ (script'.on => k <= script'.at)
    BY DEF Trailed
  <2> QED BY <2>1, <1>1, <1>2, <1>4
<1> QED BY <1>2, <1>3, <1>5, <1>8, <1>9, <1>10, <1>11 DEF IInv

\* How much of the plan is logged, and how much of that is taken back, are numbers in range.
LEMMA ReadyNumbers ==
  ASSUME NEW x, IsReady(x)
  PROVE  /\ Len(x.steps) \in Nat /\ x.done \in Nat /\ x.done <= Len(x.steps)
         /\ Todo(x) \in Nat /\ Todo(x) <= x.done /\ x.undone = (Todo(x) + 1)..x.done
<1>1. /\ Len(x.steps) \in Nat /\ x.done \in 0..Len(x.steps)
      /\ Todo(x) \in 0..x.done /\ x.undone = (Todo(x) + 1)..x.done
  BY DEF IsReady
<1> QED BY <1>1

\* A command that has logged all it did is where the log says.
LEMMA PlaceOfStep == \A n \in Nat : Place(n, "step", n, n, "")
BY DEF Place

\* So is one that takes back.
LEMMA PlaceOfUndo == \A t, n \in Nat : Place(t, "undo", t, n, "")
BY DEF Place

\* One step taken back and not logged: one less than the log says.
LEMMA PlaceOfUndid == \A t, n \in Nat : t > 0 => Place(t - 1, "undid", t, n, "")
BY DEF Place

\* What the invariant says when a command is at work.
LEMMA OwnerFacts ==
  ASSUME IInv, NEW r \in Runs, run[r].pc \in Active
  PROVE  /\ q.at = "ready" /\ q.owner = r /\ AtWork(run[r].pc, q) /\ IsReady(q) /\ SameQ(q, q)
         /\ DiskOK /\ RunsOK /\ run[r].pc # "idle"
         /\ q.calm => Apart(q.steps)
         /\ q.calm /\ q.mark # "committed" =>
              \E k \in 0..Len(q.steps) : \E past : Trail(disk, q, past, k) /\ Where(k, run[r].pc, q)
<1>1. q.at = "ready" /\ q.owner = r /\ AtWork(run[r].pc, q) BY DEF IInv, Owned
<1>2. IsReady(q) BY <1>1 DEF IInv, QOK, NoQ
<1>3. SameQ(q, q) BY <1>2 DEF SameQ, IsReady
<1> QED BY <1>1, <1>2, <1>3 DEF IInv, Trailed, Active

\* A stage that changes only the command's place keeps the invariant.
LEMMA OnlyPc ==
  ASSUME IInv, NEW r \in Runs, run[r].pc \in Active, NEW pc \in Active \cup {"dead", "stopped"},
         Go(r, pc), UNCHANGED <<disk, q, script>>,
         AtWork(pc, q) \/ pc \in {"dead", "stopped"},
         \A k \in Nat : Where(k, run[r].pc, q) => Where(k, pc, q)
  PROVE  IInv'
<1>1. /\ q.at = "ready" /\ q.owner = r /\ AtWork(run[r].pc, q) /\ IsReady(q) /\ SameQ(q, q)
      /\ DiskOK /\ RunsOK /\ run[r].pc # "idle"
      /\ q.calm /\ q.mark # "committed" =>
           \E k \in 0..Len(q.steps) : \E past : Trail(disk, q, past, k) /\ Where(k, run[r].pc, q)
  BY OwnerFacts
<1>2. Moves(r, pc) BY <1>1, GoMoves
<1>3. q' = q /\ disk' = disk /\ UNCHANGED script OBVIOUS
<1>4. IsReady(q') /\ SameQ(q, q') /\ q'.calm = q.calm /\ (AtWork(pc, q') \/ pc \in {"dead", "stopped"})
  BY <1>1, <1>3
<1>5. DiskOK' BY <1>1 DEF DiskOK
<1>6. Holds(q') => Holds(q) \/ Stales(r) BY <1>3
<1>7. q.calm /\ Apart(q.steps) /\ q'.mark # "committed" =>
           \E k \in 0..Len(q.steps) : \E past : Trail(disk', q', past, k) /\ Where(k, pc, q')
  <2> SUFFICES ASSUME q.calm, q.mark # "committed"
               PROVE  \E k \in 0..Len(q.steps) : \E past : Trail(disk, q, past, k) /\ Where(k, pc, q)
    BY <1>3
  <2>1. PICK k \in 0..Len(q.steps) : \E past : Trail(disk, q, past, k) /\ Where(k, run[r].pc, q) BY <1>1
  <2>2. k \in Nat BY <1>1 DEF IsReady
  <2> QED BY <2>1, <2>2
<1> QED BY <1>2, <1>3, <1>4, <1>5, <1>6, <1>7, OwnerStep

\* The checks before a rename into the quarantine change nothing.
LEMMA LookKeeps ==
  ASSUME IInv, NEW r \in Runs, Look(r)
  PROVE  IInv'
<1>1. run[r].pc = "step" /\ q.done < Len(q.steps) /\ UNCHANGED <<disk, q, script>> BY DEF Look, Working
<1>2. run[r].pc \in Active BY <1>1 DEF Active
<1>3. PICK pc \in {"looked", "undo"} : Go(r, pc) BY DEF Look
<1>4. AtWork("step", q) BY <1>1, <1>2, OwnerFacts
<1>5. AtWork(pc, q) BY <1>1, <1>4 DEF AtWork, Forward
<1>6. \A k \in Nat : Where(k, run[r].pc, q) => Where(k, pc, q) BY <1>1, <1>4 DEF Where, Place, AtWork, Forward
<1>7. pc \in Active \cup {"dead", "stopped"} BY DEF Active
<1> QED BY <1>1, <1>2, <1>3, <1>5, <1>6, <1>7, OnlyPc

\* Nor does the look at the disk before the purge.
LEMMA VerifyKeeps ==
  ASSUME IInv, NEW r \in Runs, Verify(r)
  PROVE  IInv'
<1>1. run[r].pc = "step" /\ UNCHANGED <<disk, q, script>> BY DEF Verify, Working
<1>2. run[r].pc \in Active BY <1>1 DEF Active
<1>3. PICK pc \in {"dead", "verified", "undo"} : Go(r, pc) BY DEF Verify
<1>4. AtWork("step", q) BY <1>1, <1>2, OwnerFacts
<1>5. AtWork(pc, q) \/ pc \in {"dead", "stopped"} BY <1>1, <1>4 DEF AtWork, Forward
<1>6. \A k \in Nat : Where(k, run[r].pc, q) => Where(k, pc, q) BY <1>1, <1>4 DEF Where, Place, AtWork, Forward
<1>7. pc \in Active \cup {"dead", "stopped"} BY DEF Active
<1> QED BY <1>1, <1>2, <1>3, <1>5, <1>6, <1>7, OnlyPc

\* Nor, as far as the disk goes, git rm --cached.
LEMMA UntrackKeeps ==
  ASSUME IInv, NEW r \in Runs, Untrack(r)
  PROVE  IInv'
<1>1. run[r].pc = "verified" /\ UNCHANGED <<disk, q, script>> BY DEF Untrack, Working
<1>2. run[r].pc \in Active BY <1>1 DEF Active
<1>3. PICK pc \in {"untracked", "undo"} : Go(r, pc) BY DEF Untrack
<1>4. AtWork("verified", q) BY <1>1, <1>2, OwnerFacts
<1>5. AtWork(pc, q) BY <1>1, <1>4 DEF AtWork, Forward
<1>6. \A k \in Nat : Where(k, run[r].pc, q) => Where(k, pc, q) BY <1>1, <1>4 DEF Where, Place, AtWork, Forward
<1>7. pc \in Active \cup {"dead", "stopped"} BY DEF Active
<1> QED BY <1>1, <1>2, <1>3, <1>5, <1>6, <1>7, OnlyPc

\* A command that dies or gives up leaves the trail as it is.
LEMMA GiveUp ==
  ASSUME IInv, NEW r \in Runs, run[r].pc \in Active, NEW pc \in {"dead", "stopped"},
         Go(r, pc), UNCHANGED <<disk, q, script>>
  PROVE  IInv'
<1>1. \A k \in Nat : Where(k, run[r].pc, q) => Where(k, pc, q) BY DEF Where, Place
<1> QED BY <1>1, OnlyPc

\* A step leads one on: it is parked, moved, made, and not logged.
LEMMA StepKeeps ==
  ASSUME IInv, NEW r \in Runs, Step(r)
  PROVE  IInv'
<1>1. run[r].pc \in {"step", "looked"} /\ UNCHANGED script BY DEF Step, Working
<1>2. run[r].pc \in Active BY <1>1 DEF Active
<1>3. /\ q.at = "ready" /\ q.owner = r /\ AtWork(run[r].pc, q) /\ IsReady(q)
      /\ DiskOK /\ RunsOK /\ run[r].pc # "idle"
      /\ q.calm => Apart(q.steps)
      /\ q.calm /\ q.mark # "committed" =>
           \E k \in 0..Len(q.steps) : \E past : Trail(disk, q, past, k) /\ Where(k, run[r].pc, q)
  BY <1>2, OwnerFacts
<1>4. q.done < Len(q.steps) BY <1>1, <1>3 DEF Step, Working, AtWork
<1>5. q.mark = "" /\ Todo(q) = q.done BY <1>1, <1>3 DEF AtWork, Forward
<1> DEFINE st == q.steps[q.done + 1]
<1>6. /\ Len(q.steps) \in Nat /\ q.done \in Nat /\ q.done + 1 \in 1..Len(q.steps) /\ IsStep(st)
      /\ q.items = [i \in 1..Len(q.steps) |-> q.items[i]] /\ \A i \in 1..Len(q.steps) : IsStep(q.steps[i])
  BY <1>3, <1>4 DEF IsReady
<1>7. CASE Fits(disk, st)
  <2>1. /\ disk' = Done(disk, st)
        /\ q' = [q EXCEPT !.items[q.done + 1] = Parked(disk, st)]
        /\ run' = [Staled(r) EXCEPT ![r].pc = "ran"]
    BY <1>7 DEF Step, Due
  <2>2. Moves(r, "ran") /\ Stales(r) BY <2>1, <1>3, StaledMoves
  <2>3. /\ SameQ(q, q') /\ q'.items = [q.items EXCEPT ![q.done + 1] = Parked(disk, st)]
        /\ q'.done = q.done /\ q'.undone = q.undone /\ q'.mark = q.mark /\ q'.calm = q.calm
    <3> DEFINE i == q.done + 1  v == Parked(disk, st)
    <3>1. q' = [q EXCEPT !.items[i] = v] BY <2>1
    <3>2. IsQ(q) BY <1>3 DEF IsReady
    <3> HIDE DEF i, v
    <3>3. /\ SameQ(q, q') /\ q'.items = [q.items EXCEPT ![i] = v]
          /\ q'.done = q.done /\ q'.undone = q.undone /\ q'.mark = q.mark /\ q'.calm = q.calm
      BY <3>1, <3>2, QEdited
    <3> QED BY <3>3 DEF i, v
  <2>4. Todo(q') = Todo(q) BY <2>3 DEF Todo
  <2>5. q'.steps = q.steps /\ q'.owner = q.owner /\ q'.was = q.was /\ IsQ(q') BY <2>3 DEF SameQ
  <2>6. q'.items = [i \in 1..Len(q'.steps) |-> q'.items[i]] BY <2>3, <2>5, <1>6
  <2>7. IsReady(q') BY <2>3, <2>4, <2>5, <2>6, <1>3 DEF IsReady
  <2>8. AtWork("ran", q') BY <2>3, <2>4, <2>5, <1>4, <1>5 DEF AtWork
  <2>9. DiskOK' BY <2>1, <1>3, <1>6, <1>7, DoneDisk DEF DiskOK
  <2>10. q.calm /\ Apart(q.steps) /\ q'.mark # "committed" =>
           \E k \in 0..Len(q.steps) : \E past : Trail(disk', q', past, k) /\ Where(k, "ran", q')
    <3> SUFFICES ASSUME q.calm, Apart(q.steps)
                 PROVE  \E k \in 0..Len(q.steps) : \E past : Trail(disk', q', past, k) /\ Where(k, "ran", q')
      OBVIOUS
    <3>1. PICK k \in 0..Len(q.steps) : \E past : Trail(disk, q, past, k) /\ Where(k, run[r].pc, q)
      BY <1>3, <1>5
    <3>2. k = q.done BY <3>1, <1>1 DEF Where, Place
    <3>3. PICK past : Trail(disk, q, past, k) BY <3>1
    <3>4. IsDisk(disk) /\ Rooted(disk) BY <1>3 DEF DiskOK
    <3>5. \E new : Trail(Done(disk, q.steps[k+1]), q', new, k + 1)
      BY <3>2, <3>3, <3>4, <1>4, <1>6, <1>7, <2>3, <2>5, TrailForward
    <3>6. k + 1 \in 0..Len(q.steps) BY <3>2, <1>6
    <3>7. Where(k + 1, "ran", q') BY <3>2, <2>3, <2>4, <1>5 DEF Where, Place
    <3> QED BY <3>2, <3>5, <3>6, <3>7, <2>1
  <2>11. "ran" \in Active BY DEF Active
  <2> QED BY <1>1, <1>2, <2>2, <2>3, <2>7, <2>8, <2>9, <2>10, <2>11, OwnerStep
<1>8. CASE ~Fits(disk, st)
  <2>1. Go(r, "undo") /\ UNCHANGED <<disk, q>> BY <1>8 DEF Step, Due
  <2>2. AtWork("undo", q) BY <1>5 DEF AtWork, Forward
  <2>3. \A k \in Nat : Where(k, run[r].pc, q) => Where(k, "undo", q) BY <1>1, <1>5 DEF Where, Place
  <2>4. "undo" \in Active BY DEF Active
  <2> QED BY <1>1, <1>2, <2>1, <2>2, <2>3, <2>4, OnlyPc
<1> QED BY <1>7, <1>8

\* The line of the log says so.
LEMMA LogKeeps ==
  ASSUME IInv, NEW r \in Runs, Log(r)
  PROVE  IInv'
<1>1. run[r].pc = "ran" /\ UNCHANGED <<disk, script>> /\ Go(r, "step") /\ q' = [q EXCEPT !.done = @ + 1]
  BY DEF Log, Working
<1>2. run[r].pc \in Active /\ "step" \in Active BY <1>1 DEF Active
<1>3. /\ q.at = "ready" /\ q.owner = r /\ AtWork("ran", q) /\ IsReady(q)
      /\ DiskOK /\ RunsOK /\ run[r].pc # "idle"
      /\ q.calm /\ q.mark # "committed" =>
           \E k \in 0..Len(q.steps) : \E past : Trail(disk, q, past, k) /\ Where(k, "ran", q)
  BY <1>1, <1>2, OwnerFacts
<1>4. q.done < Len(q.steps) /\ q.mark = "" /\ Todo(q) = q.done BY <1>3 DEF AtWork, Forward
<1>5. Len(q.steps) \in Nat /\ q.done \in Nat /\ q.done + 1 \in 0..Len(q.steps)
  <2> DEFINE m == q.done  n == Len(q.steps)
  <2>1. m \in Nat /\ n \in Nat BY <1>3, ReadyNumbers
  <2>2. m < n BY <1>4
  <2> HIDE DEF m, n
  <2>3. m + 1 \in 0..n BY <2>1, <2>2
  <2> QED BY <2>1, <2>3 DEF m, n
<1>6. /\ SameQ(q, q') /\ q'.items = q.items
      /\ q'.done = q.done + 1 /\ q'.undone = q.undone /\ q'.mark = q.mark /\ q'.calm = q.calm
  <2> DEFINE v == q.done + 1
  <2>1. q' = [q EXCEPT !.done = v] BY <1>1
  <2>2. IsQ(q) BY <1>3 DEF IsReady
  <2> HIDE DEF v
  <2>3. /\ SameQ(q, q') /\ q'.items = q.items
        /\ q'.done = v /\ q'.undone = q.undone /\ q'.mark = q.mark /\ q'.calm = q.calm
    BY <2>1, <2>2, QEdited
  <2> QED BY <2>3 DEF v
<1>7. q.undone = {}
  <2>1. q.undone = (q.done + 1)..q.done BY <1>3, <1>4, ReadyNumbers
  <2> QED BY <2>1, <1>5
<1>8. Todo(q') = q'.done /\ q'.undone = (Todo(q') + 1)..q'.done
  <2>1. Cardinality({}) = 0 BY FS_EmptySet
  <2>2. Todo(q') = q.done + 1 BY <2>1, <1>5, <1>6, <1>7 DEF Todo
  <2> QED BY <2>2, <1>5, <1>6, <1>7
<1>9. q'.steps = q.steps /\ q'.owner = q.owner /\ q'.was = q.was /\ IsQ(q') BY <1>6 DEF SameQ
<1>10. IsReady(q')
  <2>1. q'.items = [i \in 1..Len(q'.steps) |-> q'.items[i]] BY <1>3, <1>6, <1>9 DEF IsReady
  <2>2. q'.done \in 0..Len(q'.steps) /\ Todo(q') \in 0..q'.done BY <1>5, <1>6, <1>8, <1>9
  <2> QED BY <2>1, <2>2, <1>3, <1>6, <1>8, <1>9 DEF IsReady
<1>11. AtWork("step", q') BY <1>6, <1>8, <1>4 DEF AtWork
<1>12. Moves(r, "step") BY <1>1, <1>3, GoMoves
<1>13. DiskOK' BY <1>1, <1>3 DEF DiskOK
<1>14. Holds(q') => Holds(q) BY <1>6, <1>9 DEF Holds
<1>15. q.calm /\ Apart(q.steps) /\ q'.mark # "committed" =>
           \E k \in 0..Len(q.steps) : \E past : Trail(disk', q', past, k) /\ Where(k, "step", q')
  <2> SUFFICES ASSUME q.calm
               PROVE  \E k \in 0..Len(q.steps) : \E past : Trail(disk', q', past, k) /\ Where(k, "step", q')
    OBVIOUS
  <2>1. PICK k \in 0..Len(q.steps) : \E past : Trail(disk, q, past, k) /\ Where(k, "ran", q)
    BY <1>3, <1>4
  <2>2. PICK past : Trail(disk, q, past, k) BY <2>1
  <2>3. Trail(disk', q', past, k) BY <2>2, <1>1, <1>6, <1>9, TrailSame
  <2>4. Where(k, "step", q')
    <3>1. k = q.done + 1 BY <2>1 DEF Where, Place
    <3>2. q'.done = k /\ Todo(q') = k /\ q'.mark = "" BY <3>1, <1>4, <1>6, <1>8
    <3>3. k \in Nat BY <3>1, <1>5
    <3>4. Place(k, "step", k, k, "") BY <3>3, PlaceOfStep
    <3> QED BY <3>2, <3>4 DEF Where
  <2> QED BY <2>3, <2>4
<1> QED BY <1>1, <1>2, <1>6, <1>10, <1>11, <1>12, <1>13, <1>14, <1>15, OwnerStep

\* The last line of the log: committed, or rolled back with nothing left to take back.
LEMMA CommitKeeps ==
  ASSUME IInv, NEW r \in Runs, Commit(r) \/ RolledBack(r)
  PROVE  IInv'
<1>1. PICK m \in {"committed", "rolled-back"} :
        /\ run[r].pc \in {"untracked", "undo"} /\ UNCHANGED <<disk, script>> /\ Go(r, "clean")
        /\ q' = [q EXCEPT !.mark = m]
        /\ m = "rolled-back" => run[r].pc = "undo" /\ Todo(q) = 0
  BY DEF Commit, RolledBack, Working, ToUndo, Todo
<1>2. run[r].pc \in Active /\ "clean" \in Active BY <1>1 DEF Active
<1>3. /\ q.at = "ready" /\ q.owner = r /\ AtWork(run[r].pc, q) /\ IsReady(q)
      /\ DiskOK /\ RunsOK /\ run[r].pc # "idle"
      /\ q.calm /\ q.mark # "committed" =>
           \E k \in 0..Len(q.steps) : \E past : Trail(disk, q, past, k) /\ Where(k, run[r].pc, q)
  BY <1>1, <1>2, OwnerFacts
<1>4. q.mark = "" BY <1>1, <1>3 DEF AtWork
<1>5. /\ SameQ(q, q') /\ q'.items = q.items
      /\ q'.done = q.done /\ q'.undone = q.undone /\ q'.mark = m /\ q'.calm = q.calm
  <2>1. IsQ(q) BY <1>3 DEF IsReady
  <2> QED BY <2>1, <1>1, QEdited
<1>6. q'.steps = q.steps /\ q'.owner = q.owner /\ q'.was = q.was /\ IsQ(q') /\ Todo(q') = Todo(q)
  BY <1>5 DEF SameQ, Todo
<1>7. IsReady(q')
  <2>1. IsMark(q'.mark) BY <1>5 DEF IsMark
  <2> QED BY <1>3, <1>5, <1>6, <2>1 DEF IsReady
<1>8. AtWork("clean", q') BY <1>5, <1>1 DEF AtWork, Forward
<1>9. Moves(r, "clean") BY <1>1, <1>3, GoMoves
<1>10. DiskOK' BY <1>1, <1>3 DEF DiskOK
<1>11. Holds(q') => Holds(q) BY <1>5, <1>6 DEF Holds
<1>12. q.calm /\ Apart(q.steps) /\ q'.mark # "committed" =>
           \E k \in 0..Len(q.steps) : \E past : Trail(disk', q', past, k) /\ Where(k, "clean", q')
  <2> SUFFICES ASSUME q.calm, m = "rolled-back"
               PROVE  \E k \in 0..Len(q.steps) : \E past : Trail(disk', q', past, k) /\ Where(k, "clean", q')
    BY <1>5
  <2>1. PICK k \in 0..Len(q.steps) : \E past : Trail(disk, q, past, k) /\ Where(k, "undo", q)
    BY <1>1, <1>3, <1>4
  <2>2. PICK past : Trail(disk, q, past, k) BY <2>1
  <2>3. Trail(disk', q', past, k) BY <2>2, <1>1, <1>5, <1>6, TrailSame
  <2>4. k = 0 BY <2>1, <1>1 DEF Where, Place
  <2>5. Where(k, "clean", q') BY <2>4, <1>1, <1>6 DEF Where, Place
  <2> QED BY <2>3, <2>5
<1> QED BY <1>1, <1>2, <1>5, <1>7, <1>8, <1>9, <1>10, <1>11, <1>12, OwnerStep

\* rollback takes back the last logged step.
LEMMA UndoKeeps ==
  ASSUME IInv, NEW r \in Runs, Undo(r)
  PROVE  IInv'
<1>1. run[r].pc = "undo" /\ UNCHANGED script /\ Todo(q) > 0 BY DEF Undo, Working, ToUndo, Todo
<1>2. run[r].pc \in Active /\ "undid" \in Active BY <1>1 DEF Active
<1>3. /\ q.at = "ready" /\ q.owner = r /\ AtWork("undo", q) /\ IsReady(q)
      /\ DiskOK /\ RunsOK /\ run[r].pc # "idle"
      /\ q.calm /\ q.mark # "committed" =>
           \E k \in 0..Len(q.steps) : \E past : Trail(disk, q, past, k) /\ Where(k, "undo", q)
  BY <1>1, <1>2, OwnerFacts
<1>4. q.mark = "" BY <1>3 DEF AtWork
<1> DEFINE t == Todo(q)  st == q.steps[t]  item == q.items[t]
<1>5. t = ToUndo BY DEF Todo, ToUndo
<1>6. /\ Len(q.steps) \in Nat /\ t \in 1..Len(q.steps) /\ IsStep(st)
      /\ q.items = [i \in 1..Len(q.steps) |-> q.items[i]] /\ \A i \in 1..Len(q.steps) : IsStep(q.steps[i])
  BY <1>1, <1>3 DEF IsReady
<1> HIDE DEF t
<1>7. CASE CanUndo(disk, st, item)
  <2>1. /\ disk' = Undone(disk, st, item)
        /\ q' = [q EXCEPT !.items[t] = None]
        /\ run' = [Staled(r) EXCEPT ![r].pc = "undid"]
    BY <1>7, <1>5 DEF Undo
  <2>2. Moves(r, "undid") /\ Stales(r) BY <2>1, <1>3, StaledMoves
  <2>3. /\ SameQ(q, q') /\ q'.items = [q.items EXCEPT ![t] = None]
        /\ q'.done = q.done /\ q'.undone = q.undone /\ q'.mark = q.mark /\ q'.calm = q.calm
    <3>1. IsQ(q) BY <1>3 DEF IsReady
    <3> QED BY <2>1, <3>1, QEdited
  <2>4. q'.steps = q.steps /\ q'.owner = q.owner /\ q'.was = q.was /\ IsQ(q') /\ Todo(q') = t
    BY <2>3 DEF SameQ, Todo, t
  <2>5. q'.items = [i \in 1..Len(q'.steps) |-> q'.items[i]] BY <2>3, <2>4, <1>6
  <2>6. IsReady(q') BY <2>3, <2>4, <2>5, <1>3 DEF IsReady, t
  <2>7. AtWork("undid", q') BY <2>3, <2>4, <1>1, <1>4 DEF AtWork, Forward, t
  <2>8. DiskOK' BY <2>1, <1>3, <1>6, <1>7, UndoneDisk DEF DiskOK
  <2>9. q.calm /\ Apart(q.steps) /\ q'.mark # "committed" =>
           \E k \in 0..Len(q.steps) : \E past : Trail(disk', q', past, k) /\ Where(k, "undid", q')
    <3> SUFFICES ASSUME q.calm
                 PROVE  \E k \in 0..Len(q.steps) : \E past : Trail(disk', q', past, k) /\ Where(k, "undid", q')
      OBVIOUS
    <3>1. PICK k \in 0..Len(q.steps) : \E past : Trail(disk, q, past, k) /\ Where(k, "undo", q)
      BY <1>3, <1>4
    <3>2. k = t BY <3>1 DEF Where, Place, t
    <3>3. PICK past : Trail(disk, q, past, k) BY <3>1
    <3>4. Trail(Undone(disk, st, item), q', past, t - 1)
      BY <3>2, <3>3, <1>6, <2>3, <2>4, TrailBack
    <3>5. t - 1 \in 0..Len(q.steps) BY <1>6
    <3>6. Where(t - 1, "undid", q')
      <4> DEFINE n == q'.done
      <4>1. n \in Nat BY <2>6, ReadyNumbers
      <4>2. Todo(q') = t /\ q'.mark = "" BY <2>3, <2>4, <1>4
      <4>3. t \in Nat /\ t > 0 BY <1>6
      <4> HIDE DEF n
      <4>4. PICK m \in Nat : m = n BY <4>1
      <4>5. Place(t - 1, "undid", t, m, "") BY <4>3, <4>4, PlaceOfUndid
      <4> QED BY <4>2, <4>4, <4>5 DEF Where, n
    <3> QED BY <3>4, <3>5, <3>6, <2>1
  <2> QED BY <1>1, <1>2, <2>2, <2>3, <2>6, <2>7, <2>8, <2>9, OwnerStep
<1>8. CASE ~CanUndo(disk, st, item)
  <2>1. Go(r, "stopped") /\ UNCHANGED <<disk, q>> BY <1>8, <1>5 DEF Undo
  <2> QED BY <1>1, <1>2, <2>1, GiveUp
<1> QED BY <1>7, <1>8

\* And the line of the log says so.
LEMMA LogUndoKeeps ==
  ASSUME IInv, NEW r \in Runs, LogUndo(r)
  PROVE  IInv'
<1> DEFINE t == Todo(q)
<1>1. run[r].pc = "undid" /\ UNCHANGED <<disk, script>> /\ Go(r, "undo") /\ q' = [q EXCEPT !.undone = @ \cup {t}]
  BY DEF LogUndo, Working, ToUndo, Todo
<1>2. run[r].pc \in Active /\ "undo" \in Active BY <1>1 DEF Active
<1>3. /\ q.at = "ready" /\ q.owner = r /\ AtWork("undid", q) /\ IsReady(q)
      /\ DiskOK /\ RunsOK /\ run[r].pc # "idle"
      /\ q.calm /\ q.mark # "committed" =>
           \E k \in 0..Len(q.steps) : \E past : Trail(disk, q, past, k) /\ Where(k, "undid", q)
  BY <1>1, <1>2, OwnerFacts
<1>4. t > 0 /\ q.mark = "" BY <1>3 DEF AtWork
<1>5. q.done \in Nat /\ t \in 1..q.done /\ q.undone = (t + 1)..q.done
  <2> DEFINE m == q.done
  <2>1. m \in Nat /\ t \in Nat /\ t <= m /\ q.undone = (t + 1)..m BY <1>3, ReadyNumbers
  <2>2. t > 0 BY <1>4
  <2> HIDE DEF m, t
  <2>3. t \in 1..m BY <2>1, <2>2
  <2> QED BY <2>1, <2>3 DEF m
<1> HIDE DEF t
<1>6. /\ SameQ(q, q') /\ q'.items = q.items
      /\ q'.done = q.done /\ q'.undone = q.undone \cup {t} /\ q'.mark = q.mark /\ q'.calm = q.calm
  <2> DEFINE v == q.undone \cup {t}
  <2>1. q' = [q EXCEPT !.undone = v] BY <1>1
  <2>2. IsQ(q) BY <1>3 DEF IsReady
  <2> HIDE DEF v
  <2>3. /\ SameQ(q, q') /\ q'.items = q.items
        /\ q'.done = q.done /\ q'.undone = v /\ q'.mark = q.mark /\ q'.calm = q.calm
    BY <2>1, <2>2, QEdited
  <2> QED BY <2>3 DEF v
<1>7. q'.undone = t..q'.done /\ Todo(q') = t - 1
  <2>1. q'.undone = t..q.done BY <1>5, <1>6
  <2>2. Cardinality(t..q.done) = q.done - t + 1 BY <1>5, FS_Interval
  <2> QED BY <2>1, <2>2, <1>5, <1>6 DEF Todo
<1>8. q'.steps = q.steps /\ q'.owner = q.owner /\ q'.was = q.was /\ IsQ(q') BY <1>6 DEF SameQ
<1>9. IsReady(q')
  <2>1. q'.items = [i \in 1..Len(q'.steps) |-> q'.items[i]] BY <1>3, <1>6, <1>8 DEF IsReady
  <2>2. Todo(q') \in 0..q'.done /\ q'.undone = (Todo(q') + 1)..q'.done BY <1>5, <1>6, <1>7
  <2> QED BY <2>1, <2>2, <1>3, <1>6, <1>8 DEF IsReady
<1>10. AtWork("undo", q') BY <1>4, <1>6 DEF AtWork, Forward
<1>11. Moves(r, "undo") BY <1>1, <1>3, GoMoves
<1>12. DiskOK' BY <1>1, <1>3 DEF DiskOK
<1>13. Holds(q') => Holds(q) BY <1>6, <1>8 DEF Holds
<1>14. q.calm /\ Apart(q.steps) /\ q'.mark # "committed" =>
           \E k \in 0..Len(q.steps) : \E past : Trail(disk', q', past, k) /\ Where(k, "undo", q')
  <2> SUFFICES ASSUME q.calm
               PROVE  \E k \in 0..Len(q.steps) : \E past : Trail(disk', q', past, k) /\ Where(k, "undo", q')
    OBVIOUS
  <2>1. PICK k \in 0..Len(q.steps) : \E past : Trail(disk, q, past, k) /\ Where(k, "undid", q)
    BY <1>3, <1>4
  <2>2. PICK past : Trail(disk, q, past, k) BY <2>1
  <2>3. Trail(disk', q', past, k) BY <2>2, <1>1, <1>6, <1>8, TrailSame
  <2>4. k = t - 1 BY <2>1 DEF Where, Place, t
  <2>5. Where(k, "undo", q')
    <3> DEFINE n == q'.done
    <3>1. Todo(q') = k /\ q'.mark = "" BY <2>4, <1>4, <1>6, <1>7
    <3>2. k \in Nat /\ n \in Nat BY <2>4, <1>5, <1>6
    <3> HIDE DEF n
    <3>3. PICK m \in Nat : m = n BY <3>2
    <3>4. Place(k, "undo", k, m, "") BY <3>2, <3>3, PlaceOfUndo
    <3> QED BY <3>1, <3>3, <3>4 DEF Where, n
  <2> QED BY <2>3, <2>5
<1> QED BY <1>1, <1>2, <1>6, <1>9, <1>10, <1>11, <1>12, <1>13, <1>14, OwnerStep

-----------------------------------------------------------------------------
(* The first state *)

\* At the start every root is in its CLI's directory.
LEMMA ShapedFacts ==
  ASSUME NEW S, NEW E, NEW x \in Shaped(S, E)
  PROVE  x.self # None => x.cli = Dir
<1>1. PICK c, e, f : x = [cli |-> IF e = None THEN c ELSE Dir, self |-> e, of |-> f] BY DEF Shaped, Shapes
<1> QED BY <1>1

\* The invariant holds at the start.
LEMMA InitKeeps == Init => IInv
<1> SUFFICES ASSUME Init PROVE IInv OBVIOUS
<1>1. PICK f \in [Aliases -> UNION {Shaped(AliasNodes[a], EntryNodes[a]) : a \in Aliases}], g \in Shaped(RootNodes, RootEntries) :
       /\ \A a \in Aliases : f[a] \in Shaped(AliasNodes[a], EntryNodes[a])
       /\ disk = [s \in Slots |-> LET x == IF s[1] = Root THEN g ELSE f[s[1]] IN
                 IF s[2] \in Names THEN x.of[s[2]] ELSE x[s[2]]]
  BY DEF Init
<1>2. IsDisk(disk) BY <1>1 DEF IsDisk
<1>3. Rooted(disk)
  <2> SUFFICES ASSUME NEW a \in Aliases, disk[<<a, "self">>] # None PROVE disk[<<a, "cli">>] = Dir BY DEF Rooted
  <2>1. a # Root /\ "self" \notin Names /\ "cli" \notin Names BY RootIsApart, NamesApart
  <2>2. <<a, "self">> \in Slots /\ <<a, "cli">> \in Slots BY SlotFacts
  <2>3. disk[<<a, "self">>] = f[a].self BY <1>1, <2>1, <2>2
  <2>4. disk[<<a, "cli">>] = f[a].cli BY <1>1, <2>1, <2>2
  <2> QED BY <1>1, <2>3, <2>4, ShapedFacts
<1>4. q = NoQ /\ q.at = "none" BY DEF Init, NoQ
<1>5. run = [r \in Runs |-> run[r]] /\ \A r \in Runs : run[r].pc = "idle" BY DEF Init, Idle
<1>6. script.on = FALSE BY DEF Init, Off
<1>7. RunsOK BY <1>5 DEF RunsOK
<1>8. QOK BY <1>4 DEF QOK
<1>9. ScriptOK BY <1>6 DEF ScriptOK
<1>10. Owned BY <1>4, <1>5 DEF Owned, Active
<1>11. Planning BY <1>5 DEF Planning, Planners
<1>12. Quiet /\ Trailed BY <1>4 DEF Quiet, Trailed
<1> QED BY <1>2, <1>3, <1>7, <1>8, <1>9, <1>10, <1>11, <1>12 DEF IInv, DiskOK

-----------------------------------------------------------------------------
(* The quarantine comes and goes *)

\* With the quarantine gone, only the plans are left.
LEMMA Gone ==
  ASSUME q' = NoQ, DiskOK', RunsOK', script'.on = FALSE, Planning',
         \A x \in Runs : run'[x].pc \notin Active \cup {"claimed"}
  PROVE  IInv'
<1>1. q'.at = "none" BY DEF NoQ
<1>2. QOK' BY DEF QOK
<1>3. ScriptOK' BY DEF ScriptOK
<1>4. Owned' BY <1>1 DEF Owned
<1>5. Quiet' /\ Trailed' BY <1>1 DEF Quiet, Trailed
<1> QED BY <1>2, <1>3, <1>4, <1>5 DEF IInv

\* No script runs while a command is at work.
LEMMA NoScript ==
  ASSUME IInv, q.at # "ready" \/ run[q.owner].pc \notin {"dead", "stopped"} \/ ~script.on
  PROVE  script.on = FALSE /\ (script' = script => ScriptOK')
<1>1. script.on = FALSE BY DEF IInv, ScriptOK
<1> QED BY <1>1 DEF ScriptOK

\* Planning: no quarantine is there, so that nothing is parked.
LEMMA PlanKeeps ==
  ASSUME IInv, NEW r \in Runs, Plan(r)
  PROVE  IInv'
<1>1. q = NoQ /\ q' = NoQ /\ disk' = disk /\ script' = script /\ q.at = "none" BY DEF Plan, NoQ
<1> DEFINE ops == Planned(disk)  b == Before(disk, ops)  t == Untracked(disk, ops)
           x == [pc |-> "planned", ops |-> ops, before |-> b, tracked |-> t, calm |-> TRUE]
<1>2. run' = [run EXCEPT ![r] = x] BY DEF Plan
<1>3. DiskOK /\ Rooted(disk) /\ RunsOK BY DEF IInv, DiskOK
<1>4. ops \in Seq(Ops) BY <1>3, PlanOrdered
<1> HIDE DEF ops, b, t
<1>5. IsRun(x) /\ x.pc = "planned" /\ x.ops = ops BY DEF IsRun
<1> HIDE DEF x
<1>6. run' = [y \in Runs |-> run'[y]] /\ run'[r] = x /\ \A y \in Runs \ {r} : run'[y] = run[y]
  BY <1>2, <1>3 DEF RunsOK
<1>7. RunsOK' BY <1>3, <1>5, <1>6 DEF RunsOK
<1>8. \A y \in Runs : run[y].pc \notin Active \cup {"claimed"} BY <1>1 DEF IInv, Owned
<1>9. \A y \in Runs : run'[y].pc \notin Active \cup {"claimed"}
  <2>1. "planned" \notin Active \cup {"claimed"} BY DEF Active
  <2> QED BY <2>1, <1>5, <1>6, <1>8
<1>10. Planning'
  <2> SUFFICES ASSUME NEW y \in Runs, run'[y].pc \in Planners
               PROVE  run'[y].ops \in Seq(Ops) /\ (run'[y].calm => run'[y].ops = Planned(disk))
    BY <1>1 DEF Planning
  <2>1. CASE y = r BY <2>1, <1>4, <1>5, <1>6 DEF ops
  <2>2. CASE y # r BY <2>2, <1>6 DEF IInv, Planning
  <2> QED BY <2>1, <2>2
<1>11. DiskOK' BY <1>1, <1>3 DEF DiskOK
<1>12. script'.on = FALSE BY <1>1, NoScript
<1> QED BY <1>1, <1>7, <1>9, <1>10, <1>11, <1>12, Gone

\* Plans stay plans of the disk while it does not change.
LEMMA PlanningStays ==
  ASSUME IInv, disk' = disk, NEW r \in Runs, NEW pc, Moves(r, pc), pc \in Planners => run[r].pc \in Planners
  PROVE  Planning'
<1> SUFFICES ASSUME NEW y \in Runs, run'[y].pc \in Planners
             PROVE  run'[y].ops \in Seq(Ops) /\ (run'[y].calm => run'[y].ops = Planned(disk))
  BY DEF Planning
<1>1. run[y].pc \in Planners /\ run'[y].ops = run[y].ops /\ (run'[y].calm => run[y].calm)
  BY DEF Moves
<1> QED BY <1>1 DEF IInv, Planning

\* A command without a quarantine that ends changes nothing.
LEMMA Bystander ==
  ASSUME IInv, NEW r \in Runs, run[r].pc \notin Active \cup {"idle", "claimed", "dead", "stopped"},
         NEW pc \in {"ended", "dead"}, Moves(r, pc), UNCHANGED <<disk, q, script>>
  PROVE  IInv'
<1>1. q' = q /\ disk' = disk /\ script' = script OBVIOUS
<1>2. q.at \in {"bare", "ready"} => q.owner # r BY DEF IInv, Owned
<1>3. q.at \in {"bare", "ready"} => q.owner \in Runs
  <2>1. q = NoQ => q.at = "none" BY DEF NoQ
  <2>2. IsReady(q) => q.owner \in Runs BY DEF IsReady
  <2> QED BY <2>1, <2>2 DEF IInv, QOK
<1>4. q.at \in {"bare", "ready"} => run'[q.owner].pc = run[q.owner].pc BY <1>2, <1>3 DEF Moves
<1>5. pc \notin Active \cup Planners BY DEF Active, Planners
<1>6. Planning' BY <1>1, <1>5, PlanningStays
<1>7. DiskOK' /\ RunsOK' /\ QOK' BY <1>1 DEF IInv, Moves, DiskOK, QOK
<1>8. ScriptOK' BY <1>1, <1>4 DEF IInv, ScriptOK
<1>9. Owned'
  <2>1. ASSUME NEW x \in Runs, run'[x].pc = "claimed" PROVE q.at = "bare" /\ q.owner = x
    <3>1. x # r /\ run[x].pc = "claimed" BY <2>1, <1>5 DEF Moves, Planners
    <3> QED BY <3>1 DEF IInv, Owned
  <2>2. ASSUME NEW x \in Runs, run'[x].pc \in Active
        PROVE  q.at = "ready" /\ q.owner = x /\ AtWork(run'[x].pc, q)
    <3>1. x # r /\ run'[x].pc = run[x].pc BY <2>2, <1>5 DEF Moves
    <3> QED BY <3>1, <2>2 DEF IInv, Owned
  <2>3. q.at = "bare" => run'[q.owner].pc \in {"claimed", "dead"} BY <1>4 DEF IInv, Owned
  <2>4. q.at = "ready" => run'[q.owner].pc \in Active \cup {"dead", "stopped"} BY <1>4 DEF IInv, Owned
  <2> QED BY <2>1, <2>2, <2>3, <2>4, <1>1 DEF Owned
<1>10. Quiet'
  <2> SUFFICES ASSUME q.at = "ready", Holds(q), NEW x \in Runs, x # q.owner, run'[x].pc \in Planners, run'[x].calm
               PROVE  FALSE
    BY <1>1 DEF Quiet
  <2>1. x # r BY <1>5 DEF Moves
  <2>2. run[x].pc \in Planners /\ run[x].calm BY <2>1 DEF Moves
  <2> QED BY <2>2 DEF IInv, Quiet
<1>11. Trailed'
  <2> SUFFICES ASSUME q.at = "ready", q.calm PROVE
        /\ Apart(q.steps)
        /\ q.mark # "committed" =>
            \E k \in 0..Len(q.steps) : \E past :
              Trail(disk, q, past, k) /\ Where(k, run'[q.owner].pc, q) /\ (script.on => k <= script.at)
    BY <1>1 DEF Trailed
  <2>1. run'[q.owner].pc = run[q.owner].pc BY <1>4
  <2> QED BY <2>1 DEF IInv, Trailed
<1> QED BY <1>6, <1>7, <1>8, <1>9, <1>10, <1>11 DEF IInv

\* mkdir of the quarantine makes the command its owner, or fails.
LEMMA ClaimKeeps ==
  ASSUME IInv, NEW r \in Runs, Claim(r)
  PROVE  IInv'
<1>1. run[r].pc = "planned" /\ UNCHANGED <<disk, script>> /\ RunsOK BY DEF Claim, IInv
<1>2. CASE q = NoQ
  <2>1. q' = [at |-> "bare", owner |-> r] /\ Go(r, "claimed") BY <1>2 DEF Claim
  <2>2. q'.at = "bare" /\ q'.owner = r /\ q.at = "none" BY <2>1, <1>2 DEF NoQ
  <2>3. Moves(r, "claimed") BY <2>1, <1>1, GoMoves
  <2>4. Planning' BY <2>3, <1>1, PlanningStays DEF Planners
  <2>5. \A x \in Runs \ {r} : run'[x].pc \notin Active \cup {"claimed"}
    <3>1. \A x \in Runs : run[x].pc \notin Active \cup {"claimed"} BY <2>2 DEF IInv, Owned
    <3> QED BY <3>1, <2>3 DEF Moves
  <2>6. Owned'
    <3>1. run'[r].pc = "claimed" BY <2>3 DEF Moves
    <3>2. "claimed" \notin Active BY DEF Active
    <3> QED BY <3>1, <3>2, <2>2, <2>5 DEF Owned
  <2>7. ScriptOK' BY <2>2, <1>1, NoScript
  <2>8. Quiet' /\ Trailed' BY <2>2 DEF Quiet, Trailed
  <2>9. QOK' BY <2>1, <2>2 DEF QOK
  <2>10. DiskOK' /\ RunsOK' BY <2>3, <1>1 DEF IInv, DiskOK, Moves
  <2> QED BY <2>4, <2>6, <2>7, <2>8, <2>9, <2>10 DEF IInv
<1>3. CASE q # NoQ
  <2>1. UNCHANGED q /\ Go(r, "ended") BY <1>3 DEF Claim
  <2>2. Moves(r, "ended") BY <2>1, <1>1, GoMoves
  <2>3. "planned" \notin Active \cup {"idle", "claimed", "dead", "stopped"} BY DEF Active
  <2> QED BY <2>1, <2>2, <2>3, <1>1, Bystander
<1> QED BY <1>2, <1>3

\* The journal starts the trail: the plan it is compiled from is that of the disk, unless overtaken.
LEMMA WriteKeeps ==
  ASSUME IInv, NEW r \in Runs, Write(r)
  PROVE  IInv'
<1>1. run[r].pc = "claimed" /\ UNCHANGED <<disk, script>> /\ RunsOK /\ DiskOK BY DEF Write, IInv
<1>2. q.at = "bare" /\ q.owner = r BY <1>1 DEF IInv, Owned
<1>3. script.on = FALSE /\ ScriptOK' BY <1>1, <1>2, NoScript
<1>4. \A x \in Runs \ {r} : run[x].pc \notin Active \cup {"claimed"} BY <1>2 DEF IInv, Owned
<1>5. DiskOK' BY <1>1 DEF DiskOK
<1>6. run[r].ops \in Seq(Ops) /\ (run[r].calm => run[r].ops = Planned(disk)) BY <1>1 DEF IInv, Planning, Planners
<1> DEFINE steps == Steps(disk, run[r].ops)
<1>7. CASE q' = [at |-> "ready", owner |-> r, steps |-> steps, items |-> [i \in 1..Len(steps) |-> None],
                 done |-> 0, undone |-> {}, mark |-> "", calm |-> run[r].calm, spoilt |-> FALSE, was |-> disk]
           /\ Go(r, "step")
  <2>1. Moves(r, "step") /\ run'[r].calm = run[r].calm BY <1>1, <1>7, GoMoves
  <2>2. steps \in Seq(AllSteps(disk)) /\ \A i \in 1..Len(steps) : IsStep(steps[i]) BY <1>6, StepsTyped
  <2>3. run[r].calm => (\A i \in 1..Len(steps) : NotYet(disk, steps[i])) /\ Apart(steps)
    <3>1. Rooted(disk) BY <1>1 DEF DiskOK
    <3> QED BY <3>1, <1>6, PlanSound DEF Apart
  <2> DEFINE c == run[r].calm  x == q'
  <2> HIDE DEF steps, c
  <2>4. Len(steps) \in Nat BY <2>2
  <2>5. /\ x.at = "ready" /\ x.owner = r /\ x.steps = steps /\ x.items = [i \in 1..Len(steps) |-> None]
        /\ x.done = 0 /\ x.undone = {} /\ x.mark = "" /\ x.calm = c /\ x.was = disk /\ IsQ(x)
    BY <1>7 DEF IsQ, c
  <2> HIDE DEF x
  <2>6. Todo(x) = 0
    <3> DEFINE n == x.done  k == Cardinality(x.undone)
    <3>1. n = 0 /\ k = 0 BY <2>5, FS_EmptySet
    <3> HIDE DEF n, k
    <3>2. n - k = 0 BY <3>1
    <3> QED BY <3>2 DEF Todo, n, k
  <2> DEFINE items == x.items
  <2>15. items = [i \in 1..Len(steps) |-> None] /\ x.steps = steps BY <2>5
  <2> HIDE DEF items
  <2>16. items = [i \in 1..Len(steps) |-> items[i]] /\ \A i \in 1..Len(steps) : items[i] = None BY <2>15
  <2>7. IsReady(x)
    <3>1. 0 \in 0..Len(steps) /\ 0 \in 0..0 /\ {} = (0+1)..0 BY <2>4
    <3>2. x.done = 0 /\ x.undone = {} /\ x.owner = r /\ IsQ(x) BY <2>5
    <3>3. x.done \in 0..Len(x.steps) /\ Todo(x) \in 0..x.done /\ x.undone = (Todo(x) + 1)..x.done
      BY <3>1, <3>2, <2>15, <2>6
    <3>4. Len(x.steps) \in Nat /\ \A i \in 1..Len(x.steps) : IsStep(x.steps[i]) BY <2>2, <2>4, <2>15
    <3>5. x.items = [i \in 1..Len(x.steps) |-> x.items[i]] BY <2>15, <2>16 DEF items
    <3>6. IsMark(x.mark) BY <2>5 DEF IsMark
    <3> QED BY <3>2, <3>3, <3>4, <3>5, <3>6 DEF IsReady
  <2>8. AtWork("step", x) BY <2>5, <2>6 DEF AtWork
  <2>9. QOK' BY <2>7 DEF QOK, x
  <2>10. run'[r].pc = "step" /\ RunsOK' /\ \A y \in Runs \ {r} : run'[y].pc \notin Active \cup {"claimed"}
    BY <2>1, <1>4 DEF Moves
  <2>11. Owned'
    <3>1. "step" \in Active BY DEF Active
    <3> QED BY <3>1, <2>5, <2>8, <2>10 DEF Owned, x
  <2>12. Planning' BY <2>1, <1>1, PlanningStays DEF Planners
  <2>13. Quiet'
    <3>1. ~Holds(x) BY <2>5 DEF Holds
    <3> QED BY <3>1 DEF Quiet, x
  <2>14. Trailed'
    <3> SUFFICES ASSUME c PROVE
          /\ Apart(x.steps)
          /\ \E k \in 0..Len(x.steps) : \E past :
               Trail(disk, x, past, k) /\ Where(k, run'[x.owner].pc, x)
      BY <2>5, <1>1, <1>3 DEF Trailed, x
    <3> DEFINE past == [j \in {0} |-> disk]
    <3>1. past[0] = disk OBVIOUS
    <3> HIDE DEF past
    <3>2. \A j \in 0..0 : IsDisk(past[j]) /\ \A i \in (j+1)..Len(steps) : NotYet(past[j], steps[i])
      <4>1. \A i \in (0+1)..Len(steps) : NotYet(disk, steps[i]) BY <2>3, <2>4 DEF c
      <4>2. IsDisk(disk) BY <1>1 DEF DiskOK
      <4> QED BY <3>1, <4>1, <4>2
    <3>3. \A j \in 1..0 : /\ Fits(past[j-1], x.steps[j]) /\ past[j] = Done(past[j-1], x.steps[j])
                          /\ x.items[j] = Parked(past[j-1], x.steps[j])
      OBVIOUS
    <3>4. \A j \in (0+1)..Len(steps) : x.items[j] = None
      <4>1. \A j \in (0+1)..Len(steps) : j \in 1..Len(steps) BY <2>4
      <4> QED BY <4>1, <2>16 DEF items
    <3>5. Trail(disk, x, past, 0) BY <3>1, <3>2, <3>3, <3>4, <2>5 DEF Trail
    <3>6. Where(0, "step", x)
      <4>1. Place(0, "step", 0, 0, "") BY PlaceOfStep
      <4> QED BY <4>1, <2>5, <2>6 DEF Where
    <3>7. 0 \in 0..Len(x.steps) BY <2>4, <2>15
    <3> QED BY <3>5, <3>6, <3>7, <2>3, <2>5, <2>10 DEF c
  <2> QED BY <1>3, <1>5, <2>9, <2>10, <2>11, <2>12, <2>13, <2>14 DEF IInv
<1>8. CASE q' = NoQ /\ Go(r, "ended")
  <2>1. Moves(r, "ended") BY <1>1, <1>8, GoMoves
  <2>2. Planning' BY <2>1, <1>1, PlanningStays DEF Planners
  <2>3. \A x \in Runs : run'[x].pc \notin Active \cup {"claimed"}
    <3>1. "ended" \notin Active BY DEF Active
    <3> QED BY <3>1, <2>1, <1>4 DEF Moves
  <2>4. script'.on = FALSE /\ RunsOK' BY <1>1, <1>3, <2>1 DEF Moves
  <2> QED BY <1>5, <1>8, <2>2, <2>3, <2>4, Gone
<1> QED BY <1>7, <1>8 DEF Write

\* Killed at any stage: the trail is one off the log at most.
LEMMA KillKeeps ==
  ASSUME IInv, NEW r \in Runs, Kill(r)
  PROVE  IInv'
<1>1. /\ run[r].pc \notin {"idle", "ended", "stopped", "dead"} /\ Go(r, "dead") /\ UNCHANGED <<disk, script>>
      /\ q' = IF run[r].pc = "undid" THEN [q EXCEPT !.spoilt = TRUE] ELSE q
  BY DEF Kill
<1>2. RunsOK BY DEF IInv
<1>3. Moves(r, "dead") BY <1>1, <1>2, GoMoves
<1>4. CASE run[r].pc \in Active /\ run[r].pc # "undid" BY <1>1, <1>4, GiveUp
<1>5. CASE run[r].pc = "undid"
  <2>1. run[r].pc \in Active BY <1>5 DEF Active
  <2>2. /\ IsReady(q) /\ DiskOK /\ AtWork("undid", q)
        /\ q.calm /\ q.mark # "committed" =>
             \E k \in 0..Len(q.steps) : \E past : Trail(disk, q, past, k) /\ Where(k, "undid", q)
    BY <1>5, <2>1, OwnerFacts
  <2>3. /\ SameQ(q, q') /\ q'.items = q.items
        /\ q'.done = q.done /\ q'.undone = q.undone /\ q'.mark = q.mark /\ q'.calm = q.calm
    <3>1. q' = [q EXCEPT !.spoilt = TRUE] BY <1>1, <1>5
    <3>2. IsQ(q) BY <2>2 DEF IsReady
    <3>3. ASSUME NEW v, q' = [q EXCEPT !.spoilt = v]
          PROVE  /\ SameQ(q, q') /\ q'.items = q.items
                 /\ q'.done = q.done /\ q'.undone = q.undone /\ q'.mark = q.mark /\ q'.calm = q.calm
      BY <3>2, <3>3, QEdited
    <3> QED BY <3>1, <3>3
  <2>4. q'.steps = q.steps /\ q'.owner = q.owner /\ q'.was = q.was /\ IsQ(q') /\ Todo(q') = Todo(q)
    BY <2>3 DEF SameQ, Todo
  <2>5. IsReady(q') BY <2>2, <2>3, <2>4 DEF IsReady
  <2>6. DiskOK' BY <1>1, <2>2 DEF DiskOK
  <2>7. Holds(q') => Holds(q) BY <2>3, <2>4 DEF Holds
  <2>8. q.calm /\ Apart(q.steps) /\ q'.mark # "committed" =>
           \E k \in 0..Len(q.steps) : \E past : Trail(disk', q', past, k) /\ Where(k, "dead", q')
    <3> SUFFICES ASSUME q.calm, q.mark # "committed"
                 PROVE  \E k \in 0..Len(q.steps) : \E past : Trail(disk', q', past, k) /\ Where(k, "dead", q')
      BY <2>3
    <3>1. PICK k \in 0..Len(q.steps) : \E past : Trail(disk, q, past, k) /\ Where(k, "undid", q) BY <2>2
    <3>2. PICK past : Trail(disk, q, past, k) BY <3>1
    <3>3. Trail(disk', q', past, k) BY <3>2, <1>1, <2>3, <2>4, TrailSame
    <3>4. Where(k, "dead", q) BY <3>1 DEF Where, Place
    <3>5. Where(k, "dead", q') BY <3>4, <2>3, <2>4 DEF Where
    <3> QED BY <3>3, <3>5
  <2> QED BY <1>1, <1>3, <2>1, <2>3, <2>5, <2>6, <2>7, <2>8, OwnerStep
<1>6. CASE run[r].pc = "claimed"
  <2>1. q' = q /\ disk' = disk /\ script' = script BY <1>1, <1>6
  <2>2. q.at = "bare" /\ q.owner = r BY <1>6 DEF IInv, Owned
  <2>3. ScriptOK' BY <2>1, <2>2, NoScript
  <2>4. Planning' BY <2>1, <1>3, PlanningStays DEF Planners
  <2>5. Quiet' /\ Trailed' BY <2>1, <2>2 DEF Quiet, Trailed
  <2>6. DiskOK' /\ RunsOK' /\ QOK' BY <2>1, <1>3 DEF IInv, DiskOK, QOK, Moves
  <2>7. Owned'
    <3>1. \A x \in Runs \ {r} : run[x].pc \notin Active \cup {"claimed"} BY <2>2 DEF IInv, Owned
    <3>2. run'[r].pc = "dead" /\ \A x \in Runs \ {r} : run'[x].pc \notin Active \cup {"claimed"}
      BY <3>1, <1>3 DEF Moves
    <3>3. "dead" \notin Active BY DEF Active
    <3> QED BY <3>2, <3>3, <2>1, <2>2 DEF Owned
  <2> QED BY <2>3, <2>4, <2>5, <2>6, <2>7 DEF IInv
<1>7. CASE run[r].pc \notin Active \cup {"claimed"}
  <2>1. q' = q BY <1>1, <1>7 DEF Active
  <2> QED BY <2>1, <1>1, <1>3, <1>7, Bystander
<1> QED BY <1>4, <1>5, <1>6, <1>7

-----------------------------------------------------------------------------
(* The purge *)

\* A purge keeps the shape of the disk, and does nothing to it with nothing parked.
LEMMA PurgedFacts ==
  ASSUME NEW d, IsDisk(d), Rooted(d)
  PROVE  /\ IsDisk(Purged(d)) /\ Rooted(Purged(d))
         /\ ~Holds(q) => Purged(d) = d
<1> DEFINE gone == {q.steps[i].from[1] : i \in {j \in 1..Len(q.steps) : q.items[j] = Dir}}
           p == [s \in Slots |-> IF s[1] \in gone /\ s[2] \in Names THEN None ELSE d[s]]
<1>1. p = Purged(d) BY DEF Purged
<1>2. ~Holds(q) => gone = {}
  <2>1. Dir # None BY NodesApart
  <2> QED BY <2>1 DEF Holds
<1> HIDE DEF gone
<1>3. IsDisk(p) BY DEF IsDisk
<1>4. Rooted(p)
  <2>1. \A a \in Aliases : /\ <<a, "self">> \in Slots /\ <<a, "cli">> \in Slots
    BY SlotFacts
  <2>2. "self" \notin Names /\ "cli" \notin Names BY NamesApart
  <2>3. \A a \in Aliases : p[<<a, "self">>] = d[<<a, "self">>] /\ p[<<a, "cli">>] = d[<<a, "cli">>]
    BY <2>1, <2>2
  <2> HIDE DEF p
  <2> QED BY <2>3 DEF Rooted
<1>5. gone = {} => p = d BY DEF IsDisk
<1> QED BY <1>1, <1>2, <1>3, <1>4, <1>5

\* The command purges what it has parked and removes the quarantine.
LEMMA CleanKeeps ==
  ASSUME IInv, NEW r \in Runs, Clean(r)
  PROVE  IInv'
<1>1. /\ run[r].pc = "clean" /\ q.at = "ready" /\ q.owner = r
      /\ disk' = Purged(disk) /\ q' = NoQ /\ Go(r, "ended") /\ UNCHANGED script
  BY DEF Clean, Working
<1>2. RunsOK /\ IsDisk(disk) /\ Rooted(disk) BY DEF IInv, DiskOK
<1>3. Moves(r, "ended") BY <1>1, <1>2, GoMoves
<1>4. DiskOK' /\ (~Holds(q) => disk' = disk) BY <1>1, <1>2, PurgedFacts DEF DiskOK
<1>5. script'.on = FALSE BY <1>1, NoScript
<1>6. Planning'
  <2> SUFFICES ASSUME NEW x \in Runs, run'[x].pc \in Planners
               PROVE  run'[x].ops \in Seq(Ops) /\ (run'[x].calm => run'[x].ops = Planned(disk'))
    BY DEF Planning
  <2>1. x # r BY <1>3 DEF Moves, Planners
  <2>2. run[x].pc \in Planners /\ run'[x].ops = run[x].ops /\ (run'[x].calm => run[x].calm) BY <2>1, <1>3 DEF Moves
  <2>3. run[x].calm => ~Holds(q) BY <2>1, <2>2, <1>1 DEF IInv, Quiet
  <2>4. run[x].ops \in Seq(Ops) /\ (run[x].calm => run[x].ops = Planned(disk)) BY <2>2 DEF IInv, Planning
  <2> QED BY <2>2, <2>3, <2>4, <1>4
<1>7. \A x \in Runs : run'[x].pc \notin Active \cup {"claimed"}
  <2>1. \A x \in Runs \ {r} : run[x].pc \notin Active \cup {"claimed"} BY <1>1 DEF IInv, Owned
  <2>2. "ended" \notin Active \cup {"claimed"} BY DEF Active
  <2> QED BY <2>1, <2>2, <1>3 DEF Moves
<1> QED BY <1>1, <1>3, <1>4, <1>5, <1>6, <1>7, Gone DEF Moves

\* So does the operator with a quarantine that is bare or marked.
LEMMA DiscardKeeps ==
  ASSUME IInv, Discard
  PROVE  IInv'
<1>1. /\ q.at # "none" /\ run[q.owner].pc \in {"dead", "stopped"} /\ ~script.on
      /\ disk' = (IF q.at = "bare" THEN disk ELSE Purged(disk)) /\ q' = NoQ /\ UNCHANGED <<run, script>>
  BY DEF Discard, Left
<1>2. RunsOK /\ IsDisk(disk) /\ Rooted(disk) /\ run' = run BY <1>1 DEF IInv, DiskOK
<1>3. DiskOK' /\ ((q.at = "ready" /\ Holds(q)) \/ disk' = disk) /\ q.at \in {"bare", "ready"}
  <2>1. q.at \in {"bare", "ready"}
    <3>1. q = NoQ => q.at = "none" BY DEF NoQ
    <3>2. IsReady(q) => q.at = "ready" BY DEF IsReady, IsQ
    <3> QED BY <3>1, <3>2, <1>1 DEF IInv, QOK
  <2> QED BY <2>1, <1>1, <1>2, PurgedFacts DEF DiskOK
<1>4. script'.on = FALSE BY <1>1, NoScript
<1>5. Planning'
  <2> SUFFICES ASSUME NEW x \in Runs, run[x].pc \in Planners
               PROVE  run[x].ops \in Seq(Ops) /\ (run[x].calm => run[x].ops = Planned(disk'))
    BY <1>2 DEF Planning
  <2>1. x # q.owner BY <1>1 DEF Planners
  <2>2. run[x].ops \in Seq(Ops) /\ (run[x].calm => run[x].ops = Planned(disk)) BY DEF IInv, Planning
  <2>3. run[x].calm => disk' = disk BY <2>1, <1>3 DEF IInv, Quiet
  <2> QED BY <2>2, <2>3
<1>6. \A x \in Runs : run'[x].pc \notin Active \cup {"claimed"}
  <2> SUFFICES ASSUME NEW x \in Runs, run[x].pc \in Active \cup {"claimed"} PROVE FALSE BY <1>2
  <2>1. q.owner = x BY DEF IInv, Owned
  <2> QED BY <2>1, <1>1 DEF Active
<1>7. RunsOK' BY <1>2 DEF RunsOK
<1> QED BY <1>1, <1>3, <1>4, <1>5, <1>6, <1>7, Gone

-----------------------------------------------------------------------------
(* The script, and others that write *)

\* The quarantine is as far as it was.
Kept == q' = q \/ /\ IsReady(q) /\ IsReady(q') /\ q'.owner = q.owner /\ q'.steps = q.steps
                  /\ q'.done = q.done /\ q'.undone = q.undone /\ q'.mark = q.mark

\* Then it has the owner it had.
LEMMA OwnedStays ==
  ASSUME IInv, Kept, \A x \in Runs : run'[x].pc = run[x].pc
  PROVE  Owned' /\ QOK'
<1>1. q'.at = q.at /\ (q.at \in {"bare", "ready"} => q'.owner = q.owner /\ q.owner \in Runs)
  <2>1. IsReady(q) => q.at = "ready" /\ q.owner \in Runs BY DEF IsReady, IsQ
  <2>2. IsReady(q') => q'.at = "ready" BY DEF IsReady, IsQ
  <2>3. q = NoQ => q.at = "none" BY DEF NoQ
  <2> QED BY <2>1, <2>2, <2>3 DEF Kept, IInv, QOK
<1>2. QOK' BY DEF Kept, QOK, IInv
<1>3. \A pc : AtWork(pc, q) => AtWork(pc, q')
  <2>1. CASE q' = q BY <2>1
  <2>2. CASE /\ q'.steps = q.steps /\ q'.done = q.done /\ q'.undone = q.undone /\ q'.mark = q.mark
    <3>1. Todo(q') = Todo(q) BY <2>2 DEF Todo
    <3> QED BY <2>2, <3>1 DEF AtWork
  <2> QED BY <2>1, <2>2 DEF Kept
<1>4. \A x \in Runs :
       /\ run'[x].pc = "claimed" => q'.at = "bare" /\ q'.owner = x
       /\ run'[x].pc \in Active => q'.at = "ready" /\ q'.owner = x /\ AtWork(run'[x].pc, q')
  BY <1>1, <1>3 DEF IInv, Owned
<1>5. q'.at = "bare" => run'[q'.owner].pc \in {"claimed", "dead"} BY <1>1 DEF IInv, Owned
<1>6. q'.at = "ready" => run'[q'.owner].pc \in Active \cup {"dead", "stopped"} BY <1>1 DEF IInv, Owned
<1> QED BY <1>2, <1>4, <1>5, <1>6 DEF Owned

\* A step of the script that changes only its place keeps the invariant unless it passes the trail.
LEMMA ScriptOnly ==
  ASSUME IInv, UNCHANGED <<disk, q, run>>, ScriptOK',
         q.at = "ready" /\ q.mark # "committed" /\ script'.on =>
           \A k \in 0..Len(q.steps) : \A past :
             Trail(disk, q, past, k) /\ Where(k, run[q.owner].pc, q) /\ (script.on => k <= script.at) => k <= script'.at
  PROVE  IInv'
<1>1. disk' = disk /\ q' = q /\ run' = run OBVIOUS
<1>2. Owned' /\ QOK' BY <1>1, OwnedStays DEF Kept
<1>3. DiskOK' /\ RunsOK' /\ Planning' /\ Quiet' BY <1>1 DEF IInv, DiskOK, RunsOK, Planning, Quiet
<1>4. Trailed'
  <2> SUFFICES ASSUME q.at = "ready", q.calm PROVE
        /\ Apart(q.steps)
        /\ q.mark # "committed" =>
            \E k \in 0..Len(q.steps) : \E past :
              Trail(disk, q, past, k) /\ Where(k, run[q.owner].pc, q) /\ (script'.on => k <= script'.at)
    BY <1>1 DEF Trailed
  <2>1. Apart(q.steps) BY DEF IInv, Trailed
  <2>2. ASSUME q.mark # "committed"
        PROVE  \E k \in 0..Len(q.steps) : \E past :
                 Trail(disk, q, past, k) /\ Where(k, run[q.owner].pc, q) /\ (script'.on => k <= script'.at)
    <3>1. PICK k \in 0..Len(q.steps) : \E past :
             Trail(disk, q, past, k) /\ Where(k, run[q.owner].pc, q) /\ (script.on => k <= script.at)
      BY <2>2 DEF IInv, Trailed
    <3>2. PICK past : Trail(disk, q, past, k) /\ Where(k, run[q.owner].pc, q) /\ (script.on => k <= script.at)
      BY <3>1
    <3>3. script'.on => k <= script'.at BY <3>2, <2>2
    <3> QED BY <3>2, <3>3
  <2> QED BY <2>1, <2>2
<1> QED BY <1>2, <1>3, <1>4 DEF IInv

\* A quarantine that is neither absent nor bare is whole.
LEMMA ReadyIs ==
  ASSUME IInv, q.at = "ready"
  PROVE  IsReady(q)
<1>1. q = NoQ => q.at = "none" BY DEF NoQ
<1>2. q = [at |-> "bare", owner |-> q.owner] => q.at = "bare" OBVIOUS
<1> QED BY <1>1, <1>2 DEF IInv, QOK

\* The operator starts the script, at the last step of the plan.
LEMMA RestoreKeeps ==
  ASSUME IInv, Restore
  PROVE  IInv'
<1>1. /\ q.at = "ready" /\ q.mark = "" /\ run[q.owner].pc \in {"dead", "stopped"}
      /\ script' = [on |-> TRUE, at |-> Len(q.steps), seen |-> q.done, stuck |-> FALSE]
      /\ UNCHANGED <<disk, q, run>>
  BY DEF Restore, Left
<1>2. IsReady(q) BY <1>1, ReadyIs
<1>3. Len(q.steps) \in Nat BY <1>2, ReadyNumbers
<1>4. script'.on = TRUE /\ script'.at = Len(q.steps) /\ script'.seen = q.done
      /\ script' = [on |-> TRUE, at |-> script'.at, seen |-> script'.seen, stuck |-> FALSE]
  BY <1>1
<1>5. Len(q.steps) \in 0..Len(q.steps) /\ \A k \in 0..Len(q.steps) : k <= Len(q.steps) BY <1>3
<1>6. ScriptOK' BY <1>1, <1>4, <1>5 DEF ScriptOK
<1> QED BY <1>1, <1>4, <1>5, <1>6, ScriptOnly

\* What the invariant says while the script runs.
LEMMA ScriptFacts ==
  ASSUME IInv, script.on
  PROVE  /\ script = [on |-> TRUE, at |-> script.at, seen |-> script.seen, stuck |-> FALSE]
         /\ q.at = "ready" /\ IsReady(q) /\ q.mark = "" /\ run[q.owner].pc \in {"dead", "stopped"}
         /\ script.at \in 0..Len(q.steps) /\ script.seen = q.done
<1>1. /\ script = [on |-> TRUE, at |-> script.at, seen |-> script.seen, stuck |-> FALSE]
      /\ q.at = "ready" /\ q.mark = "" /\ run[q.owner].pc \in {"dead", "stopped"}
      /\ script.at \in 0..Len(q.steps) /\ script.seen = q.done
  BY DEF IInv, ScriptOK
<1>2. IsReady(q) BY <1>1, ReadyIs
<1> QED BY <1>1, <1>2

\* The script, which trusts the log up to its last line and looks for one step more,
\* takes back exactly the last step that was taken.
LEMMA TakesBackTheLast ==
  ASSUME NEW n \in Nat, NEW i \in 1..n, NEW k \in 0..n, k <= i,
         NEW past, Trail(disk, q, past, k), IsReady(q), Len(q.steps) = n,
         script.seen = q.done, NEW pc, Where(k, pc, q)
  PROVE  /\ Reverses(q.steps[i], i) /\ ~Stuck(q.steps[i], i) => i = k
         /\ i = k => Reverses(q.steps[i], i)
<1> DEFINE st == q.steps[i]  item == q.items[i]
<1>1. IsStep(st) /\ st.do \in {"mkdir", "link", "rename"}
  <2>1. IsStep(st) BY DEF IsReady
  <2> QED BY <2>1, KindsApart DEF IsStep
<1>2. ASSUME i # k, Reverses(st, i), ~Stuck(st, i) PROVE FALSE
  <2>1. i \in (k+1)..n /\ k \in 0..k BY <1>2
  <2>2. disk = past[k] /\ IsDisk(past[k]) /\ NotYet(past[k], st) /\ item = None
    BY <2>1 DEF Trail
  <2>3. ~Seen(disk, st, None) /\ (st.do = "rename" => ~CanUndo(disk, st, None)) BY <1>1, <2>2, NotYetUnseen
  <2>4. CanUndo(disk, st, item) BY <1>2 DEF Stuck
  <2>5. st.do # "rename" BY <2>2, <2>3, <2>4
  <2>6. CASE st.do = "link"
    <3>1. At(disk, st.at) = Link(st.text) BY <2>6, <1>2 DEF Reverses
    <3> QED BY <3>1, <2>3, <2>6 DEF Seen
  <2>7. CASE st.do = "mkdir"
    <3>1. At(disk, st.at) = Dir BY <2>7, <1>2 DEF Reverses
    <3> QED BY <3>1, <2>3, <2>7 DEF Seen
  <2> QED BY <2>5, <2>6, <2>7, <1>1
<1>3. ASSUME i = k PROVE Reverses(st, i)
  <2>1. Seen(disk, st, item)
    <3>1. \A j \in 1..Len(q.steps) : IsStep(q.steps[j]) BY DEF IsReady
    <3>2. q.items = [j \in 1..Len(q.steps) |-> q.items[j]] BY DEF IsReady
    <3>3. k \in 1..Len(q.steps) /\ Len(q.steps) \in Nat BY <1>3
    <3>4. Seen(disk, q.steps[k], q.items[k]) BY <3>1, <3>2, <3>3, TrailBack
    <3> QED BY <3>4, <1>3
  <2> DEFINE m == q.done  t == Todo(q)
  <2>2. m \in Nat /\ t \in Nat /\ t <= m /\ q.undone = (t + 1)..m BY ReadyNumbers
  <2>3. k <= t \/ (k = m + 1 /\ t = m) BY DEF Where, Place
  <2>4. script.seen = m OBVIOUS
  <2> HIDE DEF m, t
  <2>5. i \notin q.undone /\ (i <= m \/ i = m + 1) /\ i <= m + 1 BY <1>3, <2>2, <2>3
  <2>6. i <= script.seen \/ i = script.seen + 1 BY <2>4, <2>5
  <2>7. i <= script.seen + 1 BY <2>4, <2>5
  <2>8. CASE st.do = "rename" BY <2>1, <2>5, <2>6, <2>8 DEF Reverses, Seen
  <2>9. CASE st.do = "link" BY <2>1, <2>5, <2>7, <2>9 DEF Reverses, Seen
  <2>10. CASE st.do = "mkdir" BY <2>1, <2>5, <2>7, <2>10 DEF Reverses, Seen
  <2> QED BY <1>1, <2>8, <2>9, <2>10
<1> QED BY <1>2, <1>3

\* Setting the script's place leaves what it has read.
LEMMA ScriptMoved ==
  ASSUME NEW x, x = [on |-> x.on, at |-> x.at, seen |-> x.seen, stuck |-> x.stuck]
  PROVE  \A v : LET y == [x EXCEPT !.at = v] IN
           /\ y = [on |-> y.on, at |-> y.at, seen |-> y.seen, stuck |-> y.stuck]
           /\ y.on = x.on /\ y.at = v /\ y.seen = x.seen /\ y.stuck = x.stuck
<1>1. PICK o, a, s, t : x = [on |-> o, at |-> a, seen |-> s, stuck |-> t] OBVIOUS
<1> SUFFICES ASSUME NEW v
             PROVE  LET y == [x EXCEPT !.at = v] IN
                      /\ y = [on |-> y.on, at |-> y.at, seen |-> y.seen, stuck |-> y.stuck]
                      /\ y.on = x.on /\ y.at = v /\ y.seen = x.seen /\ y.stuck = x.stuck
  OBVIOUS
<1>2. [x EXCEPT !.at = v] = [on |-> o, at |-> v, seen |-> s, stuck |-> t] BY <1>1
<1> QED BY <1>1, <1>2

\* So it does for the script that runs.
LEMMA ScriptAtStep ==
  ASSUME script = [on |-> TRUE, at |-> script.at, seen |-> script.seen, stuck |-> FALSE],
         NEW v, script' = [script EXCEPT !.at = v]
  PROVE  /\ script' = [on |-> TRUE, at |-> script'.at, seen |-> script'.seen, stuck |-> FALSE]
         /\ script'.on = TRUE /\ script'.at = v /\ script'.seen = script.seen
<1>1. script.on = TRUE /\ script.stuck = FALSE OBVIOUS
<1>2. script = [on |-> script.on, at |-> script.at, seen |-> script.seen, stuck |-> script.stuck] BY <1>1
<1>3. /\ script' = [on |-> script'.on, at |-> script'.at, seen |-> script'.seen, stuck |-> script'.stuck]
      /\ script'.on = script.on /\ script'.at = v /\ script'.seen = script.seen /\ script'.stuck = script.stuck
  BY <1>2, ScriptMoved
<1> QED BY <1>1, <1>3

\* One step back is still a place the log allows.
LEMMA PlaceBack ==
  \A k, t, m \in Nat : \A pc \in {"dead", "stopped"} :
    k > 0 /\ Place(k, pc, t, m, "") => Place(k - 1, pc, t, m, "")
BY DEF Place

\* The script takes one step back, passes one that was not taken, or stops.
LEMMA RestoreStepKeeps ==
  ASSUME IInv, RestoreStep
  PROVE  IInv'
<1> DEFINE i == script.at  st == q.steps[i]  item == q.items[i]  n == Len(q.steps)  r == q.owner
<1>1. script.on /\ i > 0 BY DEF RestoreStep
<1>2. /\ script = [on |-> TRUE, at |-> script.at, seen |-> script.seen, stuck |-> FALSE]
      /\ q.at = "ready" /\ IsReady(q) /\ q.mark = "" /\ run[r].pc \in {"dead", "stopped"}
      /\ i \in 0..n /\ script.seen = q.done
  BY <1>1, ScriptFacts
<1>3. n \in Nat /\ r \in Runs BY <1>2, ReadyNumbers DEF IsReady
<1>4. i \in 1..n /\ i - 1 \in 0..n
  <2>1. i \in 0..n /\ n \in Nat /\ i > 0 BY <1>1, <1>2, <1>3
  <2> HIDE DEF i, n
  <2> QED BY <2>1
<1>5. IsStep(st) /\ (\A j \in 1..n : IsStep(q.steps[j])) /\ q.items = [j \in 1..n |-> q.items[j]]
  BY <1>2, <1>4 DEF IsReady
<1>6. \A k \in 0..n : \A past : Trail(disk, q, past, k) /\ Where(k, run[r].pc, q) /\ k <= i =>
        /\ Reverses(st, i) /\ ~Stuck(st, i) => i = k
        /\ i = k => Reverses(st, i)
  BY <1>2, <1>3, <1>4, TakesBackTheLast
<1>7. q.calm => /\ Apart(q.steps)
                /\ \E k \in 0..n : \E past : Trail(disk, q, past, k) /\ Where(k, run[r].pc, q) /\ k <= i
  BY <1>1, <1>2 DEF IInv, Trailed
<1>8. CASE Stuck(st, i)
  <2>1. script' = [on |-> FALSE, stuck |-> TRUE] /\ UNCHANGED <<disk, q, run>> BY <1>8 DEF RestoreStep
  <2>2. script'.on = FALSE BY <2>1
  <2>3. ScriptOK' BY <2>2 DEF ScriptOK
  <2> QED BY <2>1, <2>2, <2>3, ScriptOnly
<1>9. CASE ~Stuck(st, i) /\ ~Reverses(st, i)
  <2> DEFINE v == i - 1
  <2>1. script' = [script EXCEPT !.at = v] /\ UNCHANGED <<disk, q, run>> BY <1>9 DEF RestoreStep
  <2> HIDE DEF v
  <2>2. /\ script' = [on |-> TRUE, at |-> script'.at, seen |-> script'.seen, stuck |-> FALSE]
        /\ script'.on = TRUE /\ script'.at = v /\ script'.seen = script.seen
    BY <2>1, <1>2, ScriptAtStep
  <2>3. v \in 0..n BY <1>4 DEF v
  <2>4. ScriptOK' BY <1>2, <2>1, <2>2, <2>3 DEF ScriptOK
  <2>5. ASSUME NEW k \in 0..n, NEW past, Trail(disk, q, past, k), Where(k, run[r].pc, q), k <= i
        PROVE  k <= v
    <3>1. i # k BY <1>6, <1>9, <2>5
    <3> HIDE DEF i
    <3> QED BY <3>1, <2>5, <1>3, <1>4 DEF v
  <2> QED BY <1>1, <2>1, <2>2, <2>4, <2>5, ScriptOnly
<1>10. CASE ~Stuck(st, i) /\ Reverses(st, i)
  <2> DEFINE v == i - 1
  <2>1. /\ disk' = Undone(disk, st, item) /\ q' = [q EXCEPT !.items[i] = None]
        /\ run' = Staled(r) /\ script' = [script EXCEPT !.at = v]
    BY <1>10 DEF RestoreStep
  <2> HIDE DEF v
  <2>2. /\ script' = [on |-> TRUE, at |-> script'.at, seen |-> script'.seen, stuck |-> FALSE]
        /\ script'.on = TRUE /\ script'.at = v /\ script'.seen = script.seen
    BY <2>1, <1>2, ScriptAtStep
  <2>3. v \in 0..n BY <1>4 DEF v
  <2>4. RunsOK BY DEF IInv
  <2>5. Moves(r, run[r].pc) /\ Stales(r) BY <1>3, <2>1, <2>4, StaledStays
  <2>6. /\ SameQ(q, q') /\ q'.items = [q.items EXCEPT ![i] = None]
        /\ q'.done = q.done /\ q'.undone = q.undone /\ q'.mark = q.mark /\ q'.calm = q.calm
    <3>1. IsQ(q) BY <1>2 DEF IsReady
    <3> HIDE DEF i
    <3> QED BY <2>1, <3>1, QEdited
  <2>7. q'.steps = q.steps /\ q'.owner = r /\ q'.was = q.was /\ IsQ(q') /\ Todo(q') = Todo(q) /\ q'.at = "ready"
    BY <2>6 DEF SameQ, Todo, IsQ
  <2>8. IsReady(q')
    <3>1. q'.items = [j \in 1..n |-> q'.items[j]] BY <2>6, <1>5
    <3> QED BY <3>1, <2>6, <2>7, <1>2 DEF IsReady
  <2>9. \A x \in Runs : run'[x].pc = run[x].pc BY <2>5, <1>3 DEF Moves
  <2>10. Owned' /\ QOK' BY <1>2, <2>6, <2>7, <2>8, <2>9, OwnedStays DEF Kept
  <2>11. DiskOK'
    <3>1. CanUndo(disk, st, item) BY <1>10 DEF Stuck
    <3>2. IsDisk(disk) /\ Rooted(disk) BY DEF IInv, DiskOK
    <3> QED BY <3>1, <3>2, <2>1, <1>5, UndoneDisk DEF DiskOK
  <2>12. ScriptOK' BY <1>2, <1>3, <2>2, <2>3, <2>6, <2>7, <2>9 DEF ScriptOK
  <2>13. run[r].pc \notin Planners BY <1>2 DEF Planners
  <2>14. \A x \in Runs : run'[x].pc \in Planners => x # r /\ ~run'[x].calm
    BY <2>5, <2>9, <2>13 DEF Stales, Planners
  <2>15. Planning'
    <3> SUFFICES ASSUME NEW x \in Runs, run'[x].pc \in Planners
                 PROVE  run'[x].ops \in Seq(Ops) /\ (run'[x].calm => run'[x].ops = Planned(disk'))
      BY DEF Planning
    <3>1. x # r /\ run[x].pc \in Planners BY <2>9, <2>14
    <3>2. run'[x].ops = run[x].ops BY <3>1, <2>5 DEF Moves
    <3> QED BY <3>1, <3>2, <2>14 DEF IInv, Planning
  <2>16. Quiet' BY <2>14 DEF Quiet
  <2>17. Trailed'
    <3> SUFFICES ASSUME q'.calm PROVE
          /\ Apart(q'.steps)
          /\ \E k \in 0..Len(q'.steps) : \E past :
               Trail(disk', q', past, k) /\ Where(k, run'[q'.owner].pc, q') /\ (script'.on => k <= script'.at)
      BY DEF Trailed
    <3>1. PICK k \in 0..n : \E past : Trail(disk, q, past, k) /\ Where(k, run[r].pc, q) /\ k <= i
      BY <1>7, <2>6
    <3>2. PICK past : Trail(disk, q, past, k) /\ Where(k, run[r].pc, q) /\ k <= i BY <3>1
    <3>3. i = k BY <1>6, <1>10, <3>2
    <3>4. k \in 1..n /\ k - 1 \in 0..n /\ v = k - 1 BY <1>4, <3>3 DEF v
    <3>5. Trail(Undone(disk, q.steps[k], q.items[k]), q', past, k - 1)
      <4>1. q'.items = [q.items EXCEPT ![k] = None] BY <2>6, <3>3
      <4> HIDE DEF i
      <4> QED BY <4>1, <3>2, <3>4, <1>3, <1>5, <2>7, TrailBack
    <3>6. Trail(disk', q', past, k - 1) BY <3>5, <3>3, <2>1
    <3>7. Where(k - 1, run[r].pc, q')
      <4>1. Where(k - 1, run[r].pc, q)
        <5> DEFINE t == Todo(q)  m == q.done
        <5>1. Place(k, run[r].pc, t, m, "") BY <3>2, <1>2 DEF Where
        <5>2. m \in Nat /\ t \in Nat BY <1>2, ReadyNumbers
        <5> HIDE DEF t, m
        <5>3. k \in Nat /\ k > 0 BY <3>4
        <5>4. PICK pc \in {"dead", "stopped"} : pc = run[r].pc BY <1>2
        <5>5. Place(k - 1, pc, t, m, "") BY <5>1, <5>2, <5>3, <5>4, PlaceBack
        <5> QED BY <5>4, <5>5, <1>2 DEF Where, t, m
      <4> QED BY <4>1, <2>6, <2>7 DEF Where
    <3>8. k - 1 <= script'.at BY <2>2, <3>4
    <3> QED BY <3>4, <3>6, <3>7, <3>8, <2>6, <2>7, <2>9, <1>3, <1>7
  <2> QED BY <2>5, <2>10, <2>11, <2>12, <2>15, <2>16, <2>17 DEF IInv, Moves
<1> QED BY <1>8, <1>9, <1>10

\* At its end it removes the quarantine when nothing is left in it.
LEMMA RestoreEndKeeps ==
  ASSUME IInv, RestoreEnd
  PROVE  IInv'
<1>1. script.on /\ UNCHANGED <<disk, run>> BY DEF RestoreEnd
<1>2. CASE q' = NoQ /\ script' = Off
  <2>1. script'.on = FALSE BY <1>2 DEF Off
  <2>2. DiskOK' /\ RunsOK' /\ Planning' BY <1>1 DEF IInv, DiskOK, RunsOK, Planning
  <2>3. q.at = "ready" /\ run[q.owner].pc \in {"dead", "stopped"} BY <1>1, ScriptFacts
  <2>4. \A x \in Runs : run'[x].pc \notin Active \cup {"claimed"}
    <3> SUFFICES ASSUME NEW x \in Runs, run[x].pc \in Active \cup {"claimed"} PROVE FALSE BY <1>1
    <3>1. q.owner = x BY DEF IInv, Owned
    <3> QED BY <3>1, <2>3 DEF Active
  <2> QED BY <1>2, <2>1, <2>2, <2>4, Gone
<1>3. CASE UNCHANGED q /\ script' = [on |-> FALSE, stuck |-> TRUE]
  <2>1. script'.on = FALSE BY <1>3
  <2>2. ScriptOK' BY <2>1 DEF ScriptOK
  <2> QED BY <1>1, <1>3, <2>1, <2>2, ScriptOnly
<1> QED BY <1>2, <1>3 DEF RestoreEnd

\* Killed, it leaves the trail; the log does not know, but the trail is marked spoilt.
LEMMA KillScriptKeeps ==
  ASSUME IInv, KillScript
  PROVE  IInv'
<1>1. script.on /\ script' = Off /\ q' = [q EXCEPT !.spoilt = TRUE] /\ disk' = disk /\ run' = run BY DEF KillScript
<1>2. q.at = "ready" /\ IsReady(q) BY <1>1, ScriptFacts
<1>3. /\ SameQ(q, q') /\ q'.items = q.items
      /\ q'.done = q.done /\ q'.undone = q.undone /\ q'.mark = q.mark /\ q'.calm = q.calm
  <2>1. IsQ(q) BY <1>2 DEF IsReady
  <2>2. ASSUME NEW v, q' = [q EXCEPT !.spoilt = v]
        PROVE  /\ SameQ(q, q') /\ q'.items = q.items
               /\ q'.done = q.done /\ q'.undone = q.undone /\ q'.mark = q.mark /\ q'.calm = q.calm
    BY <2>1, <2>2, QEdited
  <2> QED BY <1>1, <2>2
<1>4. q'.steps = q.steps /\ q'.owner = q.owner /\ q'.was = q.was /\ IsQ(q') /\ Todo(q') = Todo(q)
  BY <1>3 DEF SameQ, Todo
<1>5. IsReady(q') BY <1>2, <1>3, <1>4 DEF IsReady
<1>6. Owned' /\ QOK' BY <1>1, <1>2, <1>3, <1>4, <1>5, OwnedStays DEF Kept
<1>7. script'.on = FALSE BY <1>1 DEF Off
<1>8. ScriptOK' BY <1>7 DEF ScriptOK
<1>9. DiskOK' /\ RunsOK' /\ Planning' BY <1>1 DEF IInv, DiskOK, RunsOK, Planning
<1>10. Quiet'
  <2>1. Holds(q') => Holds(q) BY <1>3, <1>4 DEF Holds
  <2> QED BY <2>1, <1>1, <1>2, <1>4 DEF IInv, Quiet
<1>11. Trailed'
  <2> SUFFICES ASSUME q'.calm PROVE
        /\ Apart(q'.steps)
        /\ q'.mark # "committed" =>
            \E k \in 0..Len(q'.steps) : \E past :
              Trail(disk', q', past, k) /\ Where(k, run'[q'.owner].pc, q') /\ (script'.on => k <= script'.at)
    BY DEF Trailed
  <2>1. Apart(q.steps) BY <1>2, <1>3 DEF IInv, Trailed
  <2>2. ASSUME q'.mark # "committed"
        PROVE  \E k \in 0..Len(q'.steps) : \E past :
              Trail(disk', q', past, k) /\ Where(k, run'[q'.owner].pc, q') /\ (script'.on => k <= script'.at)
    <3>1. PICK k \in 0..Len(q.steps) : \E past : Trail(disk, q, past, k) /\ Where(k, run[q.owner].pc, q)
      BY <2>2, <1>2, <1>3 DEF IInv, Trailed
    <3>2. PICK past : Trail(disk, q, past, k) BY <3>1
    <3>3. Trail(disk', q', past, k) BY <3>2, <1>1, <1>3, <1>4, TrailSame
    <3>4. Where(k, run'[q'.owner].pc, q') BY <3>1, <1>1, <1>3, <1>4 DEF Where
    <3> QED BY <3>3, <3>4, <1>4, <1>7
  <2> QED BY <2>1, <2>2, <1>4
<1> QED BY <1>6, <1>8, <1>9, <1>10, <1>11 DEF IInv

\* Another writer keeps the roots in their directories.
LEMMA EditedDisk ==
  ASSUME IsDisk(disk), Rooted(disk), Edit
  PROVE  IsDisk(disk') /\ Rooted(disk')
<1>1. PICK p \in Aliases \cup {Root}, n \in Names, f \in Fresh :
       LET s == <<p, n>> IN
       \/ disk' = Put(disk, s, Extended(At(disk, s), f))
       \/ /\ p # Root /\ ParentThere(disk, <<p, "self">>)
          /\ disk' = [disk EXCEPT ![<<p, "self">>] = Dir, ![s] = Real({f}, FALSE)]
  BY DEF Edit
<1>2. CASE disk' = Put(disk, <<p, n>>, Extended(At(disk, <<p, n>>), f))
  <2> DEFINE v == Extended(At(disk, <<p, n>>), f)
  <2>1. Reached(disk, <<p, n>>) = <<p, n>> \/ Reached(disk, <<p, n>>) = <<Root, n>> BY ReachedName
  <2> HIDE DEF v
  <2>2. disk' = [disk EXCEPT ![<<p, n>>] = v] \/ disk' = [disk EXCEPT ![<<Root, n>>] = v]
    BY <1>2, <2>1 DEF Put, v
  <2> QED BY <2>2, EntryKeepsRooted
<1>3. CASE /\ p # Root /\ ParentThere(disk, <<p, "self">>)
           /\ disk' = [disk EXCEPT ![<<p, "self">>] = Dir, ![<<p, n>>] = Real({f}, FALSE)]
  <2> DEFINE v == Real({f}, FALSE)  d == [disk EXCEPT ![<<p, "self">>] = Dir]
  <2> HIDE DEF v
  <2>1. p \in Aliases BY <1>3
  <2>2. disk[<<p, "cli">>] = Dir BY <1>3, <2>1, Parents
  <2>3. IsDisk(d) /\ Rooted(d) BY <2>1, <2>2, SelfKeepsRooted
  <2>4. disk' = [d EXCEPT ![<<p, n>>] = v] BY <1>3 DEF v
  <2> HIDE DEF d
  <2> QED BY <2>3, <2>4, EntryKeepsRooted
<1> QED BY <1>1, <1>2, <1>3

\* And overtakes every plan.
LEMMA EditedRuns ==
  ASSUME RunsOK, run' = [r \in Runs |-> IF run[r].pc = "idle" THEN run[r] ELSE [run[r] EXCEPT !.calm = FALSE]]
  PROVE  /\ RunsOK'
         /\ \A r \in Runs : /\ run'[r].pc = run[r].pc /\ run'[r].ops = run[r].ops
                            /\ run[r].pc # "idle" => ~run'[r].calm
<1>1. ASSUME NEW r \in Runs
      PROVE  /\ run'[r].pc = run[r].pc /\ run'[r].ops = run[r].ops
             /\ run[r].pc # "idle" => IsRun(run'[r]) /\ ~run'[r].calm
  <2>1. CASE run[r].pc = "idle"
    <3>1. run'[r] = run[r] BY <2>1
    <3> QED BY <3>1, <2>1
  <2>2. CASE run[r].pc # "idle"
    <3>1. run'[r] = [run[r] EXCEPT !.calm = FALSE] BY <2>2
    <3>2. IsRun(run[r]) BY <2>2 DEF RunsOK
    <3> DEFINE y == [run[r] EXCEPT !.calm = FALSE]
    <3>3. IsRun(y) /\ y.pc = run[r].pc /\ y.ops = run[r].ops /\ y.calm = FALSE BY <3>2, RunDisturbed
    <3> HIDE DEF y
    <3>4. run'[r] = y BY <3>1 DEF y
    <3> QED BY <3>3, <3>4
  <2> QED BY <2>1, <2>2
<1>2. run' = [r \in Runs |-> run'[r]] OBVIOUS
<1>3. RunsOK'
  <2> SUFFICES ASSUME NEW r \in Runs, run'[r].pc # "idle" PROVE IsRun(run'[r]) BY <1>2 DEF RunsOK
  <2> QED BY <1>1
<1> QED BY <1>1, <1>3

\* So that no plan is held to the disk any longer.
LEMMA EditKeepsPlans ==
  ASSUME IInv, RunsOK',
         \A r \in Runs : /\ run'[r].pc = run[r].pc /\ run'[r].ops = run[r].ops
                         /\ run[r].pc # "idle" => ~run'[r].calm
  PROVE  Planning' /\ Quiet'
<1>1. \A r \in Runs : run'[r].pc \in Planners => run[r].pc \in Planners /\ ~run'[r].calm BY DEF Planners
<1>2. Planning' BY <1>1 DEF IInv, Planning
<1>3. Quiet' BY <1>1 DEF Quiet
<1> QED BY <1>2, <1>3

\* Nor is any trail.
LEMMA EditKeeps ==
  ASSUME IInv, Edit
  PROVE  IInv'
<1>1. /\ run' = [r \in Runs |-> IF run[r].pc = "idle" THEN run[r] ELSE [run[r] EXCEPT !.calm = FALSE]]
      /\ q' = (IF q.at = "ready" THEN [q EXCEPT !.calm = FALSE] ELSE q)
      /\ script' = script
  BY DEF Edit
<1>2. RunsOK BY DEF IInv
<1>3. /\ RunsOK'
      /\ \A r \in Runs : /\ run'[r].pc = run[r].pc /\ run'[r].ops = run[r].ops
                         /\ run[r].pc # "idle" => ~run'[r].calm
  BY <1>1, <1>2, EditedRuns
<1>4. DiskOK' BY EditedDisk DEF IInv, DiskOK
<1>5. CASE q.at = "ready"
  <2>1. IsReady(q) BY <1>5, ReadyIs
  <2>2. /\ SameQ(q, q') /\ q'.items = q.items
        /\ q'.done = q.done /\ q'.undone = q.undone /\ q'.mark = q.mark /\ q'.calm = FALSE
    <3>1. IsQ(q) BY <2>1 DEF IsReady
    <3>2. ASSUME NEW v, q' = [q EXCEPT !.calm = v]
          PROVE  /\ SameQ(q, q') /\ q'.items = q.items
                 /\ q'.done = q.done /\ q'.undone = q.undone /\ q'.mark = q.mark /\ q'.calm = v
      BY <3>1, <3>2, QEdited
    <3>3. q' = [q EXCEPT !.calm = FALSE] BY <1>1, <1>5
    <3> QED BY <3>2, <3>3
  <2>3. q'.steps = q.steps /\ q'.owner = q.owner /\ IsQ(q') /\ Todo(q') = Todo(q) BY <2>2 DEF SameQ, Todo
  <2>4. IsReady(q') BY <2>1, <2>2, <2>3 DEF IsReady
  <2>5. q'.at = "ready" /\ q.owner \in Runs BY <2>1, <2>3 DEF IsQ, IsReady
  <2>6. Kept BY <2>1, <2>2, <2>3, <2>4 DEF Kept
  <2>7. ScriptOK'
    <3> SUFFICES ASSUME script.on PROVE
          /\ script = [on |-> TRUE, at |-> script.at, seen |-> script.seen, stuck |-> FALSE]
          /\ q'.at = "ready" /\ script.at \in 0..Len(q'.steps) /\ script.seen = q'.done /\ q'.mark = ""
          /\ run'[q'.owner].pc \in {"dead", "stopped"}
      BY <1>1 DEF ScriptOK, IInv
    <3> QED BY <2>2, <2>3, <2>5, <1>3, ScriptFacts
  <2>8. Trailed' BY <2>2 DEF Trailed
  <2> QED BY <1>3, <1>4, <2>6, <2>7, <2>8, OwnedStays, EditKeepsPlans DEF IInv
<1>6. CASE q.at # "ready"
  <2>1. q' = q BY <1>1, <1>6
  <2>2. Kept BY <2>1 DEF Kept
  <2>3. script.on = FALSE /\ ScriptOK' BY <1>1, <1>6, NoScript
  <2>4. Trailed' BY <2>1, <1>6 DEF Trailed
  <2> QED BY <1>3, <1>4, <2>2, <2>3, <2>4, OwnedStays, EditKeepsPlans DEF IInv
<1> QED BY <1>5, <1>6

-----------------------------------------------------------------------------
(* The theorems *)

\* All that a command does keeps the invariant.
LEMMA WorkKeeps ==
  ASSUME IInv, NEW r \in Runs, Work(r)
  PROVE  IInv'
<1>1. CASE Claim(r) BY <1>1, ClaimKeeps
<1>2. CASE Write(r) BY <1>2, WriteKeeps
<1>3. CASE Look(r) BY <1>3, LookKeeps
<1>4. CASE Step(r) BY <1>4, StepKeeps
<1>5. CASE Log(r) BY <1>5, LogKeeps
<1>6. CASE Verify(r) BY <1>6, VerifyKeeps
<1>7. CASE Untrack(r) BY <1>7, UntrackKeeps
<1>8. CASE Commit(r) BY <1>8, CommitKeeps
<1>9. CASE Clean(r) BY <1>9, CleanKeeps
<1>10. CASE Undo(r) BY <1>10, UndoKeeps
<1>11. CASE LogUndo(r) BY <1>11, LogUndoKeeps
<1>12. CASE RolledBack(r) BY <1>12, CommitKeeps
<1> QED BY <1>1, <1>2, <1>3, <1>4, <1>5, <1>6, <1>7, <1>8, <1>9, <1>10, <1>11, <1>12 DEF Work

\* The invariant is inductive.
LEMMA NextKeeps == IInv /\ [Next]_vars => IInv'
<1> SUFFICES ASSUME IInv, [Next]_vars PROVE IInv' OBVIOUS
<1>1. ASSUME NEW r \in Runs, Plan(r) \/ Work(r) \/ Kill(r) PROVE IInv'
  BY <1>1, PlanKeeps, WorkKeeps, KillKeeps
<1>2. CASE Operator BY <1>2, DiscardKeeps, RestoreKeeps, RestoreStepKeeps, RestoreEndKeeps DEF Operator
<1>3. CASE KillScript BY <1>3, KillScriptKeeps
<1>4. CASE Edit BY <1>4, EditKeeps
<1>5. CASE UNCHANGED vars
  <2>1. UNCHANGED <<disk, q, run, script>> BY <1>5 DEF vars
  <2>2. disk' = disk /\ q' = q /\ run' = run /\ script' = script BY <2>1
  <2> QED BY <2>2 DEF IInv, DiskOK, RunsOK, QOK, ScriptOK, Owned, Planning, Quiet, Trailed
<1> QED BY <1>1, <1>2, <1>3, <1>4, <1>5 DEF Next

\* For any roots, names, starting disk, plans, writers and faults: at every moment of a conversion
\* (applySkillRoots), its rollback or restore.sh, the disk is where some number of steps of the plan
\* lead from the disk it was made from: as many as the log says, one that is not logged yet, or
\* fewer while they are taken back; or somebody else wrote.
THEOREM Tracked == Spec => []IInv
<1> QED BY InitKeeps, NextKeeps, PTL DEF Spec

\* A whole quarantine goes by a command's cleaning up, the operator's, or the script's.
LEMMA WhoClears ==
  ASSUME IInv, Next, q.at = "ready", q' = NoQ
  PROVE  \/ \E r \in Runs : Clean(r)
         \/ Discard
         \/ RestoreEnd
<1>1. q'.at = "none" /\ q' # q BY DEF NoQ
<1>2. IsQ(q) BY ReadyIs DEF IsReady
<1>3. \A i, v : q' # [q EXCEPT !.items[i] = v]
  <2> SUFFICES ASSUME NEW i, NEW v, q' = [q EXCEPT !.items[i] = v] PROVE FALSE OBVIOUS
  <2>1. SameQ(q, [q EXCEPT !.items[i] = v]) BY <1>2, QEdited
  <2>2. IsQ(q') BY <2>1 DEF SameQ
  <2> QED BY <2>2, <1>1 DEF IsQ
<1>4. ASSUME NEW v, q' = [q EXCEPT !.done = v] \/ q' = [q EXCEPT !.undone = v] \/ q' = [q EXCEPT !.mark = v]
                    \/ q' = [q EXCEPT !.spoilt = v] \/ q' = [q EXCEPT !.calm = v]
      PROVE  FALSE
  <2>1. /\ SameQ(q, [q EXCEPT !.done = v]) /\ SameQ(q, [q EXCEPT !.undone = v]) /\ SameQ(q, [q EXCEPT !.mark = v])
        /\ SameQ(q, [q EXCEPT !.spoilt = v]) /\ SameQ(q, [q EXCEPT !.calm = v])
    BY <1>2, QEdited
  <2>2. SameQ(q, q') BY <1>4, <2>1
  <2>3. IsQ(q') BY <2>2 DEF SameQ
  <2> QED BY <2>3, <1>1 DEF IsQ
<1>5. ASSUME NEW r \in Runs, Plan(r) \/ Work(r) PROVE Clean(r)
  <2>1. ~Plan(r) BY <1>1 DEF Plan
  <2>2. ~Claim(r)
    <3>1. q # NoQ BY DEF NoQ
    <3> QED BY <3>1, <1>1 DEF Claim
  <2>3. ~Write(r)
    <3>1. run[r].pc = "claimed" => q.at = "bare" BY DEF IInv, Owned
    <3> QED BY <3>1 DEF Write
  <2>4. ~Look(r) /\ ~Verify(r) /\ ~Untrack(r) BY <1>1 DEF Look, Verify, Untrack
  <2>5. ~Step(r) BY <1>1, <1>3 DEF Step
  <2>6. ~Undo(r) BY <1>1, <1>3 DEF Undo
  <2>7. ~Log(r)
    <3> SUFFICES ASSUME Log(r) PROVE FALSE OBVIOUS
    <3> DEFINE v == q.done + 1
    <3>1. q' = [q EXCEPT !.done = v] BY DEF Log
    <3> HIDE DEF v
    <3> QED BY <3>1, <1>4
  <2>8. ~LogUndo(r)
    <3> SUFFICES ASSUME LogUndo(r) PROVE FALSE OBVIOUS
    <3> DEFINE v == q.undone \cup {ToUndo}
    <3>1. q' = [q EXCEPT !.undone = v] BY DEF LogUndo
    <3> HIDE DEF v
    <3> QED BY <3>1, <1>4
  <2>9. ~Commit(r) /\ ~RolledBack(r) BY <1>4 DEF Commit, RolledBack
  <2> QED BY <1>5, <2>1, <2>2, <2>3, <2>4, <2>5, <2>6, <2>7, <2>8, <2>9 DEF Work
<1>6. ASSUME NEW r \in Runs PROVE ~Kill(r) BY <1>1, <1>4 DEF Kill
<1>7. ~KillScript BY <1>4 DEF KillScript
<1>8. ~Edit BY <1>4 DEF Edit
<1>9. ~Restore BY <1>1 DEF Restore
<1>10. ~RestoreStep BY <1>1, <1>3 DEF RestoreStep
<1> QED BY <1>5, <1>6, <1>7, <1>8, <1>9, <1>10 DEF Next, Operator

\* When it goes, without having committed and with nobody else at the disk, all is taken back.
LEMMA ClearedAsBefore ==
  ASSUME IInv, Next, q.at = "ready", q' = NoQ, q.mark # "committed", q.calm
  PROVE  disk' = q.was
<1>1. IsReady(q) /\ Len(q.steps) \in Nat BY ReadyIs, ReadyNumbers
<1>2. q.mark # "" => q.mark = "rolled-back"
  <2>1. IsMark(q.mark) BY <1>1 DEF IsReady
  <2> QED BY <2>1 DEF IsMark
<1>3. PICK k \in 0..Len(q.steps) : \E past :
        Trail(disk, q, past, k) /\ Where(k, run[q.owner].pc, q) /\ (script.on => k <= script.at)
  BY DEF IInv, Trailed
<1>4. PICK past : Trail(disk, q, past, k) BY <1>3
<1>5. k = 0 => disk = q.was /\ ~Holds(q)
  <2>1. k = 0 => disk = past[0] /\ past[0] = q.was BY <1>4 DEF Trail
  <2>2. k = 0 => \A j \in 1..Len(q.steps) : q.items[j] = None BY <1>1, <1>4 DEF Trail
  <2> QED BY <2>1, <2>2 DEF Holds
<1>6. k = 0 /\ disk' \in {disk, Purged(disk)} => disk' = q.was
  <2>1. IsDisk(disk) /\ Rooted(disk) BY DEF IInv, DiskOK
  <2>2. ~Holds(q) => Purged(disk) = disk BY <2>1, PurgedFacts
  <2> QED BY <2>2, <1>5
<1>7. q.mark # "" => k = 0 BY <1>2, <1>3 DEF Where, Place
<1>8. CASE \E r \in Runs : Clean(r)
  <2>1. PICK r \in Runs : Clean(r) BY <1>8
  <2>2. run[r].pc = "clean" /\ disk' = Purged(disk) BY <2>1 DEF Clean, Working
  <2>3. q.mark # "" BY <2>2 DEF IInv, Owned, AtWork, Active
  <2> QED BY <1>6, <1>7, <2>2, <2>3
<1>9. CASE Discard
  <2>1. q.mark # "" /\ disk' = Purged(disk) BY <1>9 DEF Discard
  <2> QED BY <1>6, <1>7, <2>1
<1>10. CASE RestoreEnd
  <2>1. script.on /\ script.at = 0 /\ disk' = disk BY <1>10 DEF RestoreEnd
  <2>2. k = 0 BY <1>1, <1>3, <2>1
  <2> QED BY <1>6, <2>1, <2>2
<1> QED BY <1>8, <1>9, <1>10, WhoClears

\* AsBefore: rollback() and the restore script of skill-roots.ts give the disk back as it was before
\* the first step, unless the conversion committed or somebody else wrote since the plan.
THEOREM RestoredAsBefore == Spec => AsBefore
<1>1. ASSUME IInv, [Next]_vars
      PROVE  [(q.at = "ready" /\ q' = NoQ /\ q.mark # "committed" /\ q.calm) => disk' = q.was]_vars
  <2>1. CASE Next BY <1>1, <2>1, ClearedAsBefore
  <2>2. CASE UNCHANGED vars BY <2>2
  <2> QED BY <1>1, <2>1, <2>2
<1> QED BY <1>1, Tracked, PTL DEF Spec, AsBefore

=============================================================================
