------------------------- MODULE CrankSwitch_proofs -------------------------
(* What TLAPS proves of the crank, for every set of keys, tabs, projects and *)
(* commands and every length of a log: the types; that a command leaves its  *)
(* tab as asked; that logs lose no row but what is old or raced, and that    *)
(* migrations switch no pane on that is off, wherever they are killed; and   *)
(* that the next run that pjangler shows is the first tick at which a tab is *)
(* due.                                                                      *)
EXTENDS CrankSwitch, FiniteSetTheorems, SequenceTheorems, TLAPS

----------------------------------------------------------------------------
(* The calls that a command makes *)

Merging == {"rows", "replace", "pane", "move", "drop"}

\* The order in which one old key is merged into its target.
Leads(a, b) ==
  \/ a.do = "rows" /\ b = Do("replace", a.val, a.key)
  \/ a.do = "replace" /\ b = Do("pane", a.val, a.key)
  \/ a.do = "pane" /\ b = Do("move", a.val, a.key)
  \/ a.do = "move" /\ b = Do("drop", a.val, a.key)

\* What is left of a list of calls consists of whole merges, but for the one under way.
Chained(s) ==
  \A n \in DOMAIN s :
    /\ s[n].do \in Merging => s[n].key # s[n].val
    /\ s[n].do \in Merging \ {"drop"} => n + 1 \in DOMAIN s /\ Leads(s[n], s[n + 1])
    /\ s[n].do \in Merging \ {"rows"} /\ n # 1 => Leads(s[n - 1], s[n])

\* The key that a call of a merge brings things to.
Target(call) == IF call.do \in {"replace", "move"} THEN call.key ELSE call.val

\* The rows that a key's log has, and those that any log lost in one of the two ways it may.
Seen(k) == raced.rows \cup trimmed \cup log[k]

\* What a merge under way has read and kept is in the target's log unless it was lost; and
\* the override that it is about to write, or has written, is off if one of the two was.
Carried(c) ==
  LET call == Head(todo[c]) IN
  todo[c] # <<>> =>
    /\ call.do \in {"pane", "move", "drop"} => held[c].rows \subseteq Seen(Target(call))
    /\ call.do = "move" /\ ~raced.pane /\ held[c].val # "none" =>
         ("off" \in {pane[call.key], pane[call.val]} => held[c].val = "off")
    /\ call.do = "drop" /\ ~raced.pane /\ held[c].val # "none" =>
         (pane[call.key] = "off" => pane[call.val] = "off")

\* A list of calls that merges what it merges in whole.
Whole(s) == s \in Seq(Request) /\ Chained(s) /\ (s # <<>> => s[1].do \notin Merging \ {"rows"})

\* Calls that only set a field.
Plain(s) == s \in Seq(Request) /\ \A n \in DOMAIN s : s[n].do \notin Merging

LEMMA RequestFields ==
  ASSUME NEW q \in Request
  PROVE  /\ q.key \in Keys
         /\ q.do \in Merging => q.val \in Keys
         /\ q.do = "on" => q.val \in {"on", "off"}
         /\ q.do = "root" => q.val \in Projects
         /\ q.do = "interval" => q.val \in Picks \cup {None}
         /\ q.do \in Merging \cup {"on", "root", "interval", "log"}
BY DEF Request, Merging

LEMMA DoIsRequest ==
  ASSUME NEW k \in Keys
  PROVE  /\ \A d \in Merging, j \in Keys : Do(d, k, j) \in Request
         /\ Do("log", k, k) \in Request
         /\ \A v \in {"on", "off"} : Do("on", k, v) \in Request
         /\ \A p \in Projects : Do("root", k, p) \in Request
         /\ \A i \in Picks \cup {None} : Do("interval", k, i) \in Request
         /\ \A d, v : Do(d, k, v).do = d /\ Do(d, k, v).key = k /\ Do(d, k, v).val = v
BY DEF Request, Merging, Do

LEMMA PlainIsWhole ==
  ASSUME NEW s, Plain(s)
  PROVE  Whole(s)
<1>1. s \in Seq(Request) /\ DOMAIN s = 1..Len(s) /\ Len(s) \in Nat
  BY LenProperties DEF Plain
<1>2. s # <<>> => 1 \in DOMAIN s
  BY <1>1, EmptySeq
<1> QED BY <1>1, <1>2 DEF Plain, Whole, Chained

LEMMA WholeConcat ==
  ASSUME NEW s, NEW t, Whole(s), Whole(t)
  PROVE  Whole(s \o t)
<1> DEFINE u == s \o t
<1>1. /\ s \in Seq(Request) /\ t \in Seq(Request)
      /\ Len(s) \in Nat /\ DOMAIN s = 1..Len(s) /\ Len(t) \in Nat /\ DOMAIN t = 1..Len(t)
  BY LenProperties DEF Whole
<1>2. /\ u \in Seq(Request) /\ Len(u) = Len(s) + Len(t) /\ DOMAIN u = 1..(Len(s) + Len(t))
      /\ \A n \in DOMAIN s : u[n] = s[n]
      /\ \A n \in DOMAIN t : u[Len(s) + n] = t[n]
  <2>1. u \in Seq(Request) /\ Len(u) = Len(s) + Len(t)
        /\ \A i \in 1..Len(s) + Len(t) : u[i] = IF i <= Len(s) THEN s[i] ELSE t[i - Len(s)]
    BY <1>1, ConcatProperties
  <2>2. DOMAIN u = 1..Len(u)
    BY <2>1, LenProperties
  <2> HIDE DEF u
  <2> QED BY <1>1, <2>1, <2>2
<1> HIDE DEF u
<1>3. ASSUME NEW n \in DOMAIN u
      PROVE  /\ u[n].do \in Merging => u[n].key # u[n].val
             /\ u[n].do \in Merging \ {"drop"} => n + 1 \in DOMAIN u /\ Leads(u[n], u[n + 1])
             /\ u[n].do \in Merging \ {"rows"} /\ n # 1 => Leads(u[n - 1], u[n])
  <2>1. CASE n \in DOMAIN s
    <3>1. /\ u[n] = s[n] /\ n \in Nat
          /\ n + 1 \in DOMAIN s => u[n + 1] = s[n + 1] /\ n + 1 \in DOMAIN u
          /\ n # 1 => n - 1 \in DOMAIN s /\ u[n - 1] = s[n - 1]
      BY <1>1, <1>2, <2>1
    <3>2. /\ s[n].do \in Merging => s[n].key # s[n].val
          /\ s[n].do \in Merging \ {"drop"} => n + 1 \in DOMAIN s /\ Leads(s[n], s[n + 1])
          /\ s[n].do \in Merging \ {"rows"} /\ n # 1 => Leads(s[n - 1], s[n])
      BY <2>1 DEF Whole, Chained
    <3> QED BY <3>1, <3>2
  <2>2. CASE n \notin DOMAIN s
    <3> DEFINE m == n - Len(s)
    <3>1. /\ m \in DOMAIN t /\ u[n] = t[m] /\ n = Len(s) + m
          /\ m + 1 \in DOMAIN t => u[n + 1] = t[m + 1] /\ n + 1 \in DOMAIN u
      <4>1. m \in DOMAIN t /\ n = Len(s) + m
        BY <1>1, <1>2, <2>2
      <4> HIDE DEF m
      <4>2. m + 1 \in DOMAIN t => u[Len(s) + (m + 1)] = t[m + 1] /\ n + 1 \in DOMAIN u /\ Len(s) + (m + 1) = n + 1
        BY <4>1, <1>1, <1>2
      <4> QED BY <4>1, <4>2, <1>2
    <3> HIDE DEF m
    <3>2. /\ t[m].do \in Merging => t[m].key # t[m].val
          /\ t[m].do \in Merging \ {"drop"} => m + 1 \in DOMAIN t /\ Leads(t[m], t[m + 1])
          /\ t[m].do \in Merging \ {"rows"} /\ m # 1 => Leads(t[m - 1], t[m])
      BY <3>1 DEF Whole, Chained
    <3>3. CASE m = 1
      <4>1. t # <<>>
        BY <3>1, <3>3
      <4>2. t[m].do \notin Merging \ {"rows"}
        BY <3>3, <4>1 DEF Whole
      <4> QED BY <3>1, <3>2, <4>2
    <3>4. CASE m # 1
      <4>1. m - 1 \in DOMAIN t /\ n - 1 = Len(s) + (m - 1)
        BY <3>1, <3>4, <1>1
      <4>2. u[n - 1] = t[m - 1]
        BY <4>1, <1>2
      <4> QED BY <3>1, <3>2, <3>4, <4>2
    <3> QED BY <3>3, <3>4
  <2> QED BY <2>1, <2>2
<1>4. u # <<>> => u[1].do \notin Merging \ {"rows"}
  <2>1. CASE s # <<>>
    <3>1. 1 \in DOMAIN s
      BY <1>1, <2>1, EmptySeq
    <3> QED BY <3>1, <2>1, <1>2 DEF Whole
  <2>2. CASE s = <<>>
    <3>1. u = t
      BY <2>2, <1>1, ConcatEmptySeq DEF u
    <3> QED BY <3>1 DEF Whole
  <2> QED BY <2>1, <2>2
<1>5. Chained(u)
  BY <1>3 DEF Chained
<1>6. Whole(u)
  BY <1>2, <1>4, <1>5 DEF Whole
<1> QED BY <1>6 DEF u

\* One call less.
LEMMA ChainedTail ==
  ASSUME NEW s \in Seq(Request), s # <<>>, Chained(s)
  PROVE  /\ Tail(s) \in Seq(Request) /\ Chained(Tail(s))
         /\ Tail(s) # <<>> => 2 \in DOMAIN s /\ Head(Tail(s)) = s[2]
         /\ Head(s) = s[1] /\ 1 \in DOMAIN s
<1> DEFINE t == Tail(s)
<1>1. Len(s) \in Nat /\ DOMAIN s = 1..Len(s) /\ Len(s) # 0
  BY LenProperties, EmptySeq
<1>2. /\ t \in Seq(Request) /\ Len(t) = Len(s) - 1 /\ DOMAIN t = 1..(Len(s) - 1)
      /\ \A n \in DOMAIN t : t[n] = s[n + 1]
  <2>1. t \in Seq(Request) /\ Len(t) = Len(s) - 1 /\ \A i \in 1..Len(Tail(s)) : t[i] = s[i + 1]
    BY HeadTailProperties
  <2>2. DOMAIN t = 1..Len(t)
    BY <2>1, LenProperties
  <2> QED BY <2>1, <2>2
<1>3. Head(s) = s[1] /\ 1 \in DOMAIN s
  BY <1>1
<1>4. t # <<>> => 2 \in DOMAIN s /\ Head(t) = s[2]
  <2>1. t # <<>> => 1 \in DOMAIN t
    BY <1>1, <1>2, EmptySeq
  <2>2. t # <<>> => Head(t) = t[1]
    BY <1>2
  <2> QED BY <1>1, <1>2, <2>1, <2>2
<1> HIDE DEF t
<1>5. ASSUME NEW n \in DOMAIN t
      PROVE  /\ t[n].do \in Merging => t[n].key # t[n].val
             /\ t[n].do \in Merging \ {"drop"} => n + 1 \in DOMAIN t /\ Leads(t[n], t[n + 1])
             /\ t[n].do \in Merging \ {"rows"} /\ n # 1 => Leads(t[n - 1], t[n])
  <2> DEFINE m == n + 1
  <2>1. m \in DOMAIN s /\ t[n] = s[m] /\ m \in Nat /\ m # 1
    BY <1>1, <1>2
  <2>2. m + 1 \in DOMAIN s => n + 1 \in DOMAIN t /\ t[n + 1] = s[m + 1]
    BY <1>1, <1>2
  <2>3. n # 1 => t[n - 1] = s[m - 1]
    <3>1. n # 1 => n - 1 \in DOMAIN t /\ (n - 1) + 1 = m - 1
      BY <1>1, <1>2
    <3> QED BY <3>1, <1>2
  <2> HIDE DEF m
  <2>4. /\ s[m].do \in Merging => s[m].key # s[m].val
        /\ s[m].do \in Merging \ {"drop"} => m + 1 \in DOMAIN s /\ Leads(s[m], s[m + 1])
        /\ s[m].do \in Merging \ {"rows"} /\ m # 1 => Leads(s[m - 1], s[m])
    BY <2>1 DEF Chained
  <2> QED BY <2>1, <2>2, <2>3, <2>4
<1>6. Chained(t)
  BY <1>5 DEF Chained
<1> QED BY <1>2, <1>3, <1>4, <1>6 DEF t

\* The n-th call of a row of merges is the e-th of the merge after q others.
LEMMA Places ==
  /\ \A q \in Nat, e \in 1..5 :
       LET n == 5 * q + e IN ((n - 1) \div 5) + 1 = q + 1 /\ ((n - 1) % 5) + 1 = e
  /\ \A n \in Nat \ {0} : \E q \in Nat, e \in 1..5 : n = 5 * q + e
<1>1. ASSUME NEW q \in Nat, NEW e \in 1..5
      PROVE  ((5 * q + e - 1) \div 5) + 1 = q + 1 /\ ((5 * q + e - 1) % 5) + 1 = e
  OBVIOUS
<1>2. ASSUME NEW n \in Nat \ {0}
      PROVE  \E q \in Nat, e \in 1..5 : n = 5 * q + e
  <2>1. (n - 1) \div 5 \in Nat /\ ((n - 1) % 5) + 1 \in 1..5
        /\ n = 5 * ((n - 1) \div 5) + (((n - 1) % 5) + 1)
    OBVIOUS
  <2> QED BY <2>1
<1> QED BY <1>1, <1>2

LEMMA MergesWhole ==
  ASSUME NEW olds \in Seq(Keys), NEW target \in Keys, \A m \in 1..Len(olds) : olds[m] # target
  PROVE  /\ Whole(Merges(olds, target))
         /\ \A n \in DOMAIN Merges(olds, target) :
              /\ Merges(olds, target)[n].do \in Merging
              /\ Merges(olds, target)[n].do = "drop" => Merges(olds, target)[n].val = target
         /\ \A m \in 1..Len(olds) :
              \E n \in DOMAIN Merges(olds, target) : Merges(olds, target)[n] = Do("drop", olds[m], target)
<1> DEFINE s == Merges(olds, target)
           l == Len(olds)
<1>1. l \in Nat /\ \A m \in 1..l : olds[m] \in Keys
  BY LenProperties, ElementOfSeq
<1>2. DOMAIN s = 1..(5 * l) /\ Len(s) = 5 * l /\ 5 * l \in Nat
  BY <1>1 DEF Merges
<1>3. ASSUME NEW q \in Nat, NEW e \in 1..5, 5 * q + e \in DOMAIN s
      PROVE  q + 1 \in 1..l /\ s[5 * q + e] = Merge(olds[q + 1], target)[e]
  <2>1. q + 1 \in 1..l
    BY <1>1, <1>2, <1>3
  <2> DEFINE n == 5 * q + e
  <2>2. ((n - 1) \div 5) + 1 = q + 1 /\ ((n - 1) % 5) + 1 = e
    BY Places
  <2>3. s[n] = Merge(olds[((n - 1) \div 5) + 1], target)[((n - 1) % 5) + 1]
    BY <1>2, <1>3 DEF Merges
  <2> QED BY <2>1, <2>2, <2>3
<1>4. ASSUME NEW q \in Nat, q + 1 \in 1..l, NEW e \in 1..5
      PROVE  5 * q + e \in DOMAIN s
  BY <1>1, <1>2, <1>4
<1>5. ASSUME NEW n \in DOMAIN s PROVE \E q \in Nat, e \in 1..5 : n = 5 * q + e
  <2>1. n \in Nat \ {0}
    BY <1>2
  <2> HIDE DEF s
  <2> QED BY <2>1, Places
<1>6. ASSUME NEW m \in 1..l
      PROVE  /\ \A e \in 1..5 : Merge(olds[m], target)[e] \in Request
             /\ Merge(olds[m], target)[1] = Do("rows", olds[m], target)
             /\ Merge(olds[m], target)[2] = Do("replace", target, olds[m])
             /\ Merge(olds[m], target)[3] = Do("pane", olds[m], target)
             /\ Merge(olds[m], target)[4] = Do("move", target, olds[m])
             /\ Merge(olds[m], target)[5] = Do("drop", olds[m], target)
             /\ olds[m] # target
  <2>1. olds[m] \in Keys
    BY <1>1
  <2>2. Do("rows", olds[m], target) \in Request /\ Do("replace", target, olds[m]) \in Request
        /\ Do("pane", olds[m], target) \in Request /\ Do("move", target, olds[m]) \in Request
        /\ Do("drop", olds[m], target) \in Request
    BY <2>1, DoIsRequest DEF Merging
  <2> HIDE DEF l
  <2> QED BY <2>2 DEF Merge, l
<1> HIDE DEF s
<1>7. \A n \in DOMAIN s : s[n] \in Request /\ s[n].do \in Merging /\ (s[n].do = "drop" => s[n].val = target)
  <2> SUFFICES ASSUME NEW n \in DOMAIN s
               PROVE  s[n] \in Request /\ s[n].do \in Merging /\ (s[n].do = "drop" => s[n].val = target)
    OBVIOUS
  <2>1. PICK q \in Nat, e \in 1..5 : n = 5 * q + e
    BY <1>5
  <2>2. q + 1 \in 1..l /\ s[n] = Merge(olds[q + 1], target)[e]
    BY <1>3, <2>1
  <2>3. s[n] \in Request
    BY <1>6, <2>2
  <2>4. s[n] \in {Do("rows", olds[q + 1], target), Do("replace", target, olds[q + 1]),
                  Do("pane", olds[q + 1], target), Do("move", target, olds[q + 1]),
                  Do("drop", olds[q + 1], target)}
    <3> DEFINE old == olds[q + 1]
    <3>1. /\ Merge(old, target)[1] = Do("rows", old, target)
          /\ Merge(old, target)[2] = Do("replace", target, old)
          /\ Merge(old, target)[3] = Do("pane", old, target)
          /\ Merge(old, target)[4] = Do("move", target, old)
          /\ Merge(old, target)[5] = Do("drop", old, target)
      BY <2>2, <1>6
    <3>2. s[n] = Merge(old, target)[e] /\ e \in {1, 2, 3, 4, 5}
      BY <2>2
    <3> HIDE DEF old
    <3> QED BY <3>1, <3>2 DEF old
  <2> QED BY <2>3, <2>4 DEF Merging, Do
<1>8. s \in Seq(Request)
  <2>1. s \in [1..(5 * l) -> Request]
    BY <1>2, <1>7 DEF s, Merges
  <2> QED BY <1>2, <2>1
<1>9. ASSUME NEW n \in DOMAIN s
      PROVE  /\ s[n].do \in Merging => s[n].key # s[n].val
             /\ s[n].do \in Merging \ {"drop"} => n + 1 \in DOMAIN s /\ Leads(s[n], s[n + 1])
             /\ s[n].do \in Merging \ {"rows"} /\ n # 1 => Leads(s[n - 1], s[n])
  <2>1. PICK q \in Nat, e \in 1..5 : n = 5 * q + e
    BY <1>5
  <2>2. q + 1 \in 1..l /\ s[n] = Merge(olds[q + 1], target)[e]
    BY <1>3, <2>1
  <2>3. e # 5 => /\ n + 1 \in DOMAIN s /\ e + 1 \in 1..5
                 /\ s[n + 1] = Merge(olds[q + 1], target)[e + 1]
    <3>1. e # 5 => e + 1 \in 1..5 /\ n + 1 = 5 * q + (e + 1)
      BY <2>1
    <3> QED BY <3>1, <2>2, <1>3, <1>4
  <2>4. e # 1 => e - 1 \in 1..5 /\ s[n - 1] = Merge(olds[q + 1], target)[e - 1]
    <3>1. e # 1 => e - 1 \in 1..5 /\ n - 1 = 5 * q + (e - 1)
      BY <2>1
    <3> QED BY <3>1, <2>2, <1>3, <1>4
  <2> DEFINE old == olds[q + 1]
  <2>5. /\ Merge(old, target)[1] = Do("rows", old, target)
        /\ Merge(old, target)[2] = Do("replace", target, old)
        /\ Merge(old, target)[3] = Do("pane", old, target)
        /\ Merge(old, target)[4] = Do("move", target, old)
        /\ Merge(old, target)[5] = Do("drop", old, target)
        /\ old # target
    BY <2>2, <1>6
  <2> HIDE DEF old
  <2>6. s[n] = Merge(old, target)[e]
        /\ (e # 5 => s[n + 1] = Merge(old, target)[e + 1])
        /\ (e # 1 => s[n - 1] = Merge(old, target)[e - 1])
    BY <2>2, <2>3, <2>4 DEF old
  <2>7. \A d, k, v : Do(d, k, v).do = d /\ Do(d, k, v).key = k /\ Do(d, k, v).val = v
    BY DEF Do
  <2>8. CASE e = 1  BY <2>3, <2>5, <2>6, <2>7, <2>8 DEF Leads, Merging
  <2>9. CASE e = 2  BY <2>3, <2>4, <2>5, <2>6, <2>7, <2>9 DEF Leads, Merging
  <2>10. CASE e = 3  BY <2>3, <2>4, <2>5, <2>6, <2>7, <2>10 DEF Leads, Merging
  <2>11. CASE e = 4  BY <2>3, <2>4, <2>5, <2>6, <2>7, <2>11 DEF Leads, Merging
  <2>12. CASE e = 5  BY <2>4, <2>5, <2>6, <2>7, <2>12 DEF Leads, Merging
  <2> QED BY <2>8, <2>9, <2>10, <2>11, <2>12
<1>10. s # <<>> => s[1].do \notin Merging \ {"rows"}
  <2>1. s # <<>> => 1 \in DOMAIN s
    BY <1>2, <1>8, EmptySeq
  <2>2. 5 * 0 + 1 = 1 /\ 0 + 1 = 1
    OBVIOUS
  <2>3. s # <<>> => 0 + 1 \in 1..l /\ s[5 * 0 + 1] = Merge(olds[0 + 1], target)[1]
    BY <2>1, <2>2, <1>3
  <2>4. s # <<>> => 1 \in 1..l /\ s[1] = Merge(olds[1], target)[1]
    BY <2>2, <2>3
  <2>5. s # <<>> => s[1] = Do("rows", olds[1], target)
    BY <2>4, <1>6
  <2> QED BY <2>5 DEF Do
<1>11. ASSUME NEW m \in 1..l
       PROVE  \E n \in DOMAIN s : s[n] = Do("drop", olds[m], target)
  <2> DEFINE q == m - 1
  <2>1. q \in Nat /\ q + 1 = m /\ 5 \in 1..5
    BY <1>1
  <2> HIDE DEF q
  <2>2. 5 * q + 5 \in DOMAIN s
    BY <2>1, <1>4
  <2>3. s[5 * q + 5] = Merge(olds[q + 1], target)[5]
    BY <2>1, <2>2, <1>3
  <2>4. Merge(olds[m], target)[5] = Do("drop", olds[m], target)
    BY <1>6
  <2> QED BY <2>1, <2>2, <2>3, <2>4
<1>12. Chained(s)
  BY <1>9 DEF Chained
<1> QED BY <1>7, <1>8, <1>10, <1>11, <1>12 DEF Whole, s

\* SetToSeq() of the community modules lists each member of a finite set.
LEMMA SetToSeqLists ==
  ASSUME NEW S \in SUBSET Keys
  PROVE  /\ SetToSeq(S) \in Seq(S) /\ Len(SetToSeq(S)) = Cardinality(S) /\ Cardinality(S) \in Nat
         /\ \A k \in S : \E n \in 1..Len(SetToSeq(S)) : SetToSeq(S)[n] = k
<1>1. IsFiniteSet(S)
  BY CrankAssumption, FS_Subset
<1>2. Cardinality(S) \in Nat /\ ExistsBijection(1..Cardinality(S), S)
  BY <1>1, FS_CardinalityType
<1>3. \E f \in [1..Cardinality(S) -> S] : IsInjective(f)
  BY <1>2 DEF ExistsBijection, Bijection, Injection, IsInjective
<1>4. SetToSeq(S) \in [1..Cardinality(S) -> S] /\ IsInjective(SetToSeq(S))
  BY <1>3 DEF SetToSeq
<1>5. SetToSeq(S) \in Injection(1..Cardinality(S), S)
  BY <1>4 DEF Injection, IsInjective
<1>6. Cardinality(1..Cardinality(S)) = Cardinality(S)
  BY <1>2, FS_Interval
<1>7. SetToSeq(S) \in Surjection(1..Cardinality(S), S)
  BY <1>1, <1>5, <1>6, FS_Injection
<1>8. Len(SetToSeq(S)) = Cardinality(S) /\ SetToSeq(S) \in Seq(S)
  BY <1>2, <1>4
<1> QED BY <1>2, <1>7, <1>8 DEF Surjection

\* One call for each of some keys.
LEMMA CallsPlain ==
  ASSUME NEW what \in {"on", "root", "interval"}, NEW S \in SUBSET Keys, NEW v,
         \A k \in Keys : Do(what, k, v) \in Request
  PROVE  /\ Plain(Calls(what, S, v))
         /\ \A n \in DOMAIN Calls(what, S, v) : \E k \in S : Calls(what, S, v)[n] = Do(what, k, v)
         /\ \A k \in S : \E n \in DOMAIN Calls(what, S, v) : Calls(what, S, v)[n] = Do(what, k, v)
<1> DEFINE l == SetToSeq(S)
           s == Calls(what, S, v)
<1>1. /\ l \in Seq(S) /\ Len(l) = Cardinality(S) /\ Cardinality(S) \in Nat
      /\ \A k \in S : \E n \in 1..Len(l) : l[n] = k
  BY SetToSeqLists
<1>2. \A n \in 1..Cardinality(S) : l[n] \in S
  BY <1>1, ElementOfSeq
<1>3. s = [n \in 1..Cardinality(S) |-> Do(what, l[n], v)]
  BY DEF Calls
<1> HIDE DEF l
<1>4. \A n \in 1..Cardinality(S) : s[n] = Do(what, l[n], v) /\ s[n] \in Request /\ s[n].do = what
  BY <1>2, <1>3 DEF Do
<1>5. DOMAIN s = 1..Cardinality(S) /\ s \in [1..Cardinality(S) -> Request]
  BY <1>3, <1>4
<1> HIDE DEF s
<1>6. s \in Seq(Request)
  BY <1>1, <1>5
<1> QED BY <1>1, <1>2, <1>4, <1>5, <1>6 DEF Plain, s, Merging

\* What a project resolves onto: a live tab and one of its keys, or a key alone.
LEMMA ResolveShape ==
  ASSUME TypeOK, NEW p \in Projects, NEW owner, NEW r \in Resolve(p, owner)
  PROVE  /\ r.key \in Keys /\ r.tab \in Live \cup {NoTab}
         /\ r.tab = NoTab => r.owner = NoOne
         /\ r.tab # NoTab => /\ r.owner = owner[r.tab]
                             /\ \/ r.key \in KeyFor(r.tab)
                                \/ /\ owner[r.tab] = p /\ KeyFor(r.tab) \cap Stored = {}
                                   /\ r.key \in Stored /\ hash[r.key].root = p
<1>1. /\ \A t \in Live : t \in Tabs /\ name[t] \in Keys /\ KeyFor(t) \subseteq Keys /\ t # NoTab
      /\ Stored \subseteq Keys /\ NameOf[p] \in Keys
  <2>1. name \in [Tabs -> Keys \cup {Closed}] /\ NoTab \notin Tabs /\ NameOf[p] \in Keys
    BY CrankAssumption DEF TypeOK
  <2>2. \A t \in Live : t \in Tabs /\ name[t] \in Keys /\ t # NoTab
    BY <2>1 DEF Live
  <2>3. Stored \subseteq Keys
    BY DEF Stored
  <2> QED BY <2>1, <2>2, <2>3 DEF KeyFor
<1>2. CASE r \in ByCwd(p, owner)
  <2>1. PICK t \in {u \in Live : owner[u] = p} :
          \E k \in IF KeyFor(t) \cap Stored = {} /\ {s \in Stored : hash[s].root = p} # {}
                   THEN {s \in Stored : hash[s].root = p} ELSE KeyFor(t) :
            r = [key |-> k, tab |-> t, owner |-> p]
    BY <1>2 DEF ByCwd
  <2> QED BY <1>1, <2>1
<1>3. CASE r \in ByName(p, owner)
  <2> DEFINE at(ts) == UNION {{[key |-> k, tab |-> t, owner |-> owner[t]] : k \in KeyFor(t)} : t \in ts}
             off(ks) == {[key |-> k, tab |-> NoTab, owner |-> NoOne] : k \in ks}
             whole == FirstHit(p, LAMBDA c : {t \in Live : Canon[name[t]] = c})
             side == FirstHit(p, LAMBDA c : {t \in Live : c \in Sides[name[t]]})
             kept == FirstHit(p, LAMBDA c : {s \in Stored : Canon[s] = c})
             fuzzy == FirstHit(p, LAMBDA c : {t \in Live : /\ Canon[name[t]] # ""
                                                           /\ <<c, Canon[name[t]]>> \in Akin})
  <2>1. whole \subseteq Live /\ side \subseteq Live /\ fuzzy \subseteq Live /\ kept \subseteq Stored
    BY DEF FirstHit
  <2>2. \/ r \in at(whole) \/ r \in at(side) \/ r \in off(kept) \/ r \in at(fuzzy) \/ r \in off({NameOf[p]})
    BY <1>3 DEF ByName
  <2> HIDE DEF whole, side, kept, fuzzy
  <2>3. ASSUME NEW ts \in SUBSET Live, r \in at(ts)
        PROVE  \E t \in Live : r.tab = t /\ r.key \in KeyFor(t) /\ r.owner = owner[t]
    BY <2>3
  <2>4. ASSUME NEW ks \in SUBSET Keys, r \in off(ks)
        PROVE  r.tab = NoTab /\ r.key \in Keys /\ r.owner = NoOne
    BY <2>4
  <2> HIDE DEF at, off
  <2>5. (\E t \in Live : r.tab = t /\ r.key \in KeyFor(t) /\ r.owner = owner[t])
        \/ (r.tab = NoTab /\ r.key \in Keys /\ r.owner = NoOne)
    BY <2>1, <2>2, <2>3, <2>4, <1>1
  <2> QED BY <2>5, <1>1
<1> QED BY <1>2, <1>3 DEF Resolve

\* Some intervals have a longest, or none of them is set.
LEMMA LongestOfSome ==
  ASSUME NEW S \in SUBSET (Picks \cup {None})
  PROVE  /\ Longest(S) \in Picks \cup {None}
         /\ Longest(S) = None <=> S \subseteq {None}
<1> DEFINE T == S \ {None}
<1>1. T \subseteq {300, 3600, 21600, 86400} /\ None = 0
  BY CrankAssumption DEF Intervals, None
<1>2. T # {} => \E i \in T : \A j \in T : j <= i
  <2> HIDE DEF T
  <2>1. CASE 86400 \in T  BY <1>1, <2>1
  <2>2. CASE 86400 \notin T /\ 21600 \in T  BY <1>1, <2>2
  <2>3. CASE 86400 \notin T /\ 21600 \notin T /\ 3600 \in T  BY <1>1, <2>3
  <2>4. CASE 86400 \notin T /\ 21600 \notin T /\ 3600 \notin T /\ 300 \in T  BY <1>1, <2>4
  <2>5. CASE 86400 \notin T /\ 21600 \notin T /\ 3600 \notin T /\ 300 \notin T
    <3>1. \A x \in T : FALSE
      BY <1>1, <2>5
    <3> QED BY <3>1
  <2> QED BY <2>1, <2>2, <2>3, <2>4, <2>5
<1>3. T # {} => Longest(S) \in T
  BY <1>2 DEF Longest
<1>4. T = {} => Longest(S) = None
  BY DEF Longest
<1> QED BY <1>1, <1>3, <1>4

LEMMA ChosenPlain ==
  ASSUME NEW k \in Keys, NEW i \in Picks \cup {None}
  PROVE  /\ Plain(Chosen("interval", k, i))
         /\ \A n \in DOMAIN Chosen("interval", k, i) : Chosen("interval", k, i)[n] = Do("interval", k, i) /\ i # None
         /\ i # None => \E n \in DOMAIN Chosen("interval", k, i) : Chosen("interval", k, i)[n] = Do("interval", k, i)
<1>1. Do("interval", k, i) \in Request /\ Do("interval", k, i).do = "interval"
  BY DoIsRequest
<1>2. CASE i = None
  BY <1>2 DEF Chosen, Plain
<1>3. CASE i # None
  <2>1. Chosen("interval", k, i) = <<Do("interval", k, i)>>
    BY <1>3 DEF Chosen
  <2> DEFINE q == Do("interval", k, i)
  <2>2. q \in Request /\ q.do \notin Merging
    BY <1>1 DEF Merging
  <2> HIDE DEF q
  <2>3. <<q>> \in Seq(Request) /\ DOMAIN <<q>> = {1} /\ <<q>>[1] = q
    BY <2>2
  <2>4. Chosen("interval", k, i) = <<q>>
    BY <2>1 DEF q
  <2> QED BY <1>3, <2>2, <2>3, <2>4 DEF Plain, q
<1> QED BY <1>2, <1>3

\* The rows that a command adds to a log.
LEMMA NotesPlain ==
  ASSUME NEW k \in Keys, NEW n \in Nat
  PROVE  /\ Plain(Notes(k, n)) /\ Notes(k, n) \in Seq(Request)
         /\ \A q \in Range(Notes(k, n)) : q.do = "log" /\ q.key = k
<1> DEFINE q == Do("log", k, k)
<1>1. q \in Request /\ q.do = "log" /\ q.key = k
  BY DoIsRequest DEF Do
<1> HIDE DEF q
<1>2. Notes(k, n) = [m \in 1..n |-> q]
  BY DEF Notes, q
<1>3. Notes(k, n) \in Seq(Request) /\ \A m \in DOMAIN Notes(k, n) : Notes(k, n)[m] = q
  BY <1>1, <1>2
<1> QED BY <1>1, <1>3 DEF Plain, Merging, Range

\* Each command makes a list of calls that merges what it merges in whole.
LEMMA CallsWhole ==
  ASSUME TypeOK, NEW p \in Projects, NEW i \in Picks \cup {None}, NEW op \in {"enable", "disable", "interval"},
         NEW r, r.key \in Keys, r.tab \in Live \cup {NoTab}
  PROVE  Whole(CallsOf(op, p, r, i))
<1>1. \A t \in Live : name[t] \in Keys /\ t # NoTab
  BY CrankAssumption DEF Live, TypeOK
<1>2. \A k, o : KeysNaming(k, o) \subseteq Keys
  BY DEF KeysNaming, Stored
<1>3. \A k \in Keys : /\ Do("on", k, "on") \in Request /\ Do("on", k, "off") \in Request
                      /\ Do("root", k, p) \in Request /\ Do("interval", k, i) \in Request
                      /\ Do("interval", k, None) \in Request
  BY DoIsRequest
<1>4. ASSUME NEW a \in Request, NEW b \in Request, a.do \notin Merging, b.do \notin Merging
      PROVE  Plain(<<a, b>>)
  BY <1>4 DEF Plain
<1>5. CASE op = "disable"
  <2>1. Plain(<<Do("on", r.key, "off"), Do("root", r.key, p)>>)
    BY <1>3, <1>4 DEF Do, Merging
  <2>2. Plain(Notes(r.key, 1))
    BY NotesPlain
  <2> QED BY <1>5, <2>1, <2>2, PlainIsWhole, WholeConcat DEF CallsOf, DisableCalls
<1>6. CASE op = "interval"
  <2>1. Plain(<<Do("interval", r.key, i), Do("root", r.key, p)>>)
    BY <1>3, <1>4 DEF Do, Merging
  <2>2. Plain(Calls("interval", KeysNaming(r.key, r.owner) \ {r.key}, None))
    BY <1>2, <1>3, CallsPlain
  <2>3. Plain(Notes(r.key, 1))
    BY NotesPlain
  <2> QED BY <1>6, <2>1, <2>2, <2>3, PlainIsWhole, WholeConcat DEF CallsOf, IntervalCalls
<1>7. CASE op = "enable"
  <2> DEFINE live == r.tab # NoTab
             key == IF live THEN name[r.tab] ELSE r.key
             old == IF live THEN SetToSeq(OldKeys(p, r.tab)) ELSE <<>>
             carry == IF i # None \/ hash[key].interval # None THEN None
                      ELSE Longest({hash[old[n]].interval : n \in DOMAIN old})
             siblings == IF live THEN {} ELSE KeysNaming(key, r.owner) \ {key}
             none == IF i = None THEN <<>> ELSE Calls("interval", siblings, None)
             notes == Notes(key, (IF i = None THEN 1 ELSE 2) + Len(old))
  <2>1. key \in Keys
    BY <1>1
  <2>2. old \in Seq(Keys) /\ \A m \in 1..Len(old) : old[m] # key
    <3>1. CASE live
      <4> DEFINE S == OldKeys(p, r.tab)
      <4>1. S \subseteq Keys /\ key \notin S
        BY <3>1 DEF OldKeys, Stored
      <4>2. SetToSeq(S) \in Seq(S)
        BY <4>1, SetToSeqLists
      <4>3. SetToSeq(S) \in Seq(Keys)
        BY <4>1, <4>2, SeqMonotonic
      <4>4. \A m \in 1..Len(SetToSeq(S)) : SetToSeq(S)[m] \in S
        BY <4>2, ElementOfSeq
      <4> QED BY <3>1, <4>1, <4>3, <4>4
    <3>2. CASE ~live
      BY <3>2, EmptySeq
    <3> QED BY <3>1, <3>2
  <2>3. carry \in Picks \cup {None}
    <3>1. \A n \in DOMAIN old : old[n] \in Keys
      BY <2>2, LenProperties, ElementOfSeq
    <3>2. {hash[old[n]].interval : n \in DOMAIN old} \subseteq Picks \cup {None}
      <4> HIDE DEF old
      <4> QED BY <3>1 DEF TypeOK, Hash
    <3> QED BY <3>2, LongestOfSome
  <2>4. siblings \in SUBSET Keys
    BY <1>2
  <2> HIDE DEF key, old, carry, siblings
  <2>5. Plain(<<Do("on", key, "on"), Do("root", key, p)>>)
    BY <2>1, <1>3, <1>4 DEF Do, Merging
  <2>6. Plain(Chosen("interval", key, i)) /\ Plain(Chosen("interval", key, carry))
    BY <2>1, <2>3, ChosenPlain
  <2>7. Whole(Merges(old, key))
    BY <2>1, <2>2, MergesWhole
  <2>8. Plain(Calls("on", siblings, "on")) /\ Plain(Calls("root", siblings, p)) /\ Plain(Calls("interval", siblings, None))
    BY <2>4, <1>3, CallsPlain
  <2>9. Whole(none)
    BY <2>8, PlainIsWhole DEF Plain, Whole, Chained
  <2>12. Plain(notes)
    <3>1. Len(old) \in Nat
      BY <2>2, LenProperties
    <3>2. (IF i = None THEN 1 ELSE 2) + Len(old) \in Nat
      BY <3>1
    <3> QED BY <2>1, <3>2, NotesPlain
  <2> HIDE DEF none, notes
  <2>10. EnableCalls(p, r, i) =
           <<Do("on", key, "on"), Do("root", key, p)>> \o Chosen("interval", key, i)
             \o Chosen("interval", key, carry) \o Merges(old, key)
             \o Calls("on", siblings, "on") \o Calls("root", siblings, p) \o none \o notes
    BY DEF EnableCalls, key, old, carry, siblings, none, notes
  <2>11. Whole(EnableCalls(p, r, i))
    BY <2>5, <2>6, <2>7, <2>8, <2>9, <2>10, <2>12, PlainIsWhole, WholeConcat
  <2> QED BY <1>7, <2>11 DEF CallsOf
<1> QED BY <1>5, <1>6, <1>7

----------------------------------------------------------------------------
(* Types *)

\* The newest rows are some of them; a row that is not has as many newer ones as a log
\* keeps.
LEMMA NewestOf ==
  ASSUME NEW n \in Nat, NEW S \in SUBSET (1..n)
  PROVE  /\ Newest(S) \subseteq S
         /\ \A b \in S \ Newest(S) : b + LogCap <= n
<1>1. LogCap \in Nat
  BY CrankAssumption
<1>2. ASSUME NEW b \in S \ Newest(S) PROVE b + LogCap <= n
  <2> DEFINE T == {x \in S : x > b}
  <2>1. b \in 1..n /\ T \subseteq (b + 1)..n
    <3>1. b \in S /\ S \subseteq 1..n
      BY <1>2
    <3>2. ASSUME NEW x \in T PROVE x \in (b + 1)..n
      <4>1. x \in 1..n /\ b \in 1..n /\ x > b
        BY <3>1
      <4> QED BY <4>1
    <3> QED BY <3>1, <3>2
  <2>2. b + 1 \in Int /\ n \in Int
    BY <2>1
  <2>3. IsFiniteSet((b + 1)..n) /\ Cardinality((b + 1)..n) = IF b + 1 > n THEN 0 ELSE n - (b + 1) + 1
    BY <2>2, FS_Interval
  <2>4. Cardinality(T) <= Cardinality((b + 1)..n) /\ Cardinality(T) \in Nat
    BY <2>1, <2>3, FS_Subset, FS_CardinalityType
  <2>5. ~(Cardinality(T) < LogCap)
    BY <1>2 DEF Newest
  <2> HIDE DEF T
  <2> QED BY <1>1, <2>1, <2>3, <2>4, <2>5
<1> QED BY <1>2 DEF Newest

LEMMA InitTypes == Init => TypeOK
<1> SUFFICES ASSUME Init PROVE TypeOK
  OBVIOUS
<1>1. PICK old \in Legacy :
        /\ hash = [k \in Keys |-> [NoHash EXCEPT !.on = old.on[k]]]
        /\ pane = old.pane /\ log = old.log
        /\ rows = Cardinality(UNION {old.log[k] : k \in Keys})
  BY DEF Init
<1>2. PICK n \in 0..(LogCap * Cardinality(Keys)) : UNION {old.log[k] : k \in Keys} = 1..n
  BY CrankAssumption
<1>3. n \in Nat /\ Cardinality(1..n) = n
  BY FS_Interval
<1>4. rows = n
  BY <1>1, <1>2, <1>3
<1>5. hash \in [Keys -> Hash]
  <2>1. \A k \in Keys : old.on[k] \in Switch
    BY CrankAssumption
  <2>2. \A v \in Switch : [NoHash EXCEPT !.on = v] \in Hash
    BY DEF NoHash, Hash
  <2> QED BY <1>1, <2>1, <2>2
<1>6. pane \in [Keys -> Switch] /\ log \in [Keys -> SUBSET (1..rows)]
  <2>1. log \in [Keys -> SUBSET Nat] /\ pane \in [Keys -> Switch]
    BY <1>1, CrankAssumption
  <2>2. \A k \in Keys : log[k] \subseteq 1..n
    BY <1>1, <1>2
  <2> QED BY <2>1, <2>2, <1>4
<1>7. name \in [Tabs -> Keys \cup {Closed}] /\ top \in [Tabs -> SUBSET Projects]
  BY CrankAssumption DEF Init
<1>8. /\ job \in [Callers -> Job \cup {NoJob}] /\ todo \in [Callers -> Seq(Request)]
      /\ held \in [Callers -> [of : SUBSET Keys, rows : SUBSET (1..rows), over : SUBSET (1..rows), val : Switch]]
      /\ raced \in [rows : SUBSET (1..rows), pane : BOOLEAN]
  <2>1. <<>> \in Seq(Request)
    BY EmptySeq
  <2> QED BY <2>1 DEF Init, NoneHeld, Switch
<1> QED BY <1>3, <1>4, <1>5, <1>6, <1>7, <1>8 DEF TypeOK, Init

\* The owner of a tab is a project or no one.
LEMMA OwnerType ==
  ASSUME TypeOK, NEW t \in Tabs, NEW claimed
  PROVE  OwnerOf(t, claimed) \in Projects \cup {NoOne}
<1> DEFINE best == IF Cardinality(top[t]) = 1 THEN top[t] ELSE top[t] \cap claimed
<1>1. best \subseteq Projects
  BY DEF TypeOK
<1> HIDE DEF best
<1>2. Cardinality(best) = 1 => best # {}
  BY FS_EmptySet
<1>3. OwnerOf(t, claimed) = IF Cardinality(best) = 1 THEN CHOOSE p \in best : TRUE ELSE NoOne
  BY DEF OwnerOf, best
<1> QED BY <1>1, <1>2, <1>3

\* What the TUI or a command sees of the tabs' owners.
LEMMA SightingType ==
  ASSUME TypeOK, NEW c \in Callers, NEW seen \in Sighting(c)
  PROVE  seen \in [claimed : SUBSET Projects, owner : [Tabs -> Projects \cup {NoOne}]]
<1>1. Claimed \subseteq Projects
  BY DEF Claimed, TypeOK, Hash
<1>2. Fresh(Claimed) \in [claimed : SUBSET Projects, owner : [Tabs -> Projects \cup {NoOne}]]
  BY <1>1, OwnerType DEF Fresh
<1> QED BY <1>2 DEF Sighting, TypeOK

LEMMA DisturbedType ==
  ASSUME job \in [Callers -> Job \cup {NoJob}], NEW x
  PROVE  Disturbed(x) \in [Callers -> Job \cup {NoJob}]
<1>1. \A j \in Job : [j EXCEPT !.alone = FALSE] \in Job
  BY DEF Job
<1> QED BY <1>1 DEF Disturbed

\* What a command that is called knows and will do: seen is what it saw, r what it found.
Called(c, op, p, i, seen, r) ==
  /\ memo' = IF c \in Tui THEN seen ELSE memo
  /\ job' = [job EXCEPT ![c] = job'[c]]
  /\ job'[c] \in Job /\ job'[c].op = op /\ job'[c].project = p /\ job'[c].tab = r.tab
  /\ job'[c].pick = i /\ job'[c].owner = r.owner
  /\ job'[c].key = IF op = "enable" /\ r.tab # NoTab THEN name[r.tab] ELSE r.key
  /\ job'[c].alone = (seen = Fresh(Claimed))
  /\ job'[c].took = (hash[r.key].root \notin {p, NoOne})
  /\ todo' = [todo EXCEPT ![c] = CallsOf(op, p, r, i)]
  /\ Whole(CallsOf(op, p, r, i))

LEMMA CallShape ==
  ASSUME TypeOK, NEW c \in Callers, NEW op \in {"enable", "disable", "interval"}, NEW p \in Projects,
         NEW i \in Picks \cup {None}, Call(c, op, p, i)
  PROVE  \E seen \in Sighting(c) : \E r \in Resolve(p, seen.owner) : Called(c, op, p, i, seen, r)
<1>0. PICK seen \in Sighting(c) : \E r \in Resolve(p, seen.owner) :
       /\ memo' = IF c \in Tui THEN seen ELSE memo
       /\ job' = [job EXCEPT ![c] =
                    [op |-> op, project |-> p, tab |-> r.tab, pick |-> i,
                     key |-> IF op = "enable" /\ r.tab # NoTab THEN name[r.tab] ELSE r.key,
                     alone |-> seen = Fresh(Claimed),
                     owner |-> r.owner, took |-> hash[r.key].root \notin {p, NoOne}]]
       /\ todo' = [todo EXCEPT ![c] = CallsOf(op, p, r, i)]
  BY Zenon DEF Call
<1>1. PICK r \in Resolve(p, seen.owner) :
       /\ memo' = IF c \in Tui THEN seen ELSE memo
       /\ job' = [job EXCEPT ![c] =
                    [op |-> op, project |-> p, tab |-> r.tab, pick |-> i,
                     key |-> IF op = "enable" /\ r.tab # NoTab THEN name[r.tab] ELSE r.key,
                     alone |-> seen = Fresh(Claimed),
                     owner |-> r.owner, took |-> hash[r.key].root \notin {p, NoOne}]]
       /\ todo' = [todo EXCEPT ![c] = CallsOf(op, p, r, i)]
  BY <1>0, Zenon
<1>2. seen.owner \in [Tabs -> Projects \cup {NoOne}]
  BY SightingType
<1>3. r.key \in Keys /\ r.tab \in Live \cup {NoTab} /\ (r.tab = NoTab => r.owner = NoOne)
      /\ (r.tab # NoTab => r.owner = seen.owner[r.tab])
  BY ResolveShape
<1>4. r.owner \in Projects \cup {NoOne} /\ (r.tab # NoTab => name[r.tab] \in Keys) /\ Live \subseteq Tabs
  BY <1>2, <1>3 DEF Live, TypeOK
<1>5. Whole(CallsOf(op, p, r, i))
  BY <1>3, CallsWhole
<1> DEFINE key == IF op = "enable" /\ r.tab # NoTab THEN name[r.tab] ELSE r.key
           alone == (seen = Fresh(Claimed))
           took == (hash[r.key].root \notin {p, NoOne})
           j == [op |-> op, project |-> p, tab |-> r.tab, pick |-> i, key |-> key,
                 alone |-> alone, owner |-> r.owner, took |-> took]
<1>6. key \in Keys /\ alone \in BOOLEAN /\ took \in BOOLEAN
  BY <1>3, <1>4
<1>7. job' = [job EXCEPT ![c] = j]
  BY <1>1
<1> HIDE DEF key, alone, took
<1>8. j \in Job
  BY <1>3, <1>4, <1>6 DEF Job
<1>9. job'[c] = j
  BY <1>7 DEF TypeOK
<1>10. /\ job'[c].op = op /\ job'[c].project = p /\ job'[c].tab = r.tab
       /\ job'[c].pick = i /\ job'[c].owner = r.owner /\ job'[c].key = key
       /\ job'[c].alone = alone /\ job'[c].took = took
  BY <1>9
<1>11. job' = [job EXCEPT ![c] = job'[c]] /\ job'[c] \in Job
  BY <1>7, <1>8, <1>9
<1>12. Called(c, op, p, i, seen, r)
  BY <1>1, <1>5, <1>10, <1>11 DEF Called, key, alone, took
<1> QED BY <1>12

\* The call that a command makes next.
LEMMA HeadType ==
  ASSUME TypeOK, NEW c \in Callers, todo[c] # <<>>
  PROVE  Head(todo[c]) \in Request /\ Tail(todo[c]) \in Seq(Request) /\ todo[c] \in Seq(Request)
<1>1. todo[c] \in Seq(Request)
  BY DEF TypeOK
<1> QED BY <1>1, HeadTailProperties

\* What a row that is pushed does to the logs.
LEMMA Pushed ==
  ASSUME TypeOK, NEW k \in Keys, Push(k)
  PROVE  /\ rows \in Nat /\ rows' = rows + 1 /\ 1..rows \subseteq 1..rows'
         /\ log' \in [Keys -> SUBSET (1..rows')] /\ trimmed \subseteq trimmed' /\ trimmed' \subseteq 1..rows'
         /\ \A b \in trimmed' \ trimmed : b + LogCap <= rows'
         /\ \A j \in Keys : log[j] \subseteq log'[j] \cup trimmed'
         /\ rows' \in log'[k] \cup trimmed'
<1> DEFINE S == log[k] \cup {rows + 1}
<1>1. rows \in Nat /\ log \in [Keys -> SUBSET (1..rows)] /\ trimmed \subseteq 1..rows
  BY DEF TypeOK
<1>2. rows' = rows + 1 /\ log' = [log EXCEPT ![k] = Newest(S)] /\ trimmed' = trimmed \cup (S \ Newest(S))
  BY DEF Push
<1>3. 1..rows \subseteq 1..rows' /\ S \in SUBSET (1..rows') /\ rows' \in Nat
  BY <1>1, <1>2
<1>4. rows' \in S /\ log[k] \subseteq S
  BY <1>2
<1> HIDE DEF S
<1>5. Newest(S) \subseteq S /\ \A b \in S \ Newest(S) : b + LogCap <= rows'
  BY <1>3, NewestOf
<1> QED BY <1>1, <1>2, <1>3, <1>4, <1>5

\* What one call does to the store, and to what is known of it.
LEMMA StepTypes ==
  ASSUME TypeOK, NEW c \in Callers, Step(c)
  PROVE  TypeOK'
<1> DEFINE call == Head(todo[c])
<1>1. call \in Request /\ Tail(todo[c]) \in Seq(Request)
  BY HeadType DEF Step
<1>2. /\ call.key \in Keys /\ (call.do \in Merging => call.val \in Keys)
      /\ call.do = "on" => call.val \in {"on", "off"}
      /\ call.do = "root" => call.val \in Projects
      /\ call.do = "interval" => call.val \in Picks \cup {None}
  BY <1>1, RequestFields
<1>3. /\ hash \in [Keys -> Hash] /\ pane \in [Keys -> Switch] /\ log \in [Keys -> SUBSET (1..rows)]
      /\ held \in [Callers -> [of : SUBSET Keys, rows : SUBSET (1..rows), over : SUBSET (1..rows), val : Switch]]
      /\ raced \in [rows : SUBSET (1..rows), pane : BOOLEAN]
      /\ held[c].rows \subseteq 1..rows /\ held[c].over \subseteq 1..rows /\ held[c].val \in Switch
      /\ trimmed \subseteq 1..rows /\ rows \in Nat
      /\ \A d \in Callers : held[d].rows \subseteq 1..rows
  BY DEF TypeOK
<1>4. todo' \in [Callers -> Seq(Request)] /\ job' \in [Callers -> Job \cup {NoJob}]
  BY <1>1, DisturbedType DEF Step, TypeOK
<1>5. UNCHANGED <<name, top, memo>>
  BY DEF Step, tabs
<1> HIDE DEF call
<1>6. ASSUME ~Note(c, call)
      PROVE  /\ hash' \in [Keys -> Hash] /\ pane' \in [Keys -> Switch] /\ log' \in [Keys -> SUBSET (1..rows)]
             /\ held' \in [Callers -> [of : SUBSET Keys, rows : SUBSET (1..rows), over : SUBSET (1..rows), val : Switch]]
             /\ raced' \in [rows : SUBSET (1..rows), pane : BOOLEAN]
             /\ trimmed' \subseteq 1..rows /\ rows' = rows
  <2>1. CASE SetField(c, call)
    <3>1. call.do \in {"on", "root", "interval"} /\ UNCHANGED <<pane, log, held, raced, trimmed, rows>>
      BY <2>1 DEF SetField
    <3>2. hash' = [hash EXCEPT ![call.key] = [hash[call.key] EXCEPT ![call.do] = call.val]]
      BY <2>1 DEF SetField
    <3>3. [hash[call.key] EXCEPT ![call.do] = call.val] \in Hash
      <4>0. hash[call.key] \in Hash
        BY <1>2, <1>3
      <4>1. CASE call.do = "on"  BY <4>0, <4>1, <1>2 DEF Hash, Switch
      <4>2. CASE call.do = "root"  BY <4>0, <4>2, <1>2 DEF Hash
      <4>3. CASE call.do = "interval"  BY <4>0, <4>3, <1>2 DEF Hash
      <4> QED BY <3>1, <4>1, <4>2, <4>3
    <3> QED BY <3>1, <3>2, <3>3, <1>3
  <2>2. CASE ReadRows(c, call)
    <3>1. call.val \in Keys
      BY <2>2, <1>2 DEF ReadRows, Merging
    <3> DEFINE S == log[call.key] \cup log[call.val]
               h == [of |-> {call.key, call.val}, rows |-> Newest(S), over |-> S \ Newest(S),
                     val |-> held[c].val]
    <3>2. S \subseteq 1..rows
      BY <3>1, <1>2, <1>3
    <3>3. held' = [held EXCEPT ![c] = h] /\ UNCHANGED <<hash, pane, log, raced, trimmed, rows>>
      BY <2>2 DEF ReadRows, store
    <3> HIDE DEF S
    <3>4. Newest(S) \subseteq 1..rows
      BY <3>2 DEF Newest
    <3>5. h \in [of : SUBSET Keys, rows : SUBSET (1..rows), over : SUBSET (1..rows), val : Switch]
      BY <3>1, <3>2, <3>4, <1>2, <1>3
    <3> HIDE DEF h
    <3> QED BY <3>3, <3>5, <1>3
  <2>3. CASE ReplaceLog(c, call)
    <3>1. raced' = [raced EXCEPT !.rows = raced.rows \cup Since(c, call.key)]
      BY <2>3 DEF ReplaceLog
    <3>2. Since(c, call.key) \subseteq 1..rows /\ Surplus(c, call.key) \subseteq 1..rows
      BY <1>2, <1>3 DEF Since, Surplus
    <3>3. raced' \in [rows : SUBSET (1..rows), pane : BOOLEAN]
      BY <3>1, <3>2, <1>3
    <3> QED BY <2>3, <3>2, <3>3, <1>3 DEF ReplaceLog
  <2>4. CASE ReadPane(c, call)
    <3> DEFINE v == IF pane[call.key] = "none" THEN "none"
                    ELSE IF "off" \in {pane[call.key], pane[call.val]} THEN "off" ELSE "on"
    <3>1. v \in Switch
      BY DEF Switch
    <3>2. held' = [held EXCEPT ![c] = [held[c] EXCEPT !.val = v]]
      BY <2>4 DEF ReadPane
    <3> HIDE DEF v
    <3>3. [held[c] EXCEPT !.val = v] \in [of : SUBSET Keys, rows : SUBSET (1..rows), over : SUBSET (1..rows), val : Switch]
      BY <3>1, <1>3
    <3> QED BY <2>4, <3>2, <3>3, <1>3 DEF ReadPane, store
  <2>5. CASE MovePane(c, call)
    <3>1. pane' \in [Keys -> Switch]
      BY <2>5, <1>3 DEF MovePane
    <3>2. raced' = [raced EXCEPT !.pane = raced.pane \/ (pane' # pane /\ PastReading(call.key, c))]
      BY <2>5 DEF MovePane
    <3>3. PastReading(call.key, c) \in BOOLEAN
      BY DEF PastReading
    <3>4. raced' \in [rows : SUBSET (1..rows), pane : BOOLEAN]
      BY <3>2, <3>3, <1>3
    <3> QED BY <2>5, <3>1, <3>4, <1>3 DEF MovePane
  <2>6. CASE DropKey(c, call)
    <3>1. NoneHeld \in [of : SUBSET Keys, rows : SUBSET (1..rows), over : SUBSET (1..rows), val : Switch] /\ NoHash \in Hash
      BY DEF NoneHeld, Switch, NoHash, Hash
    <3>2. MergingInto(call.key, c) \subseteq Callers
      BY DEF MergingInto
    <3>3. UNION {held[d].rows : d \in MergingInto(call.key, c)} \subseteq 1..rows
      BY <3>2, <1>3
    <3>4. PastReading(call.key, c) \in BOOLEAN
      BY DEF PastReading
    <3>5. raced' \in [rows : SUBSET (1..rows), pane : BOOLEAN]
      <4> DEFINE b == raced.rows \cup Since(c, call.key)
                        \cup UNION {held[d].rows : d \in MergingInto(call.key, c)}
                 g == raced.pane \/ MergingInto(call.key, c) # {}
                        \/ (pane' # pane /\ PastReading(call.key, c))
      <4>1. b \subseteq 1..rows /\ g \in BOOLEAN
        BY <3>3, <3>4, <1>2, <1>3 DEF Since
      <4>2. raced' = [rows |-> b, pane |-> g]
        BY <2>6 DEF DropKey
      <4> HIDE DEF b, g
      <4> QED BY <4>1, <4>2
    <3>6. pane' \in [Keys -> Switch]
      <4>1. "none" \in Switch
        BY DEF Switch
      <4> QED BY <2>6, <4>1, <1>3 DEF DropKey
    <3>7. Surplus(c, call.key) \subseteq 1..rows
      BY <1>2, <1>3 DEF Surplus
    <3> QED BY <2>6, <3>1, <3>5, <3>6, <3>7, <1>3 DEF DropKey
  <2> QED BY <2>1, <2>2, <2>3, <2>4, <2>5, <2>6, <1>6 DEF Step, call
<1>7. CASE Note(c, call)
  <2>1. Push(call.key) /\ UNCHANGED <<hash, pane, held, raced>>
    BY <1>7 DEF Note
  <2>2. /\ rows' \in Nat /\ log' \in [Keys -> SUBSET (1..rows')] /\ trimmed' \subseteq 1..rows'
        /\ 1..rows \subseteq 1..rows'
    BY <2>1, <1>2, Pushed
  <2>3. held' \in [Callers -> [of : SUBSET Keys, rows : SUBSET (1..rows'), over : SUBSET (1..rows'), val : Switch]]
    BY <2>1, <2>2, <1>3
  <2>4. raced' \in [rows : SUBSET (1..rows'), pane : BOOLEAN]
    BY <2>1, <2>2, <1>3
  <2> QED BY <2>1, <2>2, <2>3, <2>4, <1>3, <1>4, <1>5 DEF TypeOK
<1> QED BY <1>3, <1>4, <1>5, <1>6, <1>7 DEF TypeOK

LEMMA NextTypes == TypeOK /\ [Next]_vars => TypeOK'
<1> SUFFICES ASSUME TypeOK, [Next]_vars PROVE TypeOK'
  OBVIOUS
<1>1. ASSUME NEW c \in Callers, NEW op \in {"enable", "disable", "interval"}, NEW p \in Projects,
             NEW i \in Picks \cup {None}, Call(c, op, p, i)
      PROVE  TypeOK'
  <2>1. PICK seen \in Sighting(c) : \E r \in Resolve(p, seen.owner) : Called(c, op, p, i, seen, r)
    BY <1>1, CallShape
  <2>7. PICK r \in Resolve(p, seen.owner) : Called(c, op, p, i, seen, r)
    BY <2>1
  <2>2. seen \in [claimed : SUBSET Projects, owner : [Tabs -> Projects \cup {NoOne}]]
    BY SightingType
  <2>3. UNCHANGED <<hash, pane, log, name, top, held, raced, trimmed, rows>>
    BY <1>1 DEF Call, store, tabs
  <2>5. todo' \in [Callers -> Seq(Request)] /\ job' \in [Callers -> Job \cup {NoJob}]
    BY <2>7 DEF TypeOK, Whole, Called
  <2>6. memo' = NoMemo \/ memo' \in [claimed : SUBSET Projects, owner : [Tabs -> Projects \cup {NoOne}]]
    BY <2>7, <2>2 DEF TypeOK, Called
  <2> QED BY <2>3, <2>5, <2>6 DEF TypeOK
<1>2. ASSUME NEW c \in Callers, Step(c)
      PROVE  TypeOK'
  BY <1>2, StepTypes
<1>3. ASSUME NEW c \in Callers, Return(c)
      PROVE  TypeOK'
  BY <1>3 DEF Return, TypeOK, store, tabs
<1>4. ASSUME NEW c \in Callers, Stop(c)
      PROVE  TypeOK'
  <2>1. NoneHeld \in [of : SUBSET Keys, rows : SUBSET (1..rows), over : SUBSET (1..rows), val : Switch] /\ <<>> \in Seq(Request)
    BY EmptySeq DEF NoneHeld, Switch
  <2> QED BY <1>4, <2>1 DEF Stop, TypeOK, store, tabs
<1>5. ASSUME NEW t \in Tabs, Beat(t)
      PROVE  TypeOK'
  <2>1. Push(name[t]) /\ name[t] \in Keys
    BY <1>5 DEF Beat, Live, TypeOK
  <2>2. /\ rows' \in Nat /\ log' \in [Keys -> SUBSET (1..rows')] /\ trimmed' \subseteq 1..rows'
        /\ 1..rows \subseteq 1..rows'
    BY <2>1, Pushed
  <2>3. held \in [Callers -> [of : SUBSET Keys, rows : SUBSET (1..rows'), over : SUBSET (1..rows'), val : Switch]]
    BY <2>2 DEF TypeOK
  <2>4. raced \in [rows : SUBSET (1..rows'), pane : BOOLEAN]
    BY <2>2 DEF TypeOK
  <2> QED BY <1>5, <2>2, <2>3, <2>4 DEF Beat, TypeOK, tabs, running
<1>6. ASSUME NEW t \in Tabs, Arrange(t)
      PROVE  TypeOK'
  <2>1. name \in [Tabs -> Keys \cup {Closed}] /\ top \in [Tabs -> SUBSET Projects]
    BY DEF TypeOK
  <2>2. name' \in [Tabs -> Keys \cup {Closed}] /\ top' \in [Tabs -> SUBSET Projects]
    <3>1. CASE \E n \in (Keys \cup {Closed}) \ {name[t]} : name' = [name EXCEPT ![t] = n] /\ top' = top
      BY <3>1, <2>1
    <3>2. CASE \E s \in (SUBSET Projects) \ {top[t]} : top' = [top EXCEPT ![t] = s] /\ name' = name
      BY <3>2, <2>1
    <3> QED BY <3>1, <3>2, <1>6 DEF Arrange
  <2>3. job' \in [Callers -> Job \cup {NoJob}]
    BY <1>6, DisturbedType DEF Arrange, TypeOK
  <2> QED BY <1>6, <2>2, <2>3 DEF Arrange, TypeOK, store
<1>7. ASSUME NEW t \in Tabs, NEW v \in {"on", "off"}, Override(t, v)
      PROVE  TypeOK'
  <2>2. pane' \in [Keys -> Switch]
    BY <1>7 DEF Override, TypeOK, Switch
  <2>3. raced' = [raced EXCEPT !.pane = raced.pane \/ v = "on" \/ PastReading(name[t], NoOne)]
    BY <1>7 DEF Override
  <2>4. PastReading(name[t], NoOne) \in BOOLEAN
    BY DEF PastReading
  <2>5. raced' \in [rows : SUBSET (1..rows), pane : BOOLEAN]
    BY <2>3, <2>4 DEF TypeOK
  <2> QED BY <1>7, <2>2, <2>5 DEF Override, TypeOK, tabs, running
<1>8. CASE UNCHANGED vars
  BY <1>8 DEF vars, TypeOK
<1> QED BY <1>1, <1>2, <1>3, <1>4, <1>5, <1>6, <1>7, <1>8 DEF Next

----------------------------------------------------------------------------
(* What a migration keeps *)

\* Every row is somewhere, or lost in one of the two ways.
AllThere == \A b \in 1..rows : \E k \in Keys : b \in Seen(k)

\* What a log had no room for, and what a merge will find no room for, is old.
OldOnly(S) == \A b \in S : b + LogCap <= rows
OldTrimmed == OldOnly(trimmed) /\ \A c \in Callers : OldOnly(held[c].over)

\* A merge under way that has come to replace or to drop has read the two logs.
Known ==
  \A c \in Callers : todo[c] # <<>> /\ Head(todo[c]).do \in Merging \ {"rows"} =>
    Head(todo[c]).key \in held[c].of /\ Head(todo[c]).val \in held[c].of

Inv ==
  /\ TypeOK
  /\ AllThere /\ OldTrimmed /\ Known
  /\ \A c \in Callers : Chained(todo[c]) /\ Carried(c)

PaneStays == ~raced'.pane /\ (\E k \in Keys : pane[k] = "off") => \E k \in Keys : pane'[k] = "off"

\* The next call of c, and the one after it.
LEMMA NextHead ==
  ASSUME Inv, NEW c \in Callers, todo[c] # <<>>, todo' = [todo EXCEPT ![c] = Tail(todo[c])]
  PROVE  LET a == Head(todo[c])
             b == Head(todo'[c])
         IN  /\ a \in Request /\ a.key \in Keys
             /\ a.do \in Merging => a.val \in Keys /\ a.key # a.val
             /\ Chained(todo'[c])
             /\ todo'[c] # <<>> /\ b.do \in Merging \ {"rows"} => Leads(a, b)
<1>1. todo[c] \in Seq(Request) /\ Chained(todo[c]) /\ todo'[c] = Tail(todo[c])
  BY DEF Inv, TypeOK
<1>2. /\ Chained(Tail(todo[c]))
      /\ Tail(todo[c]) # <<>> => 2 \in DOMAIN todo[c] /\ Head(Tail(todo[c])) = todo[c][2]
      /\ Head(todo[c]) = todo[c][1] /\ 1 \in DOMAIN todo[c]
  BY <1>1, ChainedTail
<1>3. Head(todo[c]) \in Request
  BY <1>1, HeadTailProperties
<1>4. Head(todo[c]).do \in Merging => Head(todo[c]).key # Head(todo[c]).val
  BY <1>1, <1>2 DEF Chained
<1>5. 2 \in DOMAIN todo[c] /\ todo[c][2].do \in Merging \ {"rows"} => Leads(todo[c][1], todo[c][2])
  <2>1. 2 # 1 /\ 2 - 1 = 1
    OBVIOUS
  <2>2. 2 \in DOMAIN todo[c] /\ todo[c][2].do \in Merging \ {"rows"} => Leads(todo[c][2 - 1], todo[c][2])
    BY <1>1, <2>1 DEF Chained
  <2> QED BY <2>1, <2>2
<1> QED BY <1>1, <1>2, <1>3, <1>4, <1>5, RequestFields

\* A merge that has replaced its target's log has yet to drop the old key.
LEMMA DropAhead ==
  ASSUME Inv, NEW d \in Callers, todo[d] # <<>>, Head(todo[d]).do \in {"pane", "move", "drop"}
  PROVE  \E n \in DOMAIN todo[d] : todo[d][n].do = "drop" /\ todo[d][n].val = Target(Head(todo[d]))
<1> DEFINE s == todo[d]
<1>1. s \in Seq(Request) /\ Chained(s)
  BY DEF Inv, TypeOK
<1>2. Head(s) = s[1] /\ 1 \in DOMAIN s
  BY <1>1, ChainedTail
<1>3. \A a, b : Leads(a, b) /\ a.do = "pane" => b = Do("move", a.val, a.key)
  BY DEF Leads
<1>4. \A a, b : Leads(a, b) /\ a.do = "move" => b = Do("drop", a.val, a.key)
  BY DEF Leads
<1>5. \A q, k, v : Do(q, k, v).do = q /\ Do(q, k, v).key = k /\ Do(q, k, v).val = v
  BY DEF Do
<1> HIDE DEF s
<1>6. ASSUME NEW n \in DOMAIN s, s[n].do \in {"pane", "move"}
      PROVE  n + 1 \in DOMAIN s /\ Leads(s[n], s[n + 1])
  BY <1>1, <1>6 DEF Chained, Merging
<1>7. CASE s[1].do = "drop"
  BY <1>2, <1>7 DEF Target, s
<1>8. CASE s[1].do = "move"
  <2>1. 1 + 1 \in DOMAIN s /\ s[1 + 1] = Do("drop", s[1].val, s[1].key)
    BY <1>2, <1>4, <1>6, <1>8
  <2>2. s[1 + 1].do = "drop" /\ s[1 + 1].val = s[1].key
    BY <2>1, <1>5
  <2> QED BY <1>2, <1>8, <2>1, <2>2 DEF Target, s
<1>9. CASE s[1].do = "pane"
  <2>1. 1 + 1 \in DOMAIN s /\ s[1 + 1] = Do("move", s[1].val, s[1].key)
    BY <1>2, <1>3, <1>6, <1>9
  <2>2. s[1 + 1].do = "move" /\ s[1 + 1].key = s[1].val /\ s[1 + 1].val = s[1].key
    BY <2>1, <1>5
  <2>3. (1 + 1) + 1 \in DOMAIN s /\ s[(1 + 1) + 1] = Do("drop", s[1 + 1].val, s[1 + 1].key)
    BY <2>1, <2>2, <1>4, <1>6
  <2>4. s[(1 + 1) + 1].do = "drop" /\ s[(1 + 1) + 1].val = s[1].val
    BY <2>2, <2>3, <1>5
  <2> QED BY <1>2, <1>9, <2>3, <2>4 DEF Target, s
<1> QED BY <1>2, <1>7, <1>8, <1>9 DEF s

\* What is in the way of c's step is every other command's next call, as it was.
LEMMA OthersStand ==
  ASSUME Inv, NEW c \in Callers, Step(c), NEW d \in Callers \ {c}
  PROVE  todo'[d] = todo[d] /\ held'[d] = held[d]
BY DEF Inv, TypeOK, Step, SetField, ReadRows, ReplaceLog, ReadPane, MovePane, DropKey, Note

\* Only a merge's own first call leads to the others, and what it read stays until it is over.
LEMMA KnownKept ==
  ASSUME Inv, [Next]_vars
  PROVE  Known'
<1> SUFFICES ASSUME NEW d \in Callers, todo'[d] # <<>>, Head(todo'[d]).do \in Merging \ {"rows"}
             PROVE  Head(todo'[d]).key \in held'[d].of /\ Head(todo'[d]).val \in held'[d].of
  BY DEF Known
<1> DEFINE Goal == Head(todo'[d]).key \in held'[d].of /\ Head(todo'[d]).val \in held'[d].of
<1>0. todo'[d] = todo[d] /\ held'[d] = held[d] => Goal
  BY DEF Inv, Known
<1>1. ASSUME NEW c \in Callers, NEW op \in {"enable", "disable", "interval"}, NEW p \in Projects,
             NEW i \in Picks \cup {None}, Call(c, op, p, i)
      PROVE  Goal
  <2>1. PICK seen \in Sighting(c) : \E r \in Resolve(p, seen.owner) : Called(c, op, p, i, seen, r)
    BY <1>1, CallShape DEF Inv
  <2>2. PICK r \in Resolve(p, seen.owner) : Called(c, op, p, i, seen, r)
    BY <2>1
  <2>3. held' = held
    BY <1>1 DEF Call
  <2>4. todo'[c] = CallsOf(op, p, r, i) /\ \A e \in Callers \ {c} : todo'[e] = todo[e]
    BY <2>2 DEF Inv, TypeOK, Called
  <2>5. todo'[c] # <<>> => Head(todo'[c]).do \notin Merging \ {"rows"}
    BY <2>2, <2>4 DEF Whole, Called
  <2> QED BY <1>0, <2>3, <2>4, <2>5
<1>2. ASSUME NEW c \in Callers, Step(c)
      PROVE  Goal
  <2>1. CASE c # d
    BY <1>0, <1>2, <2>1, OthersStand
  <2>2. CASE c = d
    <3> DEFINE a == Head(todo[c])
    <3>1. todo[c] # <<>> /\ todo' = [todo EXCEPT ![c] = Tail(todo[c])]
      BY <1>2 DEF Step
    <3>2. Leads(a, Head(todo'[c]))
      BY <2>2, <3>1, NextHead
    <3>3. /\ Head(todo'[c]).key = a.val /\ Head(todo'[c]).val = a.key
          /\ a.do \in {"rows", "replace", "pane", "move"}
      BY <3>2 DEF Leads, Do
    <3>4. CASE a.do = "rows"
      <4>1. ReadRows(c, a)
        BY <1>2, <3>4 DEF Step, SetField, ReplaceLog, ReadPane, MovePane, DropKey, Note
      <4>2. held'[c].of = {a.key, a.val}
        BY <4>1 DEF ReadRows, Inv, TypeOK
      <4> QED BY <2>2, <3>3, <4>2
    <3>5. CASE a.do # "rows"
      <4>1. a.key \in held[c].of /\ a.val \in held[c].of
        BY <3>1, <3>3, <3>5 DEF Inv, Known, Merging
      <4>2. ReplaceLog(c, a) \/ ReadPane(c, a) \/ MovePane(c, a)
        BY <1>2, <3>3, <3>5 DEF Step, SetField, ReadRows, DropKey, Note
      <4>3. held'[c].of = held[c].of
        BY <4>2 DEF ReplaceLog, ReadPane, MovePane, Inv, TypeOK
      <4> QED BY <2>2, <3>3, <4>1, <4>3
    <3> QED BY <3>4, <3>5
  <2> QED BY <2>1, <2>2
<1>3. ASSUME NEW c \in Callers, Return(c)
      PROVE  Goal
  BY <1>0, <1>3 DEF Return
<1>4. ASSUME NEW c \in Callers, Stop(c)
      PROVE  Goal
  BY <1>0, <1>4 DEF Stop, Inv, TypeOK
<1>5. ASSUME NEW t \in Tabs, Beat(t) \/ Arrange(t) \/ \E v \in {"on", "off"} : Override(t, v)
      PROVE  Goal
  BY <1>0, <1>5 DEF Beat, Arrange, Override, running
<1>6. CASE UNCHANGED vars
  BY <1>0, <1>6 DEF vars
<1> QED BY <1>1, <1>2, <1>3, <1>4, <1>5, <1>6 DEF Next

LEMMA SetFieldKept ==
  ASSUME Inv, NEW c \in Callers, Step(c), SetField(c, Head(todo[c]))
  PROVE  AllThere' /\ OldTrimmed' /\ PaneStays /\ \A d \in Callers : Carried(d)'
<1>1. UNCHANGED <<pane, log, held, raced, trimmed, rows>>
  BY DEF SetField, Step
<1>2. todo[c] # <<>> /\ todo' = [todo EXCEPT ![c] = Tail(todo[c])]
  BY DEF Step
<1>3. Carried(c)'
  BY <1>2, NextHead DEF SetField, Carried, Leads, Merging
<1>4. ASSUME NEW d \in Callers \ {c} PROVE Carried(d)'
  BY <1>1, OthersStand DEF Inv, Carried, Seen
<1> QED BY <1>1, <1>3, <1>4 DEF Inv, AllThere, OldTrimmed, OldOnly, Seen, PaneStays

LEMMA ReadRowsKept ==
  ASSUME Inv, NEW c \in Callers, Step(c), ReadRows(c, Head(todo[c]))
  PROVE  AllThere' /\ OldTrimmed' /\ PaneStays /\ \A d \in Callers : Carried(d)'
<1>1. UNCHANGED <<pane, log, raced, trimmed, rows>>
  BY DEF ReadRows, Step, store
<1>2. todo[c] # <<>> /\ todo' = [todo EXCEPT ![c] = Tail(todo[c])]
  BY DEF Step
<1>3. Carried(c)'
  <2> DEFINE a == Head(todo[c])
  <2>1. todo'[c] # <<>> /\ Head(todo'[c]).do \in {"pane", "move", "drop"} =>
          Head(todo'[c]) = Do("replace", a.val, a.key)
    BY <1>2, NextHead DEF ReadRows, Leads, Merging
  <2>2. Do("replace", a.val, a.key).do = "replace"
    BY DEF Do
  <2> QED BY <2>1, <2>2 DEF Carried
<1>4. ASSUME NEW d \in Callers \ {c} PROVE Carried(d)'
  BY <1>1, OthersStand DEF Inv, Carried, Seen
<1>5. OldTrimmed'
  <2> DEFINE a == Head(todo[c])
             S == log[a.key] \cup log[a.val]
  <2>1. a.key \in Keys /\ a.val \in Keys /\ rows \in Nat
    BY <1>2, NextHead DEF ReadRows, Merging, Inv, TypeOK
  <2>2. S \in SUBSET (1..rows)
    BY <2>1 DEF Inv, TypeOK
  <2>3. held' = [held EXCEPT ![c] = [of |-> {a.key, a.val}, rows |-> Newest(S),
                                       over |-> S \ Newest(S), val |-> held[c].val]]
    BY DEF ReadRows
  <2> HIDE DEF S
  <2>4. \A b \in S \ Newest(S) : b + LogCap <= rows
    BY <2>1, <2>2, NewestOf
  <2>5. held'[c].over = S \ Newest(S) /\ \A d \in Callers \ {c} : held'[d].over = held[d].over
    BY <2>3 DEF Inv, TypeOK
  <2> QED BY <2>4, <2>5, <1>1 DEF Inv, OldTrimmed, OldOnly
<1> QED BY <1>1, <1>3, <1>4, <1>5 DEF Inv, AllThere, Seen, PaneStays

\* What the target's log had, beside what was read, came in between; of what was read,
\* there is no room for the oldest.
LEMMA ReplaceLogKept ==
  ASSUME Inv, NEW c \in Callers, Step(c), ReplaceLog(c, Head(todo[c]))
  PROVE  AllThere' /\ OldTrimmed' /\ PaneStays /\ \A d \in Callers : Carried(d)'
<1> DEFINE a == Head(todo[c])
<1>1. UNCHANGED <<pane, held, rows>> /\ a.do = "replace"
  BY DEF ReplaceLog, Step
<1>2. todo[c] # <<>> /\ todo' = [todo EXCEPT ![c] = Tail(todo[c])]
  BY DEF Step
<1>3. a.key \in Keys
  BY <1>2, NextHead
<1>4. /\ log \in [Keys -> SUBSET (1..rows)]
      /\ raced \in [rows : SUBSET (1..rows), pane : BOOLEAN]
  BY DEF Inv, TypeOK
<1>5. /\ log' = [log EXCEPT ![a.key] = held[c].rows]
      /\ raced'.rows = raced.rows \cup (log[a.key] \ (held[c].rows \cup held[c].over))
      /\ raced'.pane = raced.pane /\ trimmed' = trimmed \cup (log[a.key] \cap held[c].over)
  <2>1. a.key \in held[c].of
    BY <1>1, <1>2 DEF Inv, Known, Merging
  <2> QED BY <1>4, <2>1 DEF ReplaceLog, Since, Surplus
<1>6. \A k \in Keys : Seen(k) \subseteq Seen(k)'
  BY <1>3, <1>4, <1>5 DEF Seen
<1>7. Carried(c)'
  <2>1. todo'[c] # <<>> /\ Head(todo'[c]).do \in {"pane", "move", "drop"} =>
          Head(todo'[c]) = Do("pane", a.val, a.key)
    BY <1>1, <1>2, NextHead DEF Leads, Merging
  <2>2. Do("pane", a.val, a.key).do = "pane" /\ Target(Do("pane", a.val, a.key)) = a.key
    BY DEF Do, Target
  <2>3. held'[c].rows \subseteq log'[a.key]
    BY <1>1, <1>3, <1>4, <1>5
  <2> QED BY <2>1, <2>2, <2>3 DEF Carried, Seen
<1>8. ASSUME NEW d \in Callers \ {c} PROVE Carried(d)'
  <2>1. todo'[d] = todo[d] /\ held'[d] = held[d] /\ Carried(d)
    BY OthersStand DEF Inv
  <2>2. todo[d] # <<>> /\ Head(todo[d]).do \in {"pane", "move", "drop"} => Target(Head(todo[d])) \in Keys
    BY HeadType, RequestFields DEF Target, Merging, Inv
  <2> QED BY <2>1, <2>2, <1>1, <1>5, <1>6 DEF Carried
<1>9. AllThere'
  BY <1>1, <1>6 DEF Inv, AllThere
<1>10. OldTrimmed'
  BY <1>1, <1>5 DEF Inv, OldTrimmed, OldOnly
<1> QED BY <1>1, <1>7, <1>8, <1>9, <1>10 DEF PaneStays

LEMMA ReadPaneKept ==
  ASSUME Inv, NEW c \in Callers, Step(c), ReadPane(c, Head(todo[c]))
  PROVE  AllThere' /\ OldTrimmed' /\ PaneStays /\ \A d \in Callers : Carried(d)'
<1> DEFINE a == Head(todo[c])
<1>1. UNCHANGED <<pane, log, raced, trimmed, rows>> /\ a.do = "pane"
  BY DEF ReadPane, Step, store
<1>2. todo[c] # <<>> /\ todo' = [todo EXCEPT ![c] = Tail(todo[c])]
  BY DEF Step
<1>3. /\ held'[c].rows = held[c].rows /\ \A d \in Callers : held'[d].over = held[d].over
      /\ held'[c].val = IF pane[a.key] = "none" THEN "none"
                        ELSE IF "off" \in {pane[a.key], pane[a.val]} THEN "off" ELSE "on"
  BY DEF ReadPane, Inv, TypeOK
<1>4. Carried(c)'
  <2>1. todo'[c] # <<>> /\ Head(todo'[c]).do \in {"pane", "move", "drop"} =>
          Head(todo'[c]) = Do("move", a.val, a.key)
    BY <1>1, <1>2, NextHead DEF Leads, Merging
  <2> DEFINE b == Do("move", a.val, a.key)
  <2>2. b.do = "move" /\ Target(b) = a.val /\ b.key = a.val /\ b.val = a.key
    BY DEF Do, Target
  <2> HIDE DEF b
  <2>3. held[c].rows \subseteq Seen(a.val)
    BY <1>1, <1>2 DEF Inv, Carried, Target
  <2> QED BY <1>1, <1>3, <2>1, <2>2, <2>3 DEF Carried, Seen, b
<1>5. ASSUME NEW d \in Callers \ {c} PROVE Carried(d)'
  BY <1>1, OthersStand DEF Inv, Carried, Seen
<1> QED BY <1>1, <1>3, <1>4, <1>5 DEF Inv, AllThere, OldTrimmed, OldOnly, Seen, PaneStays


LEMMA MovePaneKept ==
  ASSUME Inv, NEW c \in Callers, Step(c), MovePane(c, Head(todo[c]))
  PROVE  AllThere' /\ OldTrimmed' /\ PaneStays /\ \A d \in Callers : Carried(d)'
<1> DEFINE a == Head(todo[c])
<1>1. UNCHANGED <<log, held, trimmed, rows>> /\ a.do = "move"
  BY DEF MovePane, Step
<1>2. todo[c] # <<>> /\ todo' = [todo EXCEPT ![c] = Tail(todo[c])]
  BY DEF Step
<1>3. a.key \in Keys /\ a.val \in Keys /\ a.key # a.val
  BY <1>1, <1>2, NextHead DEF Merging
<1>4. pane \in [Keys -> Switch] /\ raced \in [rows : SUBSET (1..rows), pane : BOOLEAN]
  BY DEF Inv, TypeOK
<1>5. /\ raced'.rows = raced.rows
      /\ ~raced'.pane => ~raced.pane /\ (pane' = pane \/ ~PastReading(a.key, c))
  BY <1>4 DEF MovePane
<1>6. /\ held[c].val = "none" => pane' = pane
      /\ held[c].val # "none" => pane' = [pane EXCEPT ![a.key] = held[c].val]
  BY DEF MovePane
<1>7. /\ held[c].rows \subseteq Seen(a.key)
      /\ ~raced.pane /\ held[c].val # "none" => ("off" \in {pane[a.key], pane[a.val]} => held[c].val = "off")
  BY <1>1, <1>2 DEF Inv, Carried, Target
<1>8. \A k \in Keys : ~raced'.pane /\ pane[k] = "off" => pane'[k] = "off"
  BY <1>3, <1>4, <1>5, <1>6, <1>7
<1>9. Carried(c)'
  <2>1. todo'[c] # <<>> /\ Head(todo'[c]).do \in {"pane", "move", "drop"} =>
          Head(todo'[c]) = Do("drop", a.val, a.key)
    BY <1>1, <1>2, NextHead DEF Leads, Merging
  <2> DEFINE b == Do("drop", a.val, a.key)
  <2>2. b.do = "drop" /\ Target(b) = a.key /\ b.key = a.val /\ b.val = a.key
    BY DEF Do, Target
  <2> HIDE DEF b
  <2>3. ~raced'.pane /\ held[c].val # "none" => (pane'[a.val] = "off" => pane'[a.key] = "off")
    BY <1>3, <1>4, <1>5, <1>6, <1>7
  <2> QED BY <1>1, <1>5, <1>7, <2>1, <2>2, <2>3 DEF Carried, Seen, b
<1>10. ASSUME NEW d \in Callers \ {c} PROVE Carried(d)'
  <2> DEFINE b == Head(todo[d])
  <2>1. todo'[d] = todo[d] /\ held'[d] = held[d] /\ Carried(d)
    BY OthersStand DEF Inv
  <2>2. todo[d] # <<>> /\ b.do \in {"move", "drop"} => b.key \in Keys /\ b.val \in Keys
    BY HeadType, RequestFields DEF Merging, Inv
  <2>3. ASSUME todo[d] # <<>>, b.do = "move", ~raced'.pane, held[d].val # "none",
               "off" \in {pane'[b.key], pane'[b.val]}
        PROVE  held[d].val = "off"
    <3>1. pane' = pane \/ a.key \notin {b.key, b.val}
      BY <1>5, <2>3 DEF PastReading
    <3>2. pane'[b.key] = pane[b.key] /\ pane'[b.val] = pane[b.val]
      BY <3>1, <2>2, <2>3, <1>4, <1>6
    <3> QED BY <3>2, <2>1, <2>3, <1>5 DEF Carried
  <2>4. ASSUME todo[d] # <<>>, b.do = "drop", ~raced'.pane, held[d].val # "none", pane'[b.key] = "off"
        PROVE  pane'[b.val] = "off"
    <3>1. pane' = pane \/ a.key # b.key
      BY <1>5, <2>4 DEF PastReading
    <3>2. pane'[b.key] = pane[b.key]
      BY <3>1, <2>2, <2>4, <1>4, <1>6
    <3>3. pane[b.val] = "off"
      BY <3>2, <2>1, <2>4, <1>5 DEF Carried
    <3> QED BY <3>3, <2>2, <2>4, <1>8
  <2> HIDE DEF b
  <2>5. todo[d] # <<>> /\ b.do \in {"pane", "move", "drop"} => held'[d].rows \subseteq Seen(Target(b))'
    BY <1>1, <1>5, <2>1 DEF Carried, Seen, b
  <2> QED BY <2>1, <2>3, <2>4, <2>5 DEF Carried, b
<1> QED BY <1>1, <1>5, <1>8, <1>9, <1>10 DEF PaneStays, Inv, AllThere, OldTrimmed, OldOnly, Seen

\* What is deleted was carried over, or there was no room for it, or it came in between; and a command that was
\* about to bring something to the key that is deleted is one that came in between.
LEMMA DropKeyKept ==
  ASSUME Inv, NEW c \in Callers, Step(c), DropKey(c, Head(todo[c]))
  PROVE  AllThere' /\ OldTrimmed' /\ PaneStays /\ \A d \in Callers : Carried(d)'
<1> DEFINE a == Head(todo[c])
<1>1. a.do = "drop" /\ UNCHANGED rows
  BY DEF DropKey, Step
<1>2. todo[c] # <<>> /\ todo' = [todo EXCEPT ![c] = Tail(todo[c])]
  BY DEF Step
<1>3. a.key \in Keys /\ a.val \in Keys /\ a.key # a.val
  BY <1>1, <1>2, NextHead DEF Merging
<1>4. /\ pane \in [Keys -> Switch] /\ raced \in [rows : SUBSET (1..rows), pane : BOOLEAN]
      /\ log \in [Keys -> SUBSET (1..rows)] /\ held \in [Callers -> [of : SUBSET Keys, rows : SUBSET (1..rows), over : SUBSET (1..rows), val : Switch]]
  BY DEF Inv, TypeOK
<1>5. /\ raced'.rows = raced.rows \cup (log[a.key] \ (held[c].rows \cup held[c].over))
                          \cup UNION {held[d].rows : d \in MergingInto(a.key, c)}
      /\ ~raced'.pane => /\ ~raced.pane /\ MergingInto(a.key, c) = {}
                         /\ pane' = pane \/ ~PastReading(a.key, c)
      /\ trimmed' = trimmed \cup (log[a.key] \cap held[c].over)
  <2>1. a.key \in held[c].of
    BY <1>1, <1>2 DEF Inv, Known, Merging
  <2> QED BY <2>1 DEF DropKey, Since, Surplus
<1>6. /\ held[c].val = "none" => pane' = pane
      /\ held[c].val # "none" => pane' = [pane EXCEPT ![a.key] = "none"]
      /\ log' = [log EXCEPT ![a.key] = {}] /\ held' = [held EXCEPT ![c] = NoneHeld]
  BY DEF DropKey
<1>7. /\ held[c].rows \subseteq Seen(a.val)
      /\ ~raced.pane /\ held[c].val # "none" => (pane[a.key] = "off" => pane[a.val] = "off")
  BY <1>1, <1>2 DEF Inv, Carried, Target
<1>8. \A k \in Keys \ {a.key} : log'[k] = log[k] /\ pane'[k] = pane[k]
  BY <1>4, <1>6
<1>9. AllThere'
  <2>1. \A k \in Keys \ {a.key} : Seen(k) \subseteq raced'.rows \cup trimmed' \cup log'[k]
    BY <1>5, <1>8 DEF Seen
  <2>2. Seen(a.key) \subseteq raced'.rows \cup trimmed' \cup log'[a.val]
    <3>1. Seen(a.val) \subseteq raced'.rows \cup trimmed' \cup log'[a.val]
      BY <1>3, <2>1
    <3>2. log[a.key] \subseteq held[c].rows \cup raced'.rows \cup trimmed'
      BY <1>5
    <3> QED BY <3>1, <3>2, <1>5, <1>7 DEF Seen
  <2>3. ASSUME NEW b \in 1..rows PROVE \E k \in Keys : b \in raced'.rows \cup trimmed' \cup log'[k]
    <3>1. PICK k \in Keys : b \in Seen(k)
      BY DEF Inv, AllThere
    <3>2. CASE k = a.key
      BY <3>1, <3>2, <2>2, <1>3
    <3>3. CASE k # a.key
      BY <3>1, <3>3, <2>1
    <3> QED BY <3>2, <3>3
  <2> QED BY <2>3, <1>1 DEF AllThere, Seen
<1>13. OldTrimmed'
  <2>1. OldOnly(held[c].over) /\ OldOnly(trimmed) /\ \A d \in Callers : OldOnly(held[d].over)
    BY DEF Inv, OldTrimmed
  <2>2. \A d \in Callers : held'[d].over \subseteq held[d].over
    BY <1>4, <1>6 DEF NoneHeld
  <2> QED BY <2>1, <2>2, <1>1, <1>5 DEF OldTrimmed, OldOnly
<1>10. PaneStays
  BY <1>3, <1>5, <1>6, <1>7, <1>8 DEF PaneStays
<1>11. Carried(c)'
  <2>1. todo'[c] # <<>> => Head(todo'[c]).do \notin {"pane", "move", "drop"}
    BY <1>1, <1>2, NextHead DEF Leads, Merging
  <2> QED BY <2>1 DEF Carried
<1>12. ASSUME NEW d \in Callers \ {c} PROVE Carried(d)'
  <2> DEFINE b == Head(todo[d])
             t == Target(b)
  <2>1. todo'[d] = todo[d] /\ held'[d] = held[d] /\ Carried(d)
    BY OthersStand DEF Inv
  <2>2. todo[d] # <<>> /\ b.do \in {"pane", "move", "drop"} =>
          b.key \in Keys /\ b.val \in Keys /\ t \in Keys /\ (t = a.key => d \in MergingInto(a.key, c))
    BY HeadType, RequestFields, DropAhead DEF Target, Merging, MergingInto, Inv
  <2>3. (b.do = "move" => t = b.key) /\ (b.do = "drop" => t = b.val)
    BY DEF Target
  <2> HIDE DEF t
  <2>4. ASSUME todo[d] # <<>>, b.do \in {"pane", "move", "drop"}
        PROVE  held[d].rows \subseteq raced'.rows \cup trimmed' \cup log'[t]
    <3>1. held[d].rows \subseteq Seen(t)
      BY <2>1, <2>4 DEF Carried, t
    <3>2. CASE t = a.key
      <4>1. d \in MergingInto(a.key, c)
        BY <2>2, <2>4, <3>2
      <4> QED BY <4>1, <1>5
    <3>3. CASE t # a.key
      BY <3>1, <3>3, <2>2, <2>4, <1>5, <1>8 DEF Seen
    <3> QED BY <3>2, <3>3
  <2>5. ASSUME todo[d] # <<>>, b.do = "move", ~raced'.pane, held[d].val # "none",
               "off" \in {pane'[b.key], pane'[b.val]}
        PROVE  held[d].val = "off"
    <3>1. pane' = pane \/ a.key \notin {b.key, b.val}
      BY <1>5, <2>5 DEF PastReading
    <3>2. pane'[b.key] = pane[b.key] /\ pane'[b.val] = pane[b.val]
      BY <3>1, <2>2, <2>5, <1>8
    <3> QED BY <3>2, <2>1, <2>5, <1>5 DEF Carried
  <2>6. ASSUME todo[d] # <<>>, b.do = "drop", ~raced'.pane, held[d].val # "none", pane'[b.key] = "off"
        PROVE  pane'[b.val] = "off"
    <3>1. pane' = pane \/ a.key # b.key
      BY <1>5, <2>6 DEF PastReading
    <3>2. pane'[b.key] = pane[b.key]
      BY <3>1, <2>2, <2>6, <1>8
    <3>3. pane[b.val] = "off"
      BY <3>2, <2>1, <2>6, <1>5 DEF Carried
    <3>4. b.val # a.key
      BY <1>5, <2>2, <2>3, <2>6
    <3> QED BY <3>3, <3>4, <2>2, <2>6, <1>8
  <2> HIDE DEF b
  <2> QED BY <2>1, <2>4, <2>5, <2>6 DEF Carried, Seen, b, t
<1> QED BY <1>9, <1>10, <1>11, <1>12, <1>13

\* A row that is pushed is in its log, and pushes out only what is old.
LEMMA PushKept ==
  ASSUME Inv, NEW k \in Keys, Push(k), UNCHANGED <<held, raced>>
  PROVE  AllThere' /\ OldTrimmed' /\ \A j \in Keys : Seen(j) \subseteq Seen(j)'
<1>1. /\ rows \in Nat /\ rows' = rows + 1 /\ trimmed \subseteq trimmed'
      /\ \A b \in trimmed' \ trimmed : b + LogCap <= rows'
      /\ \A j \in Keys : log[j] \subseteq log'[j] \cup trimmed'
      /\ rows' \in log'[k] \cup trimmed'
  BY Pushed DEF Inv
<1>2. \A j \in Keys : Seen(j) \subseteq Seen(j)'
  BY <1>1 DEF Seen
<1>3. AllThere'
  <2>1. ASSUME NEW b \in 1..rows' PROVE \E j \in Keys : b \in Seen(j)'
    <3>1. CASE b = rows'
      BY <3>1, <1>1 DEF Seen
    <3>2. CASE b \in 1..rows
      BY <3>2, <1>2 DEF Inv, AllThere
    <3> QED BY <3>1, <3>2, <1>1
  <2> QED BY <2>1 DEF AllThere
<1>4. OldTrimmed'
  <2>1. LogCap \in Nat /\ trimmed \subseteq 1..rows /\ \A c \in Callers : held[c].over \subseteq 1..rows
    BY CrankAssumption DEF Inv, TypeOK
  <2>2. \A b \in 1..rows : b + LogCap <= rows => b + LogCap <= rows'
    BY <1>1, <2>1
  <2>3. OldOnly(trimmed) /\ \A c \in Callers : OldOnly(held[c].over)
    BY DEF Inv, OldTrimmed
  <2>4. OldOnly(trimmed)'
    BY <1>1, <2>1, <2>2, <2>3 DEF OldOnly
  <2>5. ASSUME NEW c \in Callers PROVE OldOnly(held[c].over)'
    BY <2>1, <2>2, <2>3 DEF OldOnly
  <2> QED BY <2>4, <2>5 DEF OldTrimmed
<1> QED BY <1>2, <1>3, <1>4

LEMMA NoteKept ==
  ASSUME Inv, NEW c \in Callers, Step(c), Note(c, Head(todo[c]))
  PROVE  AllThere' /\ OldTrimmed' /\ PaneStays /\ \A d \in Callers : Carried(d)'
<1> DEFINE a == Head(todo[c])
<1>1. UNCHANGED <<pane, held, raced>> /\ a.do = "log" /\ Push(a.key)
  BY DEF Note
<1>2. todo[c] # <<>> /\ todo' = [todo EXCEPT ![c] = Tail(todo[c])]
  BY DEF Step
<1>3. a.key \in Keys
  BY <1>2, NextHead
<1>4. AllThere' /\ OldTrimmed' /\ \A j \in Keys : Seen(j) \subseteq Seen(j)'
  BY <1>1, <1>3, PushKept
<1>5. Carried(c)'
  BY <1>1, <1>2, NextHead DEF Carried, Leads, Merging
<1>6. ASSUME NEW d \in Callers \ {c} PROVE Carried(d)'
  <2>1. todo'[d] = todo[d] /\ held'[d] = held[d] /\ Carried(d)
    BY OthersStand DEF Inv
  <2>2. todo[d] # <<>> /\ Head(todo[d]).do \in {"pane", "move", "drop"} => Target(Head(todo[d])) \in Keys
    BY HeadType, RequestFields DEF Target, Merging, Inv
  <2> QED BY <2>1, <2>2, <1>1, <1>4 DEF Carried
<1> QED BY <1>1, <1>4, <1>5, <1>6 DEF PaneStays

\* Some first keys hold the rows of before.
LEMMA InitInv == Init => Inv
<1> SUFFICES ASSUME Init PROVE Inv
  OBVIOUS
<1>1. TypeOK
  BY InitTypes
<1>2. \A c \in Callers : todo[c] = <<>>
  BY DEF Init
<1>3. Known /\ \A c \in Callers : Chained(todo[c]) /\ Carried(c)
  BY <1>2 DEF Chained, Carried, Known
<1>4. AllThere
  <2>1. PICK old \in Legacy : log = old.log /\ rows = Cardinality(UNION {old.log[k] : k \in Keys})
    BY DEF Init
  <2>2. PICK n \in 0..(LogCap * Cardinality(Keys)) : UNION {old.log[k] : k \in Keys} = 1..n
    BY CrankAssumption
  <2>3. n \in Nat
    BY <2>2
  <2>4. Cardinality(1..n) = n
    BY <2>3, FS_Interval
  <2>5. ASSUME NEW b \in 1..n PROVE \E k \in Keys : b \in log[k]
    BY <2>5, <2>1, <2>2
  <2>6. rows = n
    BY <2>1, <2>2, <2>4
  <2> QED BY <2>5, <2>6 DEF AllThere, Seen
<1>5. OldTrimmed
  BY DEF Init, NoneHeld, OldTrimmed, OldOnly
<1> QED BY <1>1, <1>3, <1>4, <1>5 DEF Inv

LEMMA NextInv == Inv /\ [Next]_vars => Inv' /\ PaneStays
<1> SUFFICES ASSUME Inv, [Next]_vars PROVE Inv' /\ PaneStays
  OBVIOUS
<1>0. TypeOK' /\ Known'
  BY NextTypes, KnownKept DEF Inv
<1>1. ASSUME NEW c \in Callers, NEW op \in {"enable", "disable", "interval"}, NEW p \in Projects,
             NEW i \in Picks \cup {None}, Call(c, op, p, i)
      PROVE  Inv' /\ PaneStays
  <2>1. PICK seen \in Sighting(c) : \E r \in Resolve(p, seen.owner) : Called(c, op, p, i, seen, r)
    BY <1>1, CallShape DEF Inv
  <2>2. PICK r \in Resolve(p, seen.owner) : Called(c, op, p, i, seen, r)
    BY <2>1
  <2>3. UNCHANGED <<hash, pane, log, held, raced, trimmed, rows>>
    BY <1>1 DEF Call, store
  <2>4. todo'[c] = CallsOf(op, p, r, i) /\ \A d \in Callers \ {c} : todo'[d] = todo[d]
    BY <2>2 DEF Inv, TypeOK, Called
  <2>5. Chained(todo'[c]) /\ (todo'[c] # <<>> => Head(todo'[c]).do \notin Merging \ {"rows"})
    BY <2>2, <2>4 DEF Whole, Called
  <2>6. Chained(todo[c])' /\ Carried(c)'
    BY <2>5 DEF Carried, Merging
  <2>7. \A d \in Callers \ {c} : Chained(todo[d])' /\ Carried(d)'
    BY <2>3, <2>4 DEF Carried, Seen, Inv
  <2> QED BY <1>0, <2>3, <2>6, <2>7 DEF Inv, AllThere, OldTrimmed, OldOnly, Seen, PaneStays
<1>2. ASSUME NEW c \in Callers, Step(c)
      PROVE  Inv' /\ PaneStays
  <2>1. AllThere' /\ OldTrimmed' /\ PaneStays /\ \A d \in Callers : Carried(d)'
    BY <1>2, SetFieldKept, ReadRowsKept, ReplaceLogKept, ReadPaneKept, MovePaneKept, DropKeyKept,
       NoteKept DEF Step
  <2>2. todo[c] # <<>> /\ todo' = [todo EXCEPT ![c] = Tail(todo[c])]
    BY <1>2 DEF Step
  <2>3. Chained(todo'[c])
    BY <2>2, NextHead
  <2>4. \A d \in Callers \ {c} : Chained(todo'[d])
    BY <1>2, OthersStand DEF Inv
  <2> QED BY <1>0, <2>1, <2>3, <2>4 DEF Inv
<1>3. ASSUME NEW c \in Callers, Return(c)
      PROVE  Inv' /\ PaneStays
  BY <1>0, <1>3 DEF Return, store, Inv, AllThere, OldTrimmed, OldOnly, Seen, PaneStays, Carried, Chained
<1>4. ASSUME NEW c \in Callers, Stop(c)
      PROVE  Inv' /\ PaneStays
  <2>1. UNCHANGED <<pane, log, raced, trimmed, rows>>
    BY <1>4 DEF Stop, store
  <2>2. todo'[c] = <<>> /\ \A d \in Callers \ {c} : todo'[d] = todo[d] /\ held'[d] = held[d]
    BY <1>4 DEF Stop, Inv, TypeOK
  <2>3. Chained(todo[c])' /\ Carried(c)'
    BY <2>2 DEF Chained, Carried
  <2>4. \A d \in Callers \ {c} : Chained(todo[d])' /\ Carried(d)'
    BY <2>1, <2>2 DEF Carried, Seen, Inv
  <2>5. \A d \in Callers : held'[d].over \subseteq held[d].over
    BY <1>4 DEF Stop, NoneHeld, Inv, TypeOK
  <2>6. OldTrimmed'
    BY <2>1, <2>5 DEF Inv, OldTrimmed, OldOnly
  <2> QED BY <1>0, <2>1, <2>3, <2>4, <2>6 DEF Inv, AllThere, Seen, PaneStays
<1>5. ASSUME NEW t \in Tabs, Beat(t)
      PROVE  Inv' /\ PaneStays
  <2>1. UNCHANGED <<pane, todo, held, raced>> /\ Push(name[t]) /\ name[t] \in Keys
    BY <1>5 DEF Beat, running, Live, Inv, TypeOK
  <2>2. AllThere' /\ OldTrimmed' /\ \A j \in Keys : Seen(j) \subseteq Seen(j)'
    BY <2>1, PushKept
  <2>3. ASSUME NEW d \in Callers PROVE Carried(d)'
    <3>1. Carried(d)
      BY DEF Inv
    <3>2. todo[d] # <<>> /\ Head(todo[d]).do \in {"pane", "move", "drop"} => Target(Head(todo[d])) \in Keys
      BY HeadType, RequestFields DEF Target, Merging, Inv
    <3> QED BY <3>1, <3>2, <2>1, <2>2 DEF Carried
  <2> QED BY <1>0, <2>1, <2>2, <2>3 DEF Inv, PaneStays
<1>6. ASSUME NEW t \in Tabs, Arrange(t)
      PROVE  Inv' /\ PaneStays
  BY <1>0, <1>6 DEF Arrange, store, Inv, AllThere, OldTrimmed, OldOnly, Seen, PaneStays, Carried, Chained
<1>7. ASSUME NEW t \in Tabs, NEW v \in {"on", "off"}, Override(t, v)
      PROVE  Inv' /\ PaneStays
  <2>1. UNCHANGED <<log, todo, held, trimmed, rows>> /\ pane' = [pane EXCEPT ![name[t]] = v]
    BY <1>7 DEF Override, running
  <2>2. name[t] \in Keys /\ pane \in [Keys -> Switch] /\ raced \in [rows : SUBSET (1..rows), pane : BOOLEAN]
    BY <1>7 DEF Override, Live, Inv, TypeOK
  <2>3. /\ raced'.rows = raced.rows
        /\ ~raced'.pane => ~raced.pane /\ v # "on" /\ ~PastReading(name[t], NoOne)
    BY <1>7, <2>2 DEF Override
  <2>4. \A k \in Keys : ~raced'.pane /\ pane[k] = "off" => pane'[k] = "off"
    BY <2>1, <2>2, <2>3
  <2>5. ASSUME NEW d \in Callers PROVE Carried(d)'
    <3> DEFINE b == Head(todo[d])
    <3>1. Carried(d) /\ d # NoOne
      BY CrankAssumption DEF Inv
    <3>2. todo[d] # <<>> /\ b.do \in {"move", "drop"} => b.key \in Keys /\ b.val \in Keys
      BY HeadType, RequestFields DEF Merging, Inv
    <3>3. ASSUME todo[d] # <<>>, b.do = "move", ~raced'.pane
          PROVE  pane'[b.key] = pane[b.key] /\ pane'[b.val] = pane[b.val]
      BY <2>1, <2>2, <2>3, <3>1, <3>2, <3>3 DEF PastReading
    <3>4. ASSUME todo[d] # <<>>, b.do = "drop", ~raced'.pane, held[d].val # "none"
          PROVE  pane'[b.key] = pane[b.key] /\ (pane[b.val] = "off" => pane'[b.val] = "off")
      <4>1. name[t] # b.key
        BY <2>3, <3>1, <3>4 DEF PastReading
      <4> QED BY <4>1, <2>1, <2>2, <2>4, <3>2, <3>4
    <3> HIDE DEF b
    <3> QED BY <2>1, <2>3, <3>1, <3>3, <3>4 DEF Carried, Seen, b
  <2> QED BY <1>0, <2>1, <2>3, <2>4, <2>5 DEF Inv, AllThere, OldTrimmed, OldOnly, Seen, PaneStays
<1>8. CASE UNCHANGED vars
  BY <1>0, <1>8 DEF vars, Inv, AllThere, OldTrimmed, OldOnly, Seen, PaneStays, Carried, Chained
<1> QED BY <1>1, <1>2, <1>3, <1>4, <1>5, <1>6, <1>7, <1>8 DEF Next

----------------------------------------------------------------------------
(* What a command that nothing disturbs leaves behind *)

Fields == {"on", "root", "interval"}
Sent(c) == Range(todo[c])
Same(a, b) == Canon[a] # "" /\ Canon[a] = Canon[b]

\* What c has yet to send leaves v in field f of key k.
Becomes(c, k, f, v) ==
  /\ \A q \in Sent(c) : q.key = k => q.do # "drop" /\ (q.do = f => q.val = v)
  /\ hash[k][f] = v \/ \E q \in Sent(c) : q.do = f /\ q.key = k

\* What c has yet to send leaves no key k.
Vanishes(c, k) ==
  /\ \A q \in Sent(c) : q.key = k => q.do \notin Fields
  /\ hash[k] = NoHash \/ \E q \in Sent(c) : q.do = "drop" /\ q.key = k

\* The spelling that the engine starts from, and whether the key of a job names it.
Read(j) == IF j.tab = NoTab THEN j.key ELSE name[j.tab]
Names(j) ==
  \/ j.key = Read(j) \/ Same(j.key, Read(j))
  \/ j.tab # NoTab /\ hash[j.key].root = j.project /\ OwnerOf(j.tab, Claimed) = j.project

\* Whoever the tab belongs to after the key is stamped owned it before, or has no other key.
OwnerStands(j) ==
  LET o == OwnerOf(j.tab, Claimed)
  IN  /\ hash[j.key].root \in {j.project, NoOne}
      /\ \/ o = j.owner
         \/ hash[j.key].root = j.project /\ (o # NoOne => \A s \in Keys \ {j.key} : hash[s].root # o)

Disabling(c) ==
  LET j == job[c]
  IN  /\ \A q \in Sent(c) : q.key = j.key /\ (q.do \in {"on", "log"} \/ (q.do = "root" /\ q.val = j.project))
      /\ Becomes(c, j.key, "on", "off") /\ Names(j)

Pacing(c) ==
  LET j == job[c]
  IN  /\ \A q \in Sent(c) : q.do \in {"interval", "log"} \/ (q.do = "root" /\ q.key = j.key /\ q.val = j.project)
      /\ Becomes(c, j.key, "interval", j.pick) /\ Names(j)
      /\ \A s \in Keys \ {j.key} :
           s = Read(j) \/ Same(s, Read(j)) \/ (j.owner # NoOne /\ hash[s].root = j.owner) =>
             Becomes(c, s, "interval", None)
      /\ j.tab # NoTab /\ ~j.took => OwnerStands(j)

\* With a live tab what else names it goes, without one it is switched on as well.
Enabling(c) ==
  LET j == job[c]
  IN  /\ j.key = Read(j)
      /\ Becomes(c, j.key, "on", "on")
      /\ j.pick # None => Becomes(c, j.key, "interval", j.pick)
      /\ j.tab # NoTab =>
           /\ \A q \in Sent(c) : q.do \in Fields => q.key = j.key
           /\ \A s \in Keys \ {j.key} : Same(s, j.key) \/ hash[s].root = j.project => Vanishes(c, s)
      /\ j.tab = NoTab =>
           /\ \A q \in Sent(c) : q.do \in Fields \cup {"log"}
           /\ \A s \in Keys \ {j.key} : Same(s, j.key) =>
                \/ hash[s] = NoHash /\ \A q \in Sent(c) : q.key # s
                \/ Becomes(c, s, "on", "on") /\ (j.pick # None => Becomes(c, s, "interval", None))

Asked(c) ==
  job[c] # NoJob /\ job[c].alone =>
    /\ job[c].op = "disable" => Disabling(c)
    /\ job[c].op = "interval" => Pacing(c)
    /\ job[c].op = "enable" => Enabling(c)

LEMMA SentStep ==
  ASSUME TypeOK, NEW c \in Callers, Step(c)
  PROVE  LET a == Head(todo[c])
         IN  /\ Sent(c) \subseteq Request /\ a \in Request /\ a \in Sent(c)
             /\ Sent(c) = {a} \cup Sent(c)'
<1> DEFINE s == todo[c]
<1>1. s \in Seq(Request) /\ s # <<>> /\ todo'[c] = Tail(s)
  BY DEF TypeOK, Step
<1>2. Len(s) \in Nat /\ DOMAIN s = 1..Len(s) /\ Len(s) # 0 /\ \A n \in 1..Len(s) : s[n] \in Request
  BY <1>1, LenProperties, EmptySeq, ElementOfSeq
<1>3. /\ Tail(s) \in Seq(Request) /\ Len(Tail(s)) = Len(s) - 1
      /\ \A n \in 1..(Len(s) - 1) : Tail(s)[n] = s[n + 1]
  <2>1. Tail(s) \in Seq(Request) /\ Len(Tail(s)) = Len(s) - 1 /\ \A n \in 1..Len(Tail(s)) : Tail(s)[n] = s[n + 1]
    BY <1>1, HeadTailProperties
  <2> QED BY <2>1
<1>4. DOMAIN Tail(s) = 1..(Len(s) - 1)
  BY <1>3, LenProperties
<1>5. Head(s) = s[1]
  BY <1>1
<1> DEFINE l == Len(s)
           t == Tail(s)
<1> HIDE DEF s, l, t
<1>6. Range(s) = {s[1]} \cup Range(t)
  <2>1. ASSUME NEW n \in DOMAIN s PROVE s[n] \in {s[1]} \cup Range(t)
    <3>1. CASE n = 1  BY <3>1
    <3>2. CASE n # 1
      <4> DEFINE m == n - 1
      <4>1. m \in 1..(l - 1) /\ n = m + 1
        BY <1>2, <3>2 DEF l
      <4> HIDE DEF m
      <4>2. t[m] = s[n] /\ m \in DOMAIN t
        BY <4>1, <1>3, <1>4 DEF l, t
      <4> QED BY <4>2 DEF Range
    <3> QED BY <3>1, <3>2
  <2>2. ASSUME NEW n \in DOMAIN t PROVE t[n] \in Range(s)
    <3>1. n + 1 \in DOMAIN s /\ t[n] = s[n + 1]
      BY <1>2, <1>3, <1>4 DEF l, t
    <3> QED BY <3>1 DEF Range
  <2>3. s[1] \in Range(s)
    BY <1>2 DEF Range
  <2> QED BY <2>1, <2>2, <2>3 DEF Range
<1>7. Range(s) \subseteq Request
  BY <1>2 DEF Range
<1>8. Sent(c) = Range(s) /\ Sent(c)' = Range(t)
  BY <1>1 DEF Sent, s, t
<1> QED BY <1>5, <1>6, <1>7, <1>8, <1>2 DEF s

\* What one call does to the fields of every key.
LEMMA FieldStep ==
  ASSUME TypeOK, NEW c \in Callers, Step(c)
  PROVE  LET a == Head(todo[c])
         IN  /\ a.do \in Fields =>
                  /\ \A k \in Keys, f \in Fields : hash'[k][f] = IF k = a.key /\ f = a.do THEN a.val ELSE hash[k][f]
                  /\ \A k \in Keys \ {a.key} : hash'[k] = hash[k]
             /\ a.do = "drop" => \A k \in Keys : hash'[k] = IF k = a.key THEN NoHash ELSE hash[k]
             /\ a.do \notin Fields \cup {"drop"} => hash' = hash
             /\ UNCHANGED <<name, top>> /\ job'[c] = job[c] /\ hash \in [Keys -> Hash]
<1> DEFINE a == Head(todo[c])
<1>1. a.key \in Keys
  BY SentStep, RequestFields
<1>2. hash \in [Keys -> Hash] /\ UNCHANGED <<name, top>> /\ job'[c] = job[c]
  BY DEF TypeOK, Step, tabs, Disturbed
<1> HIDE DEF a
<1>3. CASE SetField(c, a)
  <2>1. a.do \in Fields
    BY <1>3 DEF SetField, Fields
  <2>2. hash' = [hash EXCEPT ![a.key] = [hash[a.key] EXCEPT ![a.do] = a.val]]
    BY <1>3 DEF SetField
  <2>3. \A k \in Keys \ {a.key} : hash'[k] = hash[k]
    BY <2>2, <1>2
  <2>4. hash'[a.key] = [hash[a.key] EXCEPT ![a.do] = a.val] /\ hash[a.key] \in Hash
    BY <2>2, <1>1, <1>2
  <2>5. \A f \in Fields : hash'[a.key][f] = IF f = a.do THEN a.val ELSE hash[a.key][f]
    <3>1. hash[a.key] = [on |-> hash[a.key].on, root |-> hash[a.key].root, interval |-> hash[a.key].interval]
      BY <2>4 DEF Hash
    <3>2. DOMAIN hash[a.key] = Fields
      BY <3>1 DEF Fields
    <3> QED BY <3>2, <2>4
  <2> QED BY <2>1, <2>3, <2>5, <1>2 DEF Fields, a
<1>4. CASE DropKey(c, a)
  BY <1>1, <1>2, <1>4 DEF DropKey, Fields, a
<1>5. CASE ReadRows(c, a) \/ ReplaceLog(c, a) \/ ReadPane(c, a) \/ MovePane(c, a) \/ Note(c, a)
  <2>1. hash' = hash /\ a.do \notin Fields \cup {"drop"}
    BY <1>5 DEF ReadRows, ReplaceLog, ReadPane, MovePane, Note, store, Fields
  <2> QED BY <2>1, <1>2 DEF a
<1> QED BY <1>3, <1>4, <1>5 DEF Step, a

LEMMA BecomesStep ==
  ASSUME TypeOK, NEW c \in Callers, Step(c), NEW k \in Keys, NEW f \in Fields, NEW v, Becomes(c, k, f, v)
  PROVE  Becomes(c, k, f, v)'
<1> DEFINE a == Head(todo[c])
<1>1. Sent(c) = {a} \cup Sent(c)'
  BY SentStep
<1>2. \A q \in Sent(c) : q.key = k => q.do # "drop" /\ (q.do = f => q.val = v)
  BY DEF Becomes
<1>3. hash'[k][f] = v \/ \E q \in Sent(c)' : q.do = f /\ q.key = k
  <2>1. CASE a.do = f /\ a.key = k
    BY <2>1, <1>1, <1>2, FieldStep
  <2>2. CASE ~(a.do = f /\ a.key = k)
    <3>1. hash'[k][f] = hash[k][f]
      BY <2>2, <1>1, <1>2, FieldStep
    <3> QED BY <3>1, <2>2, <1>1 DEF Becomes
  <2> QED BY <2>1, <2>2
<1> QED BY <1>1, <1>2, <1>3 DEF Becomes

LEMMA VanishesStep ==
  ASSUME TypeOK, NEW c \in Callers, Step(c), NEW k \in Keys, Vanishes(c, k)
  PROVE  Vanishes(c, k)'
<1> DEFINE a == Head(todo[c])
<1>1. Sent(c) = {a} \cup Sent(c)'
  BY SentStep
<1>2. \A q \in Sent(c) : q.key = k => q.do \notin Fields
  BY DEF Vanishes
<1>3. hash'[k] = NoHash \/ \E q \in Sent(c)' : q.do = "drop" /\ q.key = k
  <2>1. CASE a.do = "drop" /\ a.key = k
    BY <2>1, FieldStep
  <2>2. CASE ~(a.do = "drop" /\ a.key = k)
    <3>1. hash'[k] = hash[k]
      BY <2>2, <1>1, <1>2, FieldStep
    <3> QED BY <3>1, <2>2, <1>1 DEF Vanishes
  <2> QED BY <2>1, <2>2
<1> QED BY <1>1, <1>2, <1>3 DEF Vanishes

\* No root changes: every tab belongs to whom it did.
LEMMA RootsStand ==
  ASSUME TypeOK, NEW c \in Callers, Step(c), Head(todo[c]).do # "drop",
         Head(todo[c]).do = "root" => hash[Head(todo[c]).key].root = Head(todo[c]).val
  PROVE  /\ \A k \in Keys : hash'[k].root = hash[k].root
         /\ \A t \in Tabs : OwnerOf(t, Claimed)' = OwnerOf(t, Claimed)
<1>1. \A k \in Keys : hash'[k].root = hash[k].root
  <2>1. "root" \in Fields
    BY DEF Fields
  <2> QED BY <2>1, FieldStep
<1>2. Claimed' = Claimed
  BY <1>1 DEF Claimed
<1>3. top' = top
  BY FieldStep
<1> QED BY <1>1, <1>2, <1>3 DEF OwnerOf

\* A root is stamped on a key that had none: the tab keeps its owner, or loses it, or
\* goes to a project that no key had claimed.
LEMMA Stamped ==
  ASSUME TypeOK, NEW c \in Callers, Step(c), Head(todo[c]).do = "root",
         hash[Head(todo[c]).key].root = NoOne, NEW t \in Tabs
  PROVE  \/ OwnerOf(t, Claimed)' \in {OwnerOf(t, Claimed), NoOne}
         \/ \A k \in Keys : hash[k].root # OwnerOf(t, Claimed)'
<1> DEFINE a == Head(todo[c])
           p == a.val
           o == OwnerOf(t, Claimed)'
           b == top[t] \cap Claimed'
<1>1. a.key \in Keys /\ p \in Projects
  BY SentStep, RequestFields
<1>2. "root" \in Fields /\ a.do = "root"
  BY DEF Fields
<1>3. \A k \in Keys : hash'[k].root = IF k = a.key THEN p ELSE hash[k].root
  BY <1>2, FieldStep
<1>4. p # NoOne
  BY <1>1, CrankAssumption
<1> HIDE DEF a, p
<1>5. Claimed' = Claimed \cup {p}
  <2>1. Claimed' = {hash'[k].root : k \in Keys} \ {NoOne}
    BY DEF Claimed
  <2>2. \A x : x \in {hash'[k].root : k \in Keys} \ {NoOne} <=> x \in ({hash[k].root : k \in Keys} \ {NoOne}) \cup {p}
    BY <1>1, <1>3, <1>4 DEF a
  <2> QED BY <2>1, <2>2 DEF Claimed
<1>6. top' = top /\ IsFiniteSet(b)
  <2>1. top[t] \subseteq Projects
    BY DEF TypeOK
  <2> QED BY <2>1, FieldStep, CrankAssumption, FS_Subset
<1>7. CASE Cardinality(top[t]) = 1
  BY <1>6, <1>7 DEF OwnerOf
<1>8. CASE Cardinality(top[t]) # 1 /\ b = top[t] \cap Claimed
  BY <1>6, <1>8 DEF OwnerOf
<1>9. CASE Cardinality(top[t]) # 1 /\ b # top[t] \cap Claimed
  <2>1. p \in b /\ p \notin Claimed
    BY <1>5, <1>9
  <2>2. o = IF Cardinality(b) = 1 THEN CHOOSE x \in b : TRUE ELSE NoOne
    BY <1>6, <1>9 DEF OwnerOf
  <2>3. Cardinality(b) = 1 => b = {p}
    <3> HIDE DEF b
    <3> QED BY <2>1, <1>6, FS_Singleton
  <2>4. o \in {p, NoOne}
    BY <2>2, <2>3
  <2>5. \A k \in Keys : hash[k].root # p
    BY <2>1, <1>4 DEF Claimed
  <2> QED BY <2>4, <2>5
<1> QED BY <1>7, <1>8, <1>9

\* A key goes on naming the tab while only its own project is stamped on it.
LEMMA NamesStep ==
  ASSUME TypeOK, NEW c \in Callers, Step(c), job[c] \in Job, Names(job[c]),
         Head(todo[c]).do # "drop",
         Head(todo[c]).do = "root" => Head(todo[c]).key = job[c].key /\ Head(todo[c]).val = job[c].project
  PROVE  Names(job[c])'
<1> DEFINE j == job[c]
<1>1. name' = name /\ job'[c] = j /\ j.key \in Keys /\ (j.tab # NoTab => j.tab \in Tabs)
  BY FieldStep DEF Job
<1>2. Read(job[c])' = Read(j)
  BY <1>1 DEF Read
<1>3. CASE j.key = Read(j) \/ Same(j.key, Read(j))
  BY <1>1, <1>2, <1>3 DEF Names, Same
<1>4. CASE j.tab # NoTab /\ hash[j.key].root = j.project /\ OwnerOf(j.tab, Claimed) = j.project
  <2>1. hash'[j.key].root = j.project /\ OwnerOf(j.tab, Claimed)' = j.project
    BY <1>1, <1>4, RootsStand
  <2>2. OwnerOf(job[c].tab, Claimed)' = OwnerOf(j.tab, Claimed)'
    BY <1>1
  <2> QED BY <1>1, <1>4, <2>1, <2>2 DEF Names
<1> QED BY <1>3, <1>4 DEF Names

LEMMA DisablingStep ==
  ASSUME TypeOK, NEW c \in Callers, Step(c), job[c] \in Job, Disabling(c)
  PROVE  Disabling(c)'
<1> DEFINE j == job[c]
           a == Head(todo[c])
<1>1. job'[c] = j /\ j.key \in Keys /\ "on" \in Fields
  BY FieldStep DEF Job, Fields
<1>2. a \in Sent(c) /\ Sent(c)' \subseteq Sent(c)
  BY SentStep
<1>3. Becomes(c, j.key, "on", "off")'
  BY <1>1, BecomesStep DEF Disabling
<1>4. a.do # "drop" /\ (a.do = "root" => a.key = j.key /\ a.val = j.project)
  BY <1>2 DEF Disabling
<1>5. Names(job[c])'
  BY <1>4, NamesStep DEF Disabling
<1> QED BY <1>1, <1>2, <1>3, <1>5 DEF Disabling, Becomes

LEMMA PacingStep ==
  ASSUME TypeOK, NEW c \in Callers, Step(c), job[c] \in Job, Pacing(c)
  PROVE  Pacing(c)'
<1> DEFINE j == job[c]
           a == Head(todo[c])
<1>1. /\ job'[c] = j /\ j.key \in Keys /\ "interval" \in Fields /\ "root" \in Fields
      /\ name' = name /\ (j.tab # NoTab => j.tab \in Tabs)
      /\ j.project \in Projects /\ j.project # NoOne
  BY FieldStep, CrankAssumption DEF Job, Fields
<1>2. a \in Sent(c) /\ Sent(c)' \subseteq Sent(c)
  BY SentStep
<1>3. /\ a.do \in {"interval", "log"} \/ (a.do = "root" /\ a.key = j.key /\ a.val = j.project)
      /\ a.do # "drop"
  BY <1>2 DEF Pacing
<1>4. Becomes(c, j.key, "interval", j.pick)'
  BY <1>1, BecomesStep DEF Pacing
<1>5. Names(job[c])'
  BY <1>3, NamesStep DEF Pacing
<1>6. Read(job[c])' = Read(j)
  BY <1>1 DEF Read
<1>7. \A s \in Keys \ {j.key} : hash'[s].root = hash[s].root
  BY <1>1, <1>3, FieldStep
<1>8. ASSUME NEW s \in Keys \ {j.key},
             s = Read(j) \/ Same(s, Read(j)) \/ (j.owner # NoOne /\ hash'[s].root = j.owner)
      PROVE  Becomes(c, s, "interval", None)'
  <2>1. Becomes(c, s, "interval", None)
    BY <1>7, <1>8 DEF Pacing
  <2> QED BY <1>1, <2>1, BecomesStep
<1>9. ASSUME j.tab # NoTab, ~j.took
      PROVE  OwnerStands(job[c])'
  <2> DEFINE o == OwnerOf(j.tab, Claimed)
             u == OwnerOf(j.tab, Claimed)'
  <2>1. /\ hash[j.key].root \in {j.project, NoOne}
        /\ \/ o = j.owner
           \/ hash[j.key].root = j.project /\ (o # NoOne => \A s \in Keys \ {j.key} : hash[s].root # o)
    BY <1>9 DEF Pacing, OwnerStands
  <2>2. OwnerOf(job[c].tab, Claimed)' = u /\ j.tab \in Tabs
    BY <1>1, <1>9
  <2>3. CASE a.do = "root" => hash[a.key].root = a.val
    <3>1. hash'[j.key].root = hash[j.key].root /\ u = o
      BY <1>1, <1>3, <2>2, <2>3, RootsStand
    <3> HIDE DEF o, u, j
    <3> QED BY <2>1, <2>2, <3>1, <1>1, <1>7 DEF OwnerStands, j
  <2>4. CASE a.do = "root" /\ hash[a.key].root # a.val
    <3>1. a.key = j.key /\ a.val = j.project /\ hash[j.key].root = NoOne
      BY <2>1, <2>4, <1>3
    <3>2. o = j.owner
      BY <2>1, <3>1, <1>1
    <3>3. hash'[j.key].root = j.project
      BY <1>1, <2>4, <3>1, FieldStep
    <3>4. u \in {o, NoOne} \/ \A k \in Keys : hash[k].root # u
      <4>1. PICK t \in Tabs : t = j.tab
        BY <2>2
      <4>2. a.do = "root" /\ hash[a.key].root = NoOne
        BY <2>4, <3>1
      <4>3. \/ OwnerOf(t, Claimed)' \in {OwnerOf(t, Claimed), NoOne}
            \/ \A k \in Keys : hash[k].root # OwnerOf(t, Claimed)'
        BY <4>2, Stamped
      <4>4. o = OwnerOf(t, Claimed) /\ u = OwnerOf(t, Claimed)'
        BY <4>1, <1>1
      <4> QED BY <4>3, <4>4
    <3>5. u = j.owner \/ (u # NoOne => \A s \in Keys \ {j.key} : hash'[s].root # u)
      <4> HIDE DEF o, u, j
      <4> QED BY <3>2, <3>4, <1>7
    <3> HIDE DEF o, u, j
    <3> QED BY <2>2, <3>3, <3>5, <1>1 DEF OwnerStands, j
  <2> QED BY <2>3, <2>4
<1>10. \A q \in Sent(c)' : q.do \in {"interval", "log"} \/ (q.do = "root" /\ q.key = j.key /\ q.val = j.project)
  BY <1>2 DEF Pacing
<1>11. \A s \in Keys \ {job'[c].key} :
         s = Read(job[c])' \/ Same(s, Read(job[c])') \/ (job'[c].owner # NoOne /\ hash'[s].root = job'[c].owner) =>
           Becomes(c, s, "interval", None)'
  BY <1>1, <1>6, <1>8
<1>12. Becomes(c, job[c].key, "interval", job[c].pick)'
  BY <1>1, <1>4 DEF Becomes
<1>13. job'[c].tab # NoTab /\ ~job'[c].took => OwnerStands(job[c])'
  BY <1>1, <1>9
<1> HIDE DEF j, a
<1> QED BY <1>1, <1>5, <1>10, <1>11, <1>12, <1>13 DEF Pacing, Same, j

LEMMA EnablingStep ==
  ASSUME TypeOK, NEW c \in Callers, Step(c), job[c] \in Job, Enabling(c)
  PROVE  Enabling(c)'
<1> DEFINE j == job[c]
           a == Head(todo[c])
<1>1. /\ job'[c] = j /\ j.key \in Keys /\ Fields = {"on", "root", "interval"}
      /\ name' = name /\ j.project # NoOne
  BY FieldStep, CrankAssumption DEF Job, Fields
<1>2. a \in Sent(c) /\ Sent(c)' \subseteq Sent(c)
  BY SentStep
<1>3. Becomes(c, j.key, "on", "on")' /\ (j.pick # None => Becomes(c, j.key, "interval", j.pick)')
  BY <1>1, BecomesStep DEF Enabling
<1>4. Read(job[c])' = j.key
  BY <1>1 DEF Read, Enabling
<1>5. ASSUME j.tab # NoTab, NEW s \in Keys \ {j.key}, Same(s, j.key) \/ hash'[s].root = j.project
      PROVE  Vanishes(c, s)'
  <2>1. hash'[s].root = j.project => hash[s].root = j.project
    <3>1. a.do \in Fields => a.key = j.key
      BY <1>2, <1>5 DEF Enabling
    <3>2. a.do \in Fields => hash'[s] = hash[s]
      BY <1>5, <3>1, FieldStep
    <3>3. a.do \notin Fields \cup {"drop"} => hash'[s] = hash[s]
      BY FieldStep
    <3>4. a.do = "drop" => hash'[s] = NoHash \/ hash'[s] = hash[s]
      BY FieldStep
    <3> QED BY <3>2, <3>3, <3>4, <1>1 DEF NoHash
  <2>2. Vanishes(c, s)
    BY <1>5, <2>1 DEF Enabling
  <2> QED BY <2>2, VanishesStep
<1>6. ASSUME j.tab = NoTab, NEW s \in Keys \ {j.key}, Same(s, j.key)
      PROVE  \/ hash'[s] = NoHash /\ \A q \in Sent(c)' : q.key # s
             \/ Becomes(c, s, "on", "on")' /\ (j.pick # None => Becomes(c, s, "interval", None)')
  <2>1. CASE hash[s] = NoHash /\ \A q \in Sent(c) : q.key # s
    <3>1. a.key # s /\ a.do # "drop"
      BY <1>2, <1>6, <2>1 DEF Enabling, Fields
    <3>2. hash'[s] = NoHash
      BY <1>6, <2>1, <3>1, FieldStep
    <3> QED BY <3>2, <2>1, <1>2
  <2>2. CASE Becomes(c, s, "on", "on") /\ (j.pick # None => Becomes(c, s, "interval", None))
    BY <2>2, <1>1, BecomesStep
  <2> QED BY <1>6, <2>1, <2>2 DEF Enabling
<1>7. /\ j.tab # NoTab => \A q \in Sent(c)' : q.do \in Fields => q.key = j.key
      /\ j.tab = NoTab => \A q \in Sent(c)' : q.do \in Fields \cup {"log"}
  BY <1>2 DEF Enabling
<1>8. Becomes(c, job[c].key, "on", "on")' /\ (job'[c].pick # None => Becomes(c, job[c].key, "interval", job[c].pick)')
  BY <1>1, <1>3 DEF Becomes
<1>9. job'[c].tab # NoTab =>
        \A s \in Keys \ {job'[c].key} : Same(s, job'[c].key) \/ hash'[s].root = job'[c].project => Vanishes(c, s)'
  BY <1>1, <1>5
<1>10. job'[c].tab = NoTab =>
         \A s \in Keys \ {job'[c].key} : Same(s, job'[c].key) =>
           \/ hash'[s] = NoHash /\ \A q \in Sent(c)' : q.key # s
           \/ Becomes(c, s, "on", "on")' /\ (job'[c].pick # None => Becomes(c, s, "interval", None)')
  BY <1>1, <1>6
<1> HIDE DEF j, a
<1> QED BY <1>1, <1>4, <1>7, <1>8, <1>9, <1>10 DEF Enabling, Same, j

----------------------------------------------------------------------------
(* When nothing is left to send *)

\* An interval that one key has, and the others have none or the same.
LEMMA OnePick ==
  ASSUME NEW S \in SUBSET (Picks \cup {None}), NEW i \in Picks \cup {None}, S \subseteq {i, None},
         i # None => i \in S
  PROVE  Effective(S, Global) = IF i = None THEN Global ELSE i
<1>1. CASE i = None
  BY <1>1, LongestOfSome DEF Effective
<1>2. CASE i # None
  <2>1. S \ {None} = {i}
    BY <1>2
  <2>2. i \in Nat
    BY <1>2, CrankAssumption DEF Intervals, None
  <2>3. Longest(S) = i
    <3>1. Longest(S) = CHOOSE x \in {i} : \A y \in {i} : y <= x
      BY <2>1 DEF Longest
    <3> QED BY <3>1, <2>2
  <2> QED BY <2>3, <1>2 DEF Effective
<1> QED BY <1>1, <1>2

LEMMA AsAskedAtEnd ==
  ASSUME TypeOK, \A c \in Callers : Asked(c)
  PROVE  AsAsked
<1> SUFFICES ASSUME NEW c \in Callers, job[c] # NoJob, todo[c] = <<>>, job[c].alone
             PROVE  /\ job[c].op = "disable" => ~ReadsOn(job[c])
                    /\ job[c].op = "enable" /\ ~HeldByAnother(job[c]) =>
                         /\ ReadsOn(job[c])
                         /\ job[c].pick # None => ReadsInterval(job[c]) = job[c].pick
                    /\ job[c].op = "interval" /\ ~Reowned(job[c]) =>
                         ReadsInterval(job[c]) = IF job[c].pick = None THEN Global ELSE job[c].pick
  BY DEF AsAsked
<1> DEFINE j == job[c]
           owner == IF j.tab = NoTab THEN NoOne ELSE OwnerOf(j.tab, Claimed)
           ks == KeysNaming(Read(j), owner)
<1>1. /\ j \in Job /\ j.key \in Keys /\ j.pick \in Picks \cup {None} /\ (j.tab # NoTab => j.tab \in Tabs)
      /\ hash \in [Keys -> Hash] /\ \A k \in Keys : hash[k].interval \in Picks \cup {None}
  BY DEF TypeOK, Job, Hash
<1>2. \A k, f, v : Becomes(c, k, f, v) => hash[k][f] = v
  BY DEF Becomes, Sent, Range
<1>3. \A k : Vanishes(c, k) => hash[k] = NoHash
  BY DEF Vanishes, Sent, Range
<1>4. /\ ReadsOn(j) <=> (ks # {} /\ \A s \in ks : hash[s].on = "on")
      /\ ReadsInterval(j) = Effective({hash[s].interval : s \in ks}, Global)
  BY DEF ReadsOn, ReadsInterval, Read, On, IntervalOf
<1>5. ks \subseteq Keys /\ {hash[s].interval : s \in ks} \subseteq Picks \cup {None}
  <2>1. ks \subseteq Keys
    BY DEF KeysNaming, Stored
  <2> HIDE DEF ks
  <2> QED BY <2>1, <1>1
<1>6. \A s \in ks : /\ hash[s] # NoHash
                    /\ s = Read(j) \/ Same(s, Read(j)) \/ (owner # NoOne /\ hash[s].root = owner)
  BY DEF KeysNaming, Stored, Same
<1>7. hash[j.key] # NoHash /\ (j.key = Read(j) \/ Same(j.key, Read(j))) => j.key \in ks
  BY <1>1 DEF KeysNaming, Stored, Same
<1>8. hash[j.key] # NoHash /\ Names(j) => j.key \in ks
  <2>1. CASE j.tab # NoTab /\ hash[j.key].root = j.project /\ OwnerOf(j.tab, Claimed) = j.project
    <3>1. j.project # NoOne
      BY <1>1, CrankAssumption DEF Job
    <3> QED BY <2>1, <3>1, <1>1 DEF KeysNaming, Stored
  <2> QED BY <2>1, <1>7 DEF Names
<1>9. NoHash.on = "none" /\ NoHash.interval = None /\ NoHash.root = NoOne
  BY DEF NoHash
<1> HIDE DEF ks
<1>10. ASSUME j.op = "disable" PROVE ~ReadsOn(j)
  <2>1. hash[j.key].on = "off" /\ Names(j)
    BY <1>2, <1>10 DEF Asked, Disabling
  <2>2. j.key \in ks
    BY <2>1, <1>8, <1>9
  <2> QED BY <2>1, <2>2, <1>4
<1>11. ASSUME j.op = "enable", ~HeldByAnother(j)
       PROVE  ReadsOn(j) /\ (j.pick # None => ReadsInterval(j) = j.pick)
  <2>0. Enabling(c)
    BY <1>11 DEF Asked
  <2>1. hash[j.key].on = "on" /\ j.key = Read(j) /\ (j.pick # None => hash[j.key].interval = j.pick)
    BY <2>0, <1>2 DEF Enabling
  <2>2. j.key \in ks
    BY <2>1, <1>7, <1>9
  <2>3. ASSUME NEW s \in ks, s # j.key PROVE hash[s].on = "on" /\ (j.pick # None => hash[s].interval = None)
    <3>1. CASE j.tab # NoTab
      <4>1. owner \in {j.project, NoOne}
        BY <3>1, <1>11 DEF HeldByAnother
      <4>2. Same(s, j.key) \/ hash[s].root = j.project
        BY <4>1, <2>1, <2>3, <1>6
      <4>3. Vanishes(c, s)
        BY <4>2, <2>0, <2>3, <3>1, <1>5 DEF Enabling
      <4> QED BY <4>3, <2>3, <1>3, <1>6
    <3>2. CASE j.tab = NoTab
      <4>1. Same(s, j.key) /\ hash[s] # NoHash
        BY <3>2, <2>1, <2>3, <1>6
      <4>2. Becomes(c, s, "on", "on") /\ (j.pick # None => Becomes(c, s, "interval", None))
        BY <4>1, <2>0, <2>3, <3>2, <1>5 DEF Enabling
      <4> QED BY <4>2, <1>2
    <3> QED BY <3>1, <3>2
  <2>4. ReadsOn(j)
    BY <2>1, <2>2, <2>3, <1>4
  <2>5. j.pick # None => /\ {hash[s].interval : s \in ks} \subseteq {j.pick, None}
                         /\ j.pick \in {hash[s].interval : s \in ks}
    BY <2>1, <2>2, <2>3
  <2>6. j.pick # None => ReadsInterval(j) = j.pick
    <3> DEFINE S == {hash[s].interval : s \in ks}
    <3>1. S \in SUBSET (Picks \cup {None}) /\ j.pick \in Picks \cup {None}
      BY <1>1, <1>5
    <3> HIDE DEF S, j
    <3>2. j.pick # None => Effective(S, Global) = j.pick
      BY <3>1, <2>5, OnePick DEF S
    <3> QED BY <3>2, <1>4 DEF S
  <2> QED BY <2>4, <2>6
<1>12. ASSUME j.op = "interval", ~Reowned(j)
       PROVE  ReadsInterval(j) = IF j.pick = None THEN Global ELSE j.pick
  <2>0. Pacing(c)
    BY <1>12 DEF Asked
  <2>1. hash[j.key].interval = j.pick /\ Names(j)
    BY <2>0, <1>2 DEF Pacing
  <2>2. j.pick # None => j.key \in ks
    BY <2>1, <1>8, <1>9
  <2>3. ASSUME NEW s \in ks, s # j.key PROVE hash[s].interval = None
    <3>1. CASE s = Read(j) \/ Same(s, Read(j))
      <4>1. Becomes(c, s, "interval", None)
        BY <3>1, <2>0, <2>3, <1>5 DEF Pacing
      <4> QED BY <4>1, <1>2
    <3>2. CASE owner # NoOne /\ hash[s].root = owner
      <4>1. j.tab # NoTab /\ owner = OwnerOf(j.tab, Claimed)
        BY <3>2
      <4>2. owner = j.owner
        <5>1. CASE j.took
          BY <5>1, <4>1, <3>2, <1>12 DEF Reowned
        <5>2. CASE ~j.took
          <6>1. OwnerStands(j)
            BY <5>2, <4>1, <2>0 DEF Pacing
          <6> QED BY <6>1, <4>1, <3>2, <2>3, <1>5 DEF OwnerStands
        <5> QED BY <5>1, <5>2
      <4>3. Becomes(c, s, "interval", None)
        BY <4>2, <3>2, <2>0, <2>3, <1>5 DEF Pacing
      <4> QED BY <4>3, <1>2
    <3> QED BY <3>1, <3>2, <2>3, <1>6
  <2> DEFINE S == {hash[s].interval : s \in ks}
  <2>4. S \in SUBSET (Picks \cup {None}) /\ j.pick \in Picks \cup {None}
    BY <1>1, <1>5
  <2>5. S \subseteq {j.pick, None} /\ (j.pick # None => j.pick \in S)
    BY <2>1, <2>2, <2>3
  <2> HIDE DEF S, j
  <2>6. Effective(S, Global) = IF j.pick = None THEN Global ELSE j.pick
    BY <2>4, <2>5, OnePick
  <2> QED BY <2>6, <1>4 DEF S
<1> QED BY <1>10, <1>11, <1>12

----------------------------------------------------------------------------
(* What a command sends, when it is called *)

LEMMA RangeConcat ==
  ASSUME NEW s \in Seq(Request), NEW t \in Seq(Request)
  PROVE  s \o t \in Seq(Request) /\ Range(s \o t) = Range(s) \cup Range(t)
<1> DEFINE u == s \o t
<1>1. Len(s) \in Nat /\ DOMAIN s = 1..Len(s) /\ Len(t) \in Nat /\ DOMAIN t = 1..Len(t)
  BY LenProperties
<1>2. /\ u \in Seq(Request) /\ DOMAIN u = 1..(Len(s) + Len(t))
      /\ \A n \in DOMAIN s : u[n] = s[n] /\ n \in DOMAIN u
      /\ \A n \in DOMAIN t : u[Len(s) + n] = t[n] /\ Len(s) + n \in DOMAIN u
  <2>1. u \in Seq(Request) /\ Len(u) = Len(s) + Len(t)
        /\ \A i \in 1..Len(s) + Len(t) : u[i] = IF i <= Len(s) THEN s[i] ELSE t[i - Len(s)]
    BY <1>1, ConcatProperties
  <2>2. DOMAIN u = 1..Len(u)
    BY <2>1, LenProperties
  <2> HIDE DEF u
  <2> QED BY <1>1, <2>1, <2>2
<1> HIDE DEF u
<1>3. ASSUME NEW n \in DOMAIN u PROVE u[n] \in Range(s) \cup Range(t)
  <2>1. CASE n \in DOMAIN s
    BY <2>1, <1>2 DEF Range
  <2>2. CASE n \notin DOMAIN s
    <3> DEFINE m == n - Len(s)
    <3>1. m \in DOMAIN t /\ n = Len(s) + m
      BY <1>1, <1>2, <2>2
    <3> HIDE DEF m
    <3> QED BY <3>1, <1>2 DEF Range
  <2> QED BY <2>1, <2>2
<1>4. \A x \in Range(s) \cup Range(t) : x \in Range(u)
  <2>1. \A n \in DOMAIN s : s[n] \in Range(u)
    BY <1>2 DEF Range
  <2>2. \A n \in DOMAIN t : t[n] \in Range(u)
    <3> SUFFICES ASSUME NEW n \in DOMAIN t PROVE t[n] \in Range(u)
      OBVIOUS
    <3>1. u[Len(s) + n] = t[n] /\ Len(s) + n \in DOMAIN u
      BY <1>2
    <3> QED BY <3>1 DEF Range
  <2> QED BY <2>1, <2>2 DEF Range
<1>5. Range(u) = Range(s) \cup Range(t)
  <2>1. \A x \in Range(u) : x \in Range(s) \cup Range(t)
    BY <1>3 DEF Range
  <2> QED BY <2>1, <1>4
<1> QED BY <1>2, <1>5 DEF u

LEMMA RangePair ==
  ASSUME NEW a \in Request, NEW b \in Request
  PROVE  <<a, b>> \in Seq(Request) /\ Range(<<a, b>>) = {a, b}
<1> DEFINE s == <<a, b>>
<1>1. s \in Seq(Request) /\ DOMAIN s = {1, 2} /\ s[1] = a /\ s[2] = b
  OBVIOUS
<1> HIDE DEF s
<1>2. Range(s) = {a, b}
  BY <1>1 DEF Range
<1> QED BY <1>1, <1>2 DEF s

LEMMA RangeCalls ==
  ASSUME NEW what \in Fields, NEW S \in SUBSET Keys, NEW v, \A k \in Keys : Do(what, k, v) \in Request
  PROVE  Calls(what, S, v) \in Seq(Request) /\ Range(Calls(what, S, v)) = {Do(what, k, v) : k \in S}
<1> DEFINE s == Calls(what, S, v)
<1>1. /\ Plain(s)
      /\ \A n \in DOMAIN s : \E k \in S : s[n] = Do(what, k, v)
      /\ \A k \in S : \E n \in DOMAIN s : s[n] = Do(what, k, v)
  BY CallsPlain DEF Fields
<1> HIDE DEF s
<1>2. Range(s) = {s[n] : n \in DOMAIN s}
  BY DEF Range
<1>3. \A x \in Range(s) : x \in {Do(what, k, v) : k \in S}
  BY <1>1, <1>2
<1>4. \A k \in S : Do(what, k, v) \in Range(s)
  BY <1>1, <1>2
<1>5. Range(s) = {Do(what, k, v) : k \in S}
  BY <1>3, <1>4
<1> QED BY <1>1, <1>5 DEF Plain, s

LEMMA RangeChosen ==
  ASSUME NEW k \in Keys, NEW i \in Picks \cup {None}
  PROVE  /\ Chosen("interval", k, i) \in Seq(Request)
         /\ Range(Chosen("interval", k, i)) = IF i = None THEN {} ELSE {Do("interval", k, i)}
<1> DEFINE s == Chosen("interval", k, i)
<1>1. /\ Plain(s)
      /\ \A n \in DOMAIN s : s[n] = Do("interval", k, i) /\ i # None
      /\ i # None => \E n \in DOMAIN s : s[n] = Do("interval", k, i)
  BY ChosenPlain
<1> HIDE DEF s
<1>2. Range(s) = IF i = None THEN {} ELSE {Do("interval", k, i)}
  BY <1>1 DEF Range
<1> QED BY <1>1, <1>2 DEF Plain, s

\* What pacing sends: nothing else keeps an interval, and the key is stamped.
LEMMA PacingSends ==
  ASSUME TypeOK, NEW p \in Projects, NEW i \in Picks \cup {None}, NEW r, r.key \in Keys
  PROVE  Range(IntervalCalls(p, r, i)) =
           {Do("interval", s, None) : s \in KeysNaming(r.key, r.owner) \ {r.key}}
             \cup {Do("interval", r.key, i), Do("root", r.key, p)} \cup Range(Notes(r.key, 1))
<1> DEFINE S == KeysNaming(r.key, r.owner) \ {r.key}
           a == Do("interval", r.key, i)
           b == Do("root", r.key, p)
           n == Notes(r.key, 1)
<1>1. S \in SUBSET Keys
  BY DEF KeysNaming, Stored
<1>2. a \in Request /\ b \in Request /\ \A k \in Keys : Do("interval", k, None) \in Request
  BY DoIsRequest
<1>3. IntervalCalls(p, r, i) = Calls("interval", S, None) \o <<a, b>> \o n
  BY DEF IntervalCalls
<1>4. Calls("interval", S, None) \in Seq(Request) /\ Range(Calls("interval", S, None)) = {Do("interval", s, None) : s \in S}
  BY <1>1, <1>2, RangeCalls DEF Fields
<1>7. n \in Seq(Request)
  BY NotesPlain
<1> HIDE DEF a, b, S, n
<1>5. <<a, b>> \in Seq(Request) /\ Range(<<a, b>>) = {a, b}
  BY <1>2, RangePair
<1>6. Range(IntervalCalls(p, r, i)) = {Do("interval", s, None) : s \in S} \cup {a, b} \cup Range(n)
  <2> DEFINE u == Calls("interval", S, None) \o <<a, b>>
  <2>1. u \in Seq(Request) /\ Range(u) = {Do("interval", s, None) : s \in S} \cup {a, b}
    BY <1>4, <1>5, RangeConcat
  <2>2. IntervalCalls(p, r, i) = u \o n
    BY <1>3
  <2> HIDE DEF u
  <2> QED BY <2>1, <2>2, <1>7, RangeConcat
<1> QED BY <1>6 DEF a, b, S, n

\* What enabling sends.
LEMMA EnablingSends ==
  ASSUME TypeOK, NEW p \in Projects, NEW i \in Picks \cup {None}, NEW r, r.key \in Keys, r.tab \in Live \cup {NoTab}
  PROVE  LET sent == Range(EnableCalls(p, r, i))
             key == IF r.tab # NoTab THEN name[r.tab] ELSE r.key
             siblings == KeysNaming(key, r.owner) \ {key}
         IN  /\ Do("on", key, "on") \in sent
             /\ i # None => Do("interval", key, i) \in sent
             /\ \A q \in sent : q.key = key =>
                  /\ q.do # "drop" /\ (q.do = "on" => q.val = "on")
                  /\ i # None /\ q.do = "interval" => q.val = i
             /\ r.tab # NoTab =>
                  /\ \A q \in sent : q.do \in Fields => q.key = key
                  /\ \A s \in OldKeys(p, r.tab) : \E q \in sent : q.do = "drop" /\ q.key = s
             /\ r.tab = NoTab =>
                  /\ \A q \in sent : q.do \in Fields \cup {"log"} /\ q.key \in {key} \cup siblings
                  /\ \A s \in siblings : Do("on", s, "on") \in sent /\ (i # None => Do("interval", s, None) \in sent)
                  /\ \A q \in sent : q.key # key => (q.do = "on" => q.val = "on") /\ (q.do = "interval" => q.val = None)
<1> DEFINE live == r.tab # NoTab
           key == IF live THEN name[r.tab] ELSE r.key
           olds == IF live THEN OldKeys(p, r.tab) ELSE {}
           old == IF live THEN SetToSeq(OldKeys(p, r.tab)) ELSE <<>>
           carry == IF i # None \/ hash[key].interval # None THEN None
                    ELSE Longest({hash[old[n]].interval : n \in DOMAIN old})
           siblings == KeysNaming(key, r.owner) \ {key}
           also == IF live THEN {} ELSE siblings
           none == IF i = None THEN <<>> ELSE Calls("interval", also, None)
           notes == Notes(key, (IF i = None THEN 1 ELSE 2) + Len(old))
<1>1. key \in Keys /\ also \in SUBSET Keys /\ key \notin also
  <2>1. \A t \in Live : name[t] \in Keys
    BY DEF Live, TypeOK
  <2> QED BY <2>1 DEF KeysNaming, Stored
<1>2. /\ old \in Seq(Keys) /\ \A m \in 1..Len(old) : old[m] # key
      /\ \A s \in olds : \E m \in 1..Len(old) : old[m] = s
      /\ ~live => Len(old) = 0
  <2>1. CASE live
    <3> DEFINE S == OldKeys(p, r.tab)
    <3>1. S \subseteq Keys /\ key \notin S
      BY <2>1 DEF OldKeys, Stored
    <3>2. SetToSeq(S) \in Seq(S) /\ \A k \in S : \E n \in 1..Len(SetToSeq(S)) : SetToSeq(S)[n] = k
      BY <3>1, SetToSeqLists
    <3>3. SetToSeq(S) \in Seq(Keys)
      BY <3>1, <3>2, SeqMonotonic
    <3>4. \A m \in 1..Len(SetToSeq(S)) : SetToSeq(S)[m] \in S
      BY <3>2, ElementOfSeq
    <3> QED BY <2>1, <3>1, <3>2, <3>3, <3>4
  <2>2. CASE ~live
    BY <2>2, EmptySeq
  <2> QED BY <2>1, <2>2
<1>3. carry \in Picks \cup {None} /\ (i # None => carry = None) /\ (~live => carry = None)
  <2>1. DOMAIN old = 1..Len(old) /\ \A n \in DOMAIN old : old[n] \in Keys
    BY <1>2, LenProperties, ElementOfSeq
  <2>2. {hash[old[n]].interval : n \in DOMAIN old} \subseteq Picks \cup {None}
    <3> HIDE DEF old
    <3> QED BY <2>1 DEF TypeOK, Hash
  <2>3. ~live => {hash[old[n]].interval : n \in DOMAIN old} = {}
    <3> HIDE DEF old, live
    <3> QED BY <2>1, <1>2
  <2> DEFINE T == {hash[old[n]].interval : n \in DOMAIN old}
  <2> HIDE DEF T, live, old
  <2>4. Longest(T) \in Picks \cup {None} /\ (~live => Longest(T) = None)
    BY <2>2, <2>3, LongestOfSome DEF T
  <2> QED BY <2>4 DEF T
<1>4. \A k \in Keys : /\ Do("on", k, "on") \in Request
                      /\ Do("root", k, p) \in Request /\ Do("interval", k, i) \in Request
                      /\ Do("interval", k, None) \in Request
  BY DoIsRequest
<1> DEFINE a == Do("on", key, "on")
           b == Do("root", key, p)
           s1 == Chosen("interval", key, i)
           s2 == Chosen("interval", key, carry)
           s3 == Merges(old, key)
           s4 == Calls("on", also, "on")
           s5 == Calls("root", also, p)
           sent == Range(EnableCalls(p, r, i))
<1>22. notes \in Seq(Request) /\ \A q \in Range(notes) : q.do = "log" /\ q.key = key
  <2> DEFINE m == IF i = None THEN 1 ELSE 2
             l == Len(old)
  <2>1. l \in Nat /\ m \in Nat
    BY <1>2, LenProperties
  <2> HIDE DEF l, m
  <2>2. m + l \in Nat
    BY <2>1
  <2> DEFINE k == m + l
  <2>3. k \in Nat /\ key \in Keys
    BY <2>2, <1>1
  <2>4. notes = Notes(key, k)
    BY DEF l, m
  <2> HIDE DEF k, notes, key
  <2>5. /\ Notes(key, k) \in Seq(Request)
        /\ \A q \in Range(Notes(key, k)) : q.do = "log" /\ q.key = key
    BY <2>3, NotesPlain
  <2> QED BY <2>4, <2>5
<1>5. EnableCalls(p, r, i) = <<a, b>> \o s1 \o s2 \o s3 \o s4 \o s5 \o none \o notes
  BY DEF EnableCalls
<1> HIDE DEF key, olds, old, carry, also
<1>6. a \in Request /\ b \in Request
  BY <1>1, <1>4
<1>7. s1 \in Seq(Request) /\ Range(s1) = IF i = None THEN {} ELSE {Do("interval", key, i)}
  BY <1>1, RangeChosen
<1>8. s2 \in Seq(Request) /\ Range(s2) = IF carry = None THEN {} ELSE {Do("interval", key, carry)}
  BY <1>1, <1>3, RangeChosen
<1>9. /\ s3 \in Seq(Request)
      /\ \A q \in Range(s3) : /\ q.do \in Merging /\ live
                              /\ q.do = "drop" => q.key # key
      /\ \A s \in olds : \E q \in Range(s3) : q.do = "drop" /\ q.key = s
  <2>1. /\ Whole(s3)
        /\ \A n \in DOMAIN s3 : s3[n].do \in Merging /\ (s3[n].do = "drop" => s3[n].val = key)
        /\ \A m \in 1..Len(old) : \E n \in DOMAIN s3 : s3[n] = Do("drop", old[m], key)
    BY <1>1, <1>2, MergesWhole
  <2>2. ~live => DOMAIN s3 = {}
    <3>1. ~live => DOMAIN s3 = 1..(5 * Len(old)) /\ Len(old) = 0
      BY <1>2 DEF Merges
    <3> QED BY <3>1
  <2> HIDE DEF s3, live
  <2>3. \A n \in DOMAIN s3 : live /\ s3[n].do \in Merging /\ (s3[n].do = "drop" => s3[n].key # key)
    <3>1. \A n \in DOMAIN s3 : s3[n].do \in Merging => s3[n].key # s3[n].val
      BY <2>1 DEF Whole, Chained
    <3> QED BY <2>1, <2>2, <3>1
  <2>4. \A s \in olds : \E n \in DOMAIN s3 : s3[n].do = "drop" /\ s3[n].key = s
    <3> SUFFICES ASSUME NEW s \in olds PROVE \E n \in DOMAIN s3 : s3[n].do = "drop" /\ s3[n].key = s
      OBVIOUS
    <3>1. PICK m \in 1..Len(old) : old[m] = s
      BY <1>2
    <3>2. PICK n \in DOMAIN s3 : s3[n] = Do("drop", old[m], key)
      BY <2>1
    <3> QED BY <3>1, <3>2 DEF Do
  <2> QED BY <2>1, <2>3, <2>4 DEF Whole, Range
<1>10. s4 \in Seq(Request) /\ Range(s4) = {Do("on", k, "on") : k \in also}
  <2>1. "on" \in Fields
    BY DEF Fields
  <2>2. \A v : (\A k \in Keys : Do("on", k, v) \in Request) =>
               Calls("on", also, v) \in Seq(Request) /\ Range(Calls("on", also, v)) = {Do("on", k, v) : k \in also}
    BY <2>1, <1>1, RangeCalls
  <2> QED BY <2>2, <1>4
<1>11. s5 \in Seq(Request) /\ Range(s5) = {Do("root", k, p) : k \in also}
  BY <1>1, <1>4, RangeCalls DEF Fields
<1>12. none \in Seq(Request) /\ Range(none) = IF i = None THEN {} ELSE {Do("interval", k, None) : k \in also}
  <2>1. Calls("interval", also, None) \in Seq(Request) /\ Range(Calls("interval", also, None)) = {Do("interval", k, None) : k \in also}
    BY <1>1, <1>4, RangeCalls DEF Fields
  <2>2. <<>> \in Seq(Request) /\ Range(<<>>) = {}
    BY EmptySeq DEF Range
  <2> QED BY <2>1, <2>2
<1> HIDE DEF a, b, s1, s2, s3, s4, s5, none, notes, sent
<1>13. sent = {a, b} \cup Range(s1) \cup Range(s2) \cup Range(s3) \cup Range(s4) \cup Range(s5) \cup Range(none)
                \cup Range(notes)
  <2> DEFINE u0 == <<a, b>>
             u1 == u0 \o s1
             u2 == u1 \o s2
             u3 == u2 \o s3
             u4 == u3 \o s4
             u5 == u4 \o s5
  <2>1. u0 \in Seq(Request) /\ Range(u0) = {a, b}
    BY <1>6, RangePair
  <2> HIDE DEF u0
  <2>2. u1 \in Seq(Request) /\ Range(u1) = Range(u0) \cup Range(s1)
    BY <1>7, <2>1, RangeConcat
  <2> HIDE DEF u1
  <2>3. u2 \in Seq(Request) /\ Range(u2) = Range(u1) \cup Range(s2)
    BY <1>8, <2>2, RangeConcat
  <2> HIDE DEF u2
  <2>4. u3 \in Seq(Request) /\ Range(u3) = Range(u2) \cup Range(s3)
    BY <1>9, <2>3, RangeConcat
  <2> HIDE DEF u3
  <2>5. u4 \in Seq(Request) /\ Range(u4) = Range(u3) \cup Range(s4)
    BY <1>10, <2>4, RangeConcat
  <2> HIDE DEF u4
  <2>6. u5 \in Seq(Request) /\ Range(u5) = Range(u4) \cup Range(s5)
    BY <1>11, <2>5, RangeConcat
  <2> HIDE DEF u5
  <2> DEFINE u6 == u5 \o none
  <2>7. u6 \in Seq(Request) /\ Range(u6) = Range(u5) \cup Range(none)
    BY <1>12, <2>6, RangeConcat
  <2> HIDE DEF u6
  <2>9. Range(u6 \o notes) = Range(u6) \cup Range(notes)
    BY <1>22, <2>7, RangeConcat
  <2>8. sent = Range(u6 \o notes)
    BY <1>5 DEF sent, u0, u1, u2, u3, u4, u5, u6
  <2> QED BY <2>1, <2>2, <2>3, <2>4, <2>5, <2>6, <2>7, <2>8, <2>9
<1>14. \A d, k, v : Do(d, k, v).do = d /\ Do(d, k, v).key = k /\ Do(d, k, v).val = v
  BY DEF Do
<1>15. \A q \in sent : \/ q.do = "on" /\ q.key = key /\ q.val = "on"
                       \/ q.do = "root" /\ q.key = key
                       \/ q.do = "interval" /\ q.key = key /\ (i # None => q.val = i)
                       \/ live /\ q.do \in Merging /\ (q.do = "drop" => q.key # key)
                       \/ q.do = "on" /\ q.key \in also /\ q.val = "on"
                       \/ q.do = "root" /\ q.key \in also
                       \/ q.do = "interval" /\ q.key \in also /\ q.val = None
                       \/ q.do = "log" /\ q.key = key
  <2>1. a.do = "on" /\ a.key = key /\ a.val = "on" /\ b.do = "root" /\ b.key = key
    BY <1>14 DEF a, b
  <2>2. \A q \in Range(s1) \cup Range(s2) : q.do = "interval" /\ q.key = key /\ (i # None => q.val = i)
    BY <1>3, <1>7, <1>8, <1>14
  <2>3. \A q \in Range(s4) : q.do = "on" /\ q.key \in also /\ q.val = "on"
    BY <1>10, <1>14
  <2>4. \A q \in Range(s5) : q.do = "root" /\ q.key \in also
    BY <1>11, <1>14
  <2>5. \A q \in Range(none) : q.do = "interval" /\ q.key \in also /\ q.val = None
    BY <1>12, <1>14
  <2> QED BY <1>9, <1>13, <1>22, <2>1, <2>2, <2>3, <2>4, <2>5
<1>16. /\ a \in sent
       /\ i # None => Do("interval", key, i) \in sent
       /\ \A s \in olds : \E q \in sent : q.do = "drop" /\ q.key = s
       /\ \A s \in also : Do("on", s, "on") \in sent /\ (i # None => Do("interval", s, None) \in sent)
  BY <1>7, <1>9, <1>10, <1>12, <1>13
<1>17. live => also = {} /\ olds = OldKeys(p, r.tab)
  BY DEF also, olds
<1>18. ~live => also = siblings
  BY DEF also
<1> HIDE DEF live, siblings
<1>19. /\ a \in sent
       /\ i # None => Do("interval", key, i) \in sent
       /\ \A q \in sent : q.key = key =>
            /\ q.do # "drop" /\ (q.do = "on" => q.val = "on")
            /\ i # None /\ q.do = "interval" => q.val = i
  BY <1>1, <1>15, <1>16 DEF Merging
<1>20. live =>
         /\ \A q \in sent : q.do \in Fields => q.key = key
         /\ \A s \in OldKeys(p, r.tab) : \E q \in sent : q.do = "drop" /\ q.key = s
  BY <1>15, <1>16, <1>17 DEF Merging, Fields
<1>21. ~live =>
         /\ \A q \in sent : q.do \in Fields \cup {"log"} /\ q.key \in {key} \cup siblings
         /\ \A s \in siblings : Do("on", s, "on") \in sent /\ (i # None => Do("interval", s, None) \in sent)
         /\ \A q \in sent : q.key # key => (q.do = "on" => q.val = "on") /\ (q.do = "interval" => q.val = None)
  BY <1>15, <1>16, <1>18 DEF Fields
<1> QED BY <1>19, <1>20, <1>21 DEF live, key, siblings, sent, a

\* A command knows what it will send, and what it finds when it is called makes that enough.
LEMMA AskedAtCall ==
  ASSUME TypeOK, NEW c \in Callers, NEW op \in {"enable", "disable", "interval"}, NEW p \in Projects,
         NEW i \in Picks \cup {None}, Call(c, op, p, i)
  PROVE  Asked(c)'
<1> SUFFICES ASSUME job'[c].alone PROVE Asked(c)'
  BY DEF Asked
<1>0. PICK seen \in Sighting(c) : \E r \in Resolve(p, seen.owner) : Called(c, op, p, i, seen, r)
  BY CallShape
<1>1. PICK r \in Resolve(p, seen.owner) : Called(c, op, p, i, seen, r)
  BY <1>0
<1>2. /\ job'[c] \in Job /\ job'[c].op = op /\ job'[c].project = p /\ job'[c].tab = r.tab
      /\ job'[c].pick = i /\ job'[c].owner = r.owner
      /\ job'[c].key = IF op = "enable" /\ r.tab # NoTab THEN name[r.tab] ELSE r.key
      /\ job'[c].alone = (seen = Fresh(Claimed))
      /\ job'[c].took = (hash[r.key].root \notin {p, NoOne})
      /\ todo' = [todo EXCEPT ![c] = CallsOf(op, p, r, i)]
  BY <1>1 DEF Called
<1>3. \A t \in Tabs : seen.owner[t] = OwnerOf(t, Claimed)
  <2>1. job'[c].alone = TRUE
    BY <1>2 DEF Job
  <2>2. seen = Fresh(Claimed)
    BY <2>1, <1>2
  <2> QED BY <2>2 DEF Fresh
<1>4. /\ r.key \in Keys /\ r.tab \in Live \cup {NoTab}
      /\ r.tab = NoTab => r.owner = NoOne
      /\ r.tab # NoTab => /\ r.owner = seen.owner[r.tab]
                          /\ \/ r.key \in KeyFor(r.tab)
                             \/ /\ seen.owner[r.tab] = p /\ KeyFor(r.tab) \cap Stored = {}
                                /\ r.key \in Stored /\ hash[r.key].root = p
  BY ResolveShape
<1>5. UNCHANGED <<hash, name, top>> /\ Claimed' = Claimed
  BY DEF Call, store, tabs, Claimed
<1>6. r.tab # NoTab => r.tab \in Tabs /\ name[r.tab] \in Keys /\ r.owner = OwnerOf(r.tab, Claimed)
  BY <1>3, <1>4 DEF Live, TypeOK
<1>7. /\ hash \in [Keys -> Hash] /\ Sent(c)' = Range(CallsOf(op, p, r, i))
      /\ Fields = {"on", "root", "interval"} /\ p # NoOne
  BY <1>2, CrankAssumption DEF TypeOK, Sent, Fields
<1>8. \A d, k, v : Do(d, k, v).do = d /\ Do(d, k, v).key = k /\ Do(d, k, v).val = v
  BY DEF Do
<1> DEFINE read == IF r.tab = NoTab THEN job'[c].key ELSE name[r.tab]
<1>9. Read(job[c])' = read
  BY <1>2, <1>5 DEF Read
<1>10. op # "enable" => job'[c].key = r.key /\ Names(job[c])'
  <2> SUFFICES ASSUME op # "enable" PROVE job'[c].key = r.key /\ Names(job[c])'
    OBVIOUS
  <2>1. job'[c].key = r.key
    BY <1>2
  <2>2. CASE r.tab = NoTab
    BY <2>1, <2>2, <1>9 DEF Names
  <2>3. CASE r.tab # NoTab /\ r.key \in KeyFor(r.tab)
    <3>1. r.key = name[r.tab] \/ Same(r.key, name[r.tab])
      BY <2>3 DEF KeyFor, Same
    <3> QED BY <3>1, <2>1, <2>3, <1>9 DEF Names, Same
  <2>4. CASE r.tab # NoTab /\ OwnerOf(r.tab, Claimed) = p /\ hash[r.key].root = p
    <3>1. OwnerOf(job[c].tab, Claimed)' = OwnerOf(r.tab, Claimed)
      BY <2>4, <1>2, <1>5 DEF OwnerOf
    <3> QED BY <3>1, <2>1, <2>4, <1>2, <1>5 DEF Names
  <2> QED BY <2>2, <2>3, <2>4, <1>4, <1>6
<1>11. CASE op = "disable"
  <2>1. Sent(c)' = {Do("on", r.key, "off"), Do("root", r.key, p)} \cup Range(Notes(r.key, 1))
    <3>1. Do("on", r.key, "off") \in Request /\ Do("root", r.key, p) \in Request
      BY <1>4, DoIsRequest
    <3>2. Notes(r.key, 1) \in Seq(Request)
      BY <1>4, NotesPlain
    <3> DEFINE u == <<Do("on", r.key, "off"), Do("root", r.key, p)>>
               n == Notes(r.key, 1)
    <3>3. u \in Seq(Request) /\ Range(u) = {Do("on", r.key, "off"), Do("root", r.key, p)}
      BY <3>1, RangePair
    <3>4. CallsOf(op, p, r, i) = u \o n
      BY <1>11 DEF CallsOf, DisableCalls
    <3> HIDE DEF u, n
    <3>5. Range(u \o n) = Range(u) \cup Range(n)
      BY <3>2, <3>3, RangeConcat DEF n
    <3> QED BY <3>3, <3>4, <3>5, <1>7 DEF n
  <2>2. \A q \in Sent(c)' : /\ q.key = r.key
                            /\ \/ q.do = "on" /\ q.val = "off"
                               \/ q.do = "root" /\ q.val = p
                               \/ q.do = "log"
    BY <2>1, <1>4, <1>8, NotesPlain
  <2>3. Becomes(c, job[c].key, "on", "off")'
    <3>1. Do("on", r.key, "off") \in Sent(c)'
      BY <2>1
    <3>2. \E q \in Sent(c)' : q.do = "on" /\ q.key = r.key
      BY <3>1, <1>8
    <3> QED BY <3>2, <2>2, <1>10, <1>11 DEF Becomes
  <2> QED BY <2>2, <2>3, <1>2, <1>10, <1>11 DEF Asked, Disabling
<1>12. CASE op = "interval"
  <2> DEFINE S == KeysNaming(r.key, r.owner) \ {r.key}
  <2>1. Sent(c)' = {Do("interval", s, None) : s \in S} \cup {Do("interval", r.key, i), Do("root", r.key, p)}
                    \cup Range(Notes(r.key, 1))
    BY <1>4, <1>7, <1>12, PacingSends DEF CallsOf
  <2>2. \A q \in Sent(c)' : \/ q.do = "interval" /\ q.key \in S /\ q.val = None
                            \/ q.do = "interval" /\ q.key = r.key /\ q.val = i
                            \/ q.do = "root" /\ q.key = r.key /\ q.val = p
                            \/ q.do = "log" /\ q.key = r.key
    <3>1. \A q \in Range(Notes(r.key, 1)) : q.do = "log" /\ q.key = r.key
      BY <1>4, NotesPlain
    <3> HIDE DEF S
    <3> QED BY <2>1, <3>1, <1>8
  <2>3. /\ \E q \in Sent(c)' : q.do = "interval" /\ q.key = r.key
        /\ \A s \in S : \E q \in Sent(c)' : q.do = "interval" /\ q.key = s
    <3> HIDE DEF S
    <3>1. Do("interval", r.key, i) \in Sent(c)' /\ \A s \in S : Do("interval", s, None) \in Sent(c)'
      BY <2>1
    <3> QED BY <3>1, <1>8
  <2>4. Becomes(c, job[c].key, "interval", job[c].pick)'
    BY <2>2, <2>3, <1>2, <1>10, <1>12 DEF Becomes
  <2>5. ASSUME NEW s \in Keys \ {r.key},
               s = read \/ Same(s, read) \/ (r.owner # NoOne /\ hash[s].root = r.owner)
        PROVE  Becomes(c, s, "interval", None)'
    <3>1. s \notin Stored => hash[s].interval = None
      BY <2>5 DEF Stored, NoHash
    <3>2. s \in Stored => s \in S
      <4> SUFFICES ASSUME s \in Stored PROVE s \in S
        OBVIOUS
      <4>1. CASE r.owner # NoOne /\ hash[s].root = r.owner
        BY <2>5, <4>1 DEF KeysNaming
      <4>2. CASE r.tab = NoTab /\ (s = read \/ Same(s, read))
        <5>1. read = r.key
          BY <4>2, <1>10, <1>12
        <5> QED BY <2>5, <4>2, <5>1 DEF KeysNaming, Same
      <4>3. CASE r.tab # NoTab /\ r.key \in KeyFor(r.tab) /\ (s = read \/ Same(s, read))
        <5>1. read = name[r.tab]
          BY <4>3
        <5>2. r.key = read \/ Same(r.key, read)
          BY <4>3, <5>1 DEF KeyFor, Same
        <5>3. Canon[r.key] # "" /\ Canon[s] = Canon[r.key]
          BY <2>5, <4>3, <5>2 DEF Same
        <5> QED BY <5>3, <2>5 DEF KeysNaming
      <4>4. CASE r.tab # NoTab /\ KeyFor(r.tab) \cap Stored = {} /\ (s = read \/ Same(s, read))
        <5>1. read = name[r.tab]
          BY <4>4
        <5>2. FALSE
          BY <4>4, <5>1 DEF KeyFor, Same
        <5> QED BY <5>2
      <4> QED BY <2>5, <4>1, <4>2, <4>3, <4>4, <1>4
    <3>3. \A q \in Sent(c)' : q.key = s => q.do # "drop" /\ (q.do = "interval" => q.val = None)
      BY <2>2, <2>5
    <3>4. hash[s].interval = None \/ \E q \in Sent(c)' : q.do = "interval" /\ q.key = s
      BY <3>1, <3>2, <2>3
    <3> QED BY <3>3, <3>4, <1>5 DEF Becomes
  <2>6. r.tab # NoTab /\ ~job'[c].took => OwnerStands(job[c])'
    <3> SUFFICES ASSUME r.tab # NoTab, ~job'[c].took PROVE OwnerStands(job[c])'
      OBVIOUS
    <3>1. hash'[job'[c].key].root \in {p, NoOne}
      BY <1>2, <1>5, <1>10, <1>12
    <3>2. OwnerOf(job[c].tab, Claimed)' = job'[c].owner
      BY <1>2, <1>5, <1>6 DEF OwnerOf
    <3> QED BY <3>1, <3>2, <1>2 DEF OwnerStands
  <2>7. \A q \in Sent(c)' : q.do \in {"interval", "log"} \/ (q.do = "root" /\ q.key = job'[c].key /\ q.val = job'[c].project)
    BY <2>2, <1>2, <1>10, <1>12
  <2>8. \A s \in Keys \ {job'[c].key} :
          s = read \/ Same(s, read) \/ (job'[c].owner # NoOne /\ hash'[s].root = job'[c].owner) =>
            Becomes(c, s, "interval", None)'
    BY <2>5, <1>2, <1>5, <1>10, <1>12
  <2>9. job'[c].op = "interval" /\ (job'[c].tab # NoTab /\ ~job'[c].took => OwnerStands(job[c])')
    BY <2>6, <1>2, <1>12
  <2> HIDE DEF read, S
  <2>10. Pacing(c)'
    BY <2>4, <2>7, <2>8, <2>9, <1>9, <1>10, <1>12 DEF Pacing, Same
  <2> QED BY <2>9, <2>10 DEF Asked
<1>13. CASE op = "enable"
  <2> DEFINE key == IF r.tab # NoTab THEN name[r.tab] ELSE r.key
             siblings == KeysNaming(key, r.owner) \ {key}
             sent == Range(EnableCalls(p, r, i))
  <2>1. Sent(c)' = sent /\ job'[c].key = key /\ key \in Keys
    BY <1>2, <1>4, <1>6, <1>7, <1>13 DEF CallsOf
  <2>2. /\ Do("on", key, "on") \in sent
        /\ i # None => Do("interval", key, i) \in sent
        /\ \A q \in sent : q.key = key =>
             /\ q.do # "drop" /\ (q.do = "on" => q.val = "on")
             /\ i # None /\ q.do = "interval" => q.val = i
        /\ r.tab # NoTab =>
             /\ \A q \in sent : q.do \in Fields => q.key = key
             /\ \A s \in OldKeys(p, r.tab) : \E q \in sent : q.do = "drop" /\ q.key = s
        /\ r.tab = NoTab =>
             /\ \A q \in sent : q.do \in Fields \cup {"log"} /\ q.key \in {key} \cup siblings
             /\ \A s \in siblings : Do("on", s, "on") \in sent /\ (i # None => Do("interval", s, None) \in sent)
             /\ \A q \in sent : q.key # key => (q.do = "on" => q.val = "on") /\ (q.do = "interval" => q.val = None)
    BY <1>4, EnablingSends
  <2>3. read = key
    BY <2>1
  <2> HIDE DEF sent
  <2>4. Becomes(c, job[c].key, "on", "on")' /\ (i # None => Becomes(c, job[c].key, "interval", job[c].pick)')
    <3>1. \E q \in sent : q.do = "on" /\ q.key = key
      BY <2>2, <1>8
    <3>2. i # None => \E q \in sent : q.do = "interval" /\ q.key = key
      BY <2>2, <1>8
    <3> HIDE DEF key, siblings
    <3> QED BY <3>1, <3>2, <2>1, <2>2, <1>2 DEF Becomes
  <2>5. ASSUME r.tab # NoTab, NEW s \in Keys \ {key}, Same(s, key) \/ hash[s].root = p
        PROVE  Vanishes(c, s)'
    <3>1. \A q \in sent : q.key = s => q.do \notin Fields
      BY <2>2, <2>5
    <3>2. s \in Stored => s \in OldKeys(p, r.tab)
      <4>1. s # name[r.tab] /\ (hash[s].root = p \/ (Canon[s] # "" /\ Canon[s] = Canon[name[r.tab]]))
        BY <2>5 DEF Same
      <4> QED BY <4>1 DEF OldKeys
    <3>3. hash[s] = NoHash \/ \E q \in sent : q.do = "drop" /\ q.key = s
      BY <3>2, <2>2, <2>5 DEF Stored
    <3> HIDE DEF key
    <3> QED BY <3>1, <3>3, <2>1, <1>5 DEF Vanishes
  <2>6. ASSUME r.tab = NoTab, NEW s \in Keys \ {key}, Same(s, key)
        PROVE  \/ hash'[s] = NoHash /\ \A q \in Sent(c)' : q.key # s
               \/ Becomes(c, s, "on", "on")' /\ (i # None => Becomes(c, s, "interval", None)')
    <3>1. CASE s \notin Stored
      <4>1. hash[s] = NoHash /\ s \notin siblings
        BY <2>6, <3>1 DEF Stored, KeysNaming
      <4> HIDE DEF siblings, key
      <4>2. \A q \in sent : q.key # s
        BY <4>1, <2>2, <2>6
      <4> QED BY <4>1, <4>2, <2>1, <1>5
    <3>2. CASE s \in Stored
      <4>1. s \in siblings
        BY <2>6, <3>2 DEF KeysNaming, Same
      <4> HIDE DEF siblings, key
      <4>2. /\ \E q \in sent : q.do = "on" /\ q.key = s
            /\ i # None => \E q \in sent : q.do = "interval" /\ q.key = s
        <5>1. Do("on", s, "on") \in sent /\ (i # None => Do("interval", s, None) \in sent)
          BY <4>1, <2>2, <2>6
        <5> QED BY <5>1, <1>8
      <4>3. \A q \in sent : q.key = s =>
              q.do # "drop" /\ (q.do = "on" => q.val = "on") /\ (q.do = "interval" => q.val = None)
        BY <2>2, <2>6, <1>7
      <4> QED BY <4>2, <4>3, <2>1 DEF Becomes
    <3> QED BY <3>1, <3>2
  <2> HIDE DEF key, siblings, read
  <2>7. /\ job'[c].key = Read(job[c])' /\ job'[c].op = "enable"
        /\ job'[c].pick # None => Becomes(c, job[c].key, "interval", job[c].pick)'
        /\ job'[c].tab # NoTab =>
             /\ \A q \in Sent(c)' : q.do \in Fields => q.key = job'[c].key
             /\ \A s \in Keys \ {job'[c].key} :
                  Same(s, job'[c].key) \/ hash'[s].root = job'[c].project => Vanishes(c, s)'
        /\ job'[c].tab = NoTab =>
             /\ \A q \in Sent(c)' : q.do \in Fields \cup {"log"}
             /\ \A s \in Keys \ {job'[c].key} : Same(s, job'[c].key) =>
                  \/ hash'[s] = NoHash /\ \A q \in Sent(c)' : q.key # s
                  \/ Becomes(c, s, "on", "on")' /\ (job'[c].pick # None => Becomes(c, s, "interval", None)')
    BY <2>1, <2>2, <2>3, <2>4, <2>5, <2>6, <1>2, <1>5, <1>9, <1>13
  <2>8. Enabling(c)'
    BY <2>4, <2>7 DEF Enabling, Same
  <2> QED BY <2>7, <2>8 DEF Asked
<1> QED BY <1>11, <1>12, <1>13

\* A command that sees the same tabs and keys, and has as much yet to send.
LEMMA AskedStands ==
  ASSUME NEW c \in Callers, Asked(c), job'[c] = job[c], todo'[c] = todo[c], UNCHANGED <<hash, name, top>>
  PROVE  Asked(c)'
<1>1. Claimed' = Claimed /\ Sent(c)' = Sent(c)
  BY DEF Claimed, Sent
<1>2. \A k, f, v : Becomes(c, k, f, v)' <=> Becomes(c, k, f, v)
  BY <1>1 DEF Becomes
<1>3. \A k : Vanishes(c, k)' <=> Vanishes(c, k)
  BY <1>1 DEF Vanishes
<1>4. Read(job[c])' = Read(job[c])
  BY DEF Read
<1>5. OwnerOf(job[c].tab, Claimed)' = OwnerOf(job[c].tab, Claimed)
  BY <1>1 DEF OwnerOf
<1>6. (Names(job[c])' <=> Names(job[c])) /\ (OwnerStands(job[c])' <=> OwnerStands(job[c]))
  BY <1>4, <1>5 DEF Names, OwnerStands, Same
<1>7. Becomes(c, job[c].key, "on", "off")' <=> Becomes(c, job[c].key, "on", "off")
  BY <1>1 DEF Becomes
<1>8. Becomes(c, job[c].key, "on", "on")' <=> Becomes(c, job[c].key, "on", "on")
  BY <1>1 DEF Becomes
<1>9. Becomes(c, job[c].key, "interval", job[c].pick)' <=> Becomes(c, job[c].key, "interval", job[c].pick)
  BY <1>1 DEF Becomes
<1>10. Disabling(c) => Disabling(c)'
  BY <1>1, <1>6, <1>7 DEF Disabling
<1>11. Pacing(c) => Pacing(c)'
  BY <1>1, <1>2, <1>4, <1>6, <1>9 DEF Pacing, Same
<1>12. Enabling(c) => Enabling(c)'
  BY <1>1, <1>2, <1>3, <1>4, <1>8, <1>9 DEF Enabling, Same
<1> QED BY <1>10, <1>11, <1>12 DEF Asked

LEMMA AskedKept == TypeOK /\ (\A c \in Callers : Asked(c)) /\ [Next]_vars => \A c \in Callers : Asked(c)'
<1> SUFFICES ASSUME TypeOK, \A c \in Callers : Asked(c), [Next]_vars, NEW d \in Callers
             PROVE  Asked(d)'
  OBVIOUS
<1>0. /\ job \in [Callers -> Job \cup {NoJob}] /\ todo \in [Callers -> Seq(Request)]
      /\ \A x : x # d => Disturbed(x)[d] = IF job[d] = NoJob THEN job[d] ELSE [job[d] EXCEPT !.alone = FALSE]
  BY DEF TypeOK, Disturbed
<1>9. \A x : x # d /\ job'[d] = Disturbed(x)[d] => Asked(d)'
  <2> SUFFICES ASSUME NEW x, x # d, job'[d] = Disturbed(x)[d] PROVE Asked(d)'
    OBVIOUS
  <2>1. job'[d] = NoJob \/ job'[d].alone = FALSE
    BY <1>0 DEF Job
  <2> QED BY <2>1 DEF Asked
<1>1. ASSUME NEW c \in Callers, NEW op \in {"enable", "disable", "interval"}, NEW p \in Projects,
             NEW i \in Picks \cup {None}, Call(c, op, p, i)
      PROVE  Asked(d)'
  <2>1. CASE d = c
    BY <1>1, <2>1, AskedAtCall
  <2>2. CASE d # c
    <3>1. UNCHANGED <<hash, name, top>> /\ job'[d] = job[d] /\ todo'[d] = todo[d]
      BY <1>0, <1>1, <2>2 DEF Call, store, tabs
    <3> QED BY <3>1, AskedStands
  <2> QED BY <2>1, <2>2
<1>2. ASSUME NEW c \in Callers, Step(c)
      PROVE  Asked(d)'
  <2>1. CASE d = c /\ job[c] \in Job
    <3>1. job'[c] = job[c]
      BY <1>2, FieldStep
    <3> QED BY <1>2, <2>1, <3>1, DisablingStep, PacingStep, EnablingStep DEF Asked
  <2>2. CASE d = c /\ job[c] = NoJob
    <3>1. job'[c] = job[c]
      BY <1>2, FieldStep
    <3> QED BY <2>2, <3>1 DEF Asked
  <2>3. CASE d # c /\ <<hash, pane>>' = <<hash, pane>>
    <3>1. UNCHANGED <<hash, name, top>> /\ job'[d] = job[d] /\ todo'[d] = todo[d]
      BY <1>0, <1>2, <2>3 DEF Step, tabs
    <3> QED BY <3>1, AskedStands
  <2>4. CASE d # c /\ <<hash, pane>>' # <<hash, pane>>
    <3>1. job' = Disturbed(c)
      BY <1>2, <2>4 DEF Step
    <3> QED BY <3>1, <2>4, <1>9
  <2> QED BY <2>1, <2>2, <2>3, <2>4, <1>0
<1>3. ASSUME NEW c \in Callers, Return(c)
      PROVE  Asked(d)'
  <2>1. CASE d = c
    <3>1. job'[d] = NoJob
      BY <1>0, <1>3, <2>1 DEF Return
    <3> QED BY <3>1 DEF Asked
  <2>2. CASE d # c
    <3>1. UNCHANGED <<hash, name, top>> /\ job'[d] = job[d] /\ todo'[d] = todo[d]
      BY <1>0, <1>3, <2>2 DEF Return, store, tabs
    <3> QED BY <3>1, AskedStands
  <2> QED BY <2>1, <2>2
<1>4. ASSUME NEW c \in Callers, Stop(c)
      PROVE  Asked(d)'
  <2>1. CASE d = c
    <3>1. job'[d] = NoJob
      BY <1>0, <1>4, <2>1 DEF Stop
    <3> QED BY <3>1 DEF Asked
  <2>2. CASE d # c
    <3>1. UNCHANGED <<hash, name, top>> /\ job'[d] = job[d] /\ todo'[d] = todo[d]
      BY <1>0, <1>4, <2>2 DEF Stop, store, tabs
    <3> QED BY <3>1, AskedStands
  <2> QED BY <2>1, <2>2
<1>5. ASSUME NEW t \in Tabs, Beat(t)
      PROVE  Asked(d)'
  BY <1>5, AskedStands DEF Beat, tabs, running
<1>6. ASSUME NEW t \in Tabs, Arrange(t)
      PROVE  Asked(d)'
  <2>1. job' = Disturbed(NoOne) /\ NoOne # d
    BY <1>6, CrankAssumption DEF Arrange
  <2> QED BY <2>1, <1>9
<1>7. ASSUME NEW t \in Tabs, NEW v \in {"on", "off"}, Override(t, v)
      PROVE  Asked(d)'
  BY <1>7, AskedStands DEF Override, tabs, running
<1>8. CASE UNCHANGED vars
  BY <1>8, AskedStands DEF vars
<1> QED BY <1>1, <1>2, <1>3, <1>4, <1>5, <1>6, <1>7, <1>8 DEF Next

----------------------------------------------------------------------------
(* When a tab is due *)

\* TickFrom(t) is the first multiple of Cron from t on.
LEMMA TickFromIsFirst ==
  ASSUME NEW t \in Nat
  PROVE  /\ TickFrom(t) \in Nat
         /\ TickFrom(t) >= t
         /\ \A n \in Nat : n * Cron >= t => n * Cron >= TickFrom(t)
<1> DEFINE q == (t + 299) \div 300
<1>1. q \in Nat /\ q * 300 >= t /\ (q - 1) * 300 < t
  OBVIOUS
<1>2. TickFrom(t) = q * 300
  BY DEF TickFrom, Cron
<1>3. ASSUME NEW n \in Nat, n * 300 >= t PROVE n >= q
  BY <1>1, <1>3
<1> QED BY <1>1, <1>2, <1>3 DEF Cron

\* The longest of some intervals is one of them, and none of them is longer.
LEMMA LongestIsLongest ==
  ASSUME NEW S \in SUBSET Nat, NEW k \in S \ {None},
         NEW best \in S \ {None}, \A j \in S \ {None} : j <= best
  PROVE  Longest(S) \in S /\ \A j \in S : j <= Longest(S)
<1>1. Longest(S) \in S \ {None} /\ \A j \in S \ {None} : j <= Longest(S)
  BY DEF Longest
<1>2. Longest(S) \in Nat
  BY <1>1
<1>3. ASSUME NEW j \in S PROVE j <= Longest(S)
  <2>1. CASE j = None
    BY <1>2, <2>1 DEF None
  <2>2. CASE j # None
    BY <1>1, <2>2
  <2> QED BY <2>1, <2>2
<1> QED BY <1>1, <1>3

\* However long ago the last run was, at the next run that nextRunMs() shows isDue()
\* holds, and it holds at no tick between now and then.
THEOREM NextRunIsFirstDue ==
  ASSUME NEW i \in Nat, NEW last \in Nat \cup {Never}, NEW now \in Nat
  PROVE  /\ NextRun(i, last, now) >= now
         /\ Due(i, last, NextRun(i, last, now))
         /\ \A n \in Nat : n * Cron >= now /\ Due(i, last, n * Cron) => n * Cron >= NextRun(i, last, now)
<1> DEFINE free == last + (i - Grace)
<1>1. CASE i > Cron /\ last # Never /\ free > now
  <2>1. free \in Nat /\ NextRun(i, last, now) = TickFrom(free)
    BY <1>1 DEF NextRun, Grace, Cron, Never
  <2>2. \A n \in Nat : Due(i, last, n * Cron) => n * Cron >= free
    BY <1>1 DEF Due, Cron
  <2>3. TickFrom(free) \in Nat /\ TickFrom(free) >= free
    BY <2>1, TickFromIsFirst
  <2>4. \A n \in Nat : n * Cron >= free => n * Cron >= TickFrom(free)
    BY <2>1, TickFromIsFirst
  <2> QED BY <1>1, <2>1, <2>2, <2>3, <2>4 DEF Due
<1>2. CASE ~(i > Cron /\ last # Never /\ free > now)
  <2>1. NextRun(i, last, now) = TickFrom(now)
    BY <1>2 DEF NextRun
  <2>2. TickFrom(now) \in Nat /\ TickFrom(now) >= now
    BY TickFromIsFirst
  <2>3. \A n \in Nat : n * Cron >= now => n * Cron >= TickFrom(now)
    BY TickFromIsFirst
  <2>4. Due(i, last, TickFrom(now))
    BY <1>2, <2>2 DEF Due, Cron, Never, Grace
  <2> QED BY <2>1, <2>2, <2>3, <2>4
<1> QED BY <1>1, <1>2

----------------------------------------------------------------------------
LEMMA Invariance == Spec => []Inv
<1>1. Init => Inv
  BY InitInv
<1>2. Inv /\ [Next]_vars => Inv'
  BY NextInv
<1> QED BY <1>1, <1>2, PTL DEF Spec

\* The variables have their types, whatever the tabs are called, whoever holds them
\* and whatever runs at once: in particular every call of redis-cli is one that
\* pjangler makes, and an interval that a migration carries over is one of the picks.
THEOREM TypeCorrect == Spec => []TypeOK
<1>1. Inv => TypeOK
  BY DEF Inv
<1> QED BY <1>1, Invariance, PTL

\* No command loses a row of a log, however many merge old keys at once and wherever they
\* are killed, but one that is logged, or carried, between its reading and its replacing or
\* deleting of a log, and one after which at least LogCap were logged: what mergeLogRows()
\* and LTRIM leave out is no other.
THEOREM NoRowLost == Spec => []RowsKept
<1>1. Inv => RowsKept
  BY DEF Inv, AllThere, OldTrimmed, OldOnly, Seen, RowsKept
<1> QED BY <1>1, Invariance, PTL

\* A pane that is off under some spelling of its tab is off under some spelling after
\* each call of redis-cli, unless someone switched it on, or changed an override that
\* a migration had read.
THEOREM PaneOffStays == Spec => PaneStaysOff
<1>1. Inv /\ [Next]_vars =>
        [~raced'.pane /\ (\E k \in Keys : pane[k] = "off") => \E k \in Keys : pane'[k] = "off"]_vars
  BY NextInv DEF PaneStays
<1> QED BY <1>1, Invariance, PTL DEF Spec, PaneStaysOff

\* A command that nothing disturbs, neither another command nor the people at the tabs,
\* leaves the tab as asked, whatever spellings, roots and intervals it finds: disabled is
\* off, enabled is on and paced as picked unless another project holds the tab, and an
\* interval that is set is the one the engine goes by, unless setting it gave the tab away.
THEOREM AsAskedAlways == Spec => []AsAsked
<1> DEFINE All == \A c \in Callers : Asked(c)
<1>1. Init => All
  <2>1. Init => \A c \in Callers : job[c] = NoJob
    BY DEF Init
  <2> QED BY <2>1 DEF Asked
<1>2. TypeOK /\ All /\ [Next]_vars => All'
  BY AskedKept
<1>3. TypeOK /\ All => AsAsked
  BY AsAskedAtEnd
<1> HIDE DEF All
<1> QED BY <1>1, <1>2, <1>3, TypeCorrect, PTL DEF Spec
=============================================================================
