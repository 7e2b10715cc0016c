-------------------------- MODULE ApiPolicyRunProofs --------------------------
(***************************************************************************)
(* Proofs about ApiPolicyRun, for any policies and limits.                 *)
(*                                                                         *)
(* A policy's plan is a concatenation over its cases, and the ledger's     *)
(* totals are sums over the plan: what they are, for plans of any length,  *)
(* is proved by induction, in the form of a set of numbers (NatSets).      *)
(***************************************************************************)
EXTENDS ApiPolicyRun, SequenceTheorems, WellFoundedInduction, TLAPS

-----------------------------------------------------------------------------
(* Induction.                                                              *)

LEMMA NatSets ==
    ASSUME NEW S, 0 \in S, \A n \in Nat : n \in S => n + 1 \in S
    PROVE  \A n \in Nat : n \in S
<1> DEFINE R == {ss \in Nat \X Nat : ss[1] < ss[2]}
           T == Nat \ S
<1>1. IsWellFoundedOn(R, Nat)
  BY NatLessThanWellFounded DEF OpToRel
<1>2. \A a, b \in Nat : <<a, b>> \in R <=> a < b
  OBVIOUS
<1>3. SUFFICES ASSUME T # {} PROVE FALSE
  OBVIOUS
<1> HIDE DEF R
<1>4. PICK x \in T : \A y \in T : ~(<<y, x>> \in R)
  BY <1>1, <1>3, WFMin
<1>5. x # 0 /\ x - 1 \in Nat /\ (x - 1) + 1 = x /\ x - 1 < x
  OBVIOUS
<1>6. x - 1 \in T
  BY <1>5
<1>7. QED
  BY <1>2, <1>4, <1>5, <1>6

\* Max, when the greatest is known.
LEMMA MaxIs ==
    ASSUME NEW S \in SUBSET Nat, NEW x \in S, \A y \in S : x >= y
    PROVE  Max(S) = x
<1>1. \E m \in S : \A y \in S : m >= y
  OBVIOUS
<1>2. Max(S) \in S /\ \A y \in S : Max(S) >= y
  BY <1>1, Zenon DEF Max
<1>3. Max(S) \in Nat /\ Max(S) >= x /\ x >= Max(S)
  BY <1>2
<1>4. QED
  BY <1>3

\* FlattenSeq by its steps.
LEMMA Flattened ==
    ASSUME NEW seqs, Len(seqs) \in Nat \ {0}
    PROVE  \E f : /\ f = [i \in 1..Len(seqs) |-> IF i = 1 THEN seqs[i] ELSE f[i - 1] \o seqs[i]]
                  /\ FlattenSeq(seqs) = f[Len(seqs)]
<1> DEFINE Steps(n, g) == g = [i \in 1..n |-> IF i = 1 THEN seqs[i] ELSE g[i - 1] \o seqs[i]]
           S == {n \in Nat : \E g : Steps(n, g)}
<1>1. 0 \in S
  <2>1. Steps(0, [i \in 1..0 |-> 0])
    OBVIOUS
  <2>2. QED
    BY <2>1
<1>2. ASSUME NEW n \in Nat, n \in S PROVE n + 1 \in S
  <2>1. PICK g : Steps(n, g)
    BY <1>2
  <2> DEFINE h == [i \in 1..(n + 1) |-> IF i <= n THEN g[i]
                                         ELSE IF i = 1 THEN seqs[i] ELSE g[i - 1] \o seqs[i]]
  <2>2. ASSUME NEW i \in 1..(n + 1)
        PROVE  h[i] = IF i = 1 THEN seqs[i] ELSE h[i - 1] \o seqs[i]
    <3>1. CASE i <= n
      <4>1. i \in 1..n /\ (i # 1 => i - 1 \in 1..n /\ i - 1 \in 1..(n + 1) /\ i - 1 <= n)
        BY <3>1
      <4>2. g[i] = IF i = 1 THEN seqs[i] ELSE g[i - 1] \o seqs[i]
        BY <2>1, <4>1
      <4>3. h[i] = g[i] /\ (i # 1 => h[i - 1] = g[i - 1])
        BY <3>1, <4>1
      <4>4. QED
        BY <4>2, <4>3
    <3>2. CASE ~(i <= n)
      <4>1. i = n + 1 /\ (i # 1 => i - 1 \in 1..(n + 1) /\ i - 1 <= n)
        BY <3>2
      <4>2. QED
        BY <3>2, <4>1
    <3>3. QED
      BY <3>1, <3>2
  <2>3. Steps(n + 1, h)
    BY <2>2
  <2> HIDE DEF Steps, h
  <2>4. QED
    BY <2>3
<1> HIDE DEF S
<1>3. Len(seqs) \in S
  BY <1>1, <1>2, NatSets
<1>4. \E g : Steps(Len(seqs), g)
  BY <1>3 DEF S
<1>5. FlattenSeq(seqs) =
        (CHOOSE g : g = [i \in 1..Len(seqs) |-> IF i = 1 THEN seqs[i] ELSE g[i - 1] \o seqs[i]])[Len(seqs)]
  BY DEF FlattenSeq
<1>6. QED
  BY <1>4, <1>5, Zenon

-----------------------------------------------------------------------------
(* The plan.                                                               *)

Who(p) == ToSet(p.named) \cup UNION {ToSet(c.denied) : c \in ToSet(p.cases)}

Entries(p) ==
    [phase : {"identity-before", "owner-before", "deny", "owner-after", "identity-after"},
     actor : Who(p), case : 0..Len(p.cases)]

\* Case k fills the steps from b to e.
BlockAt(p, s, k, b, e) ==
    /\ b \in 1..Len(s) /\ e \in 1..Len(s) /\ b < e
    /\ \A i \in 1..Len(s) : s[i].case = k <=> b <= i /\ i <= e
    /\ s[b] = Entry("owner-before", p.cases[k].owner, k)
    /\ s[e] = Entry("owner-after", p.cases[k].owner, k)
    /\ \A i \in (b + 1)..(e - 1) : s[i].phase = "deny"

\* The first n cases.
CasesShaped(p, s, n) ==
    /\ s \in Seq(Entries(p))
    /\ \A i \in 1..Len(s) :
         s[i].case \in 1..n /\ s[i].phase \notin {"identity-before", "identity-after"}
    /\ \A k \in 1..n : \E b, e \in Nat : BlockAt(p, s, k, b, e)

LEMMA PolicyIs ==
    ASSUME NEW p \in Policies
    PROVE  /\ p.legacy \in BOOLEAN /\ p.named \in Seq(ToSet(p.named)) /\ IsInjective(p.named)
           /\ {Anonymous, "none"} \cap ToSet(p.named) = {}
           /\ Len(p.named) \in Nat /\ Len(p.cases) \in Nat \ {0}
           /\ DOMAIN p.named = 1..Len(p.named) /\ DOMAIN p.cases = 1..Len(p.cases)
           /\ \A i \in DOMAIN p.named : p.named[i] \in Who(p) /\ p.named[i] \in ToSet(p.named)
           /\ \A k \in DOMAIN p.cases :
                /\ p.cases[k].owner \in ToSet(p.named) /\ p.cases[k].owner \in Who(p)
                /\ Len(p.cases[k].denied) \in Nat \ {0}
                /\ DOMAIN p.cases[k].denied = 1..Len(p.cases[k].denied)
                /\ \A i \in DOMAIN p.cases[k].denied : p.cases[k].denied[i] \in Who(p)
<1>1. PolicyShape(p)
  BY PolicyAssumption
<1>2. /\ p.legacy \in BOOLEAN /\ p.named \in Seq(ToSet(p.named)) /\ IsInjective(p.named)
      /\ {Anonymous, "none"} \cap ToSet(p.named) = {}
      /\ p.cases \in Seq(ToSet(p.cases)) /\ p.cases # <<>>
  BY <1>1 DEF PolicyShape
<1>3. /\ Len(p.named) \in Nat /\ DOMAIN p.named = 1..Len(p.named)
      /\ Len(p.cases) \in Nat \ {0} /\ DOMAIN p.cases = 1..Len(p.cases)
  BY <1>2, LenProperties, EmptySeq
<1>4. \A i \in DOMAIN p.named : p.named[i] \in ToSet(p.named)
  BY DEF ToSet
<1>5. ASSUME NEW k \in DOMAIN p.cases
      PROVE  /\ p.cases[k].owner \in ToSet(p.named)
             /\ Len(p.cases[k].denied) \in Nat \ {0}
             /\ DOMAIN p.cases[k].denied = 1..Len(p.cases[k].denied)
             /\ \A i \in DOMAIN p.cases[k].denied : p.cases[k].denied[i] \in Who(p)
  <2>1. p.cases[k] \in ToSet(p.cases)
    BY DEF ToSet
  <2>2. /\ p.cases[k].owner \in ToSet(p.named)
        /\ p.cases[k].denied \in Seq(ToSet(p.cases[k].denied)) /\ p.cases[k].denied # <<>>
    BY <1>1, <2>1 DEF PolicyShape
  <2>3. /\ Len(p.cases[k].denied) \in Nat \ {0}
        /\ DOMAIN p.cases[k].denied = 1..Len(p.cases[k].denied)
    BY <2>2, LenProperties, EmptySeq
  <2>4. \A i \in DOMAIN p.cases[k].denied : p.cases[k].denied[i] \in ToSet(p.cases[k].denied)
    BY DEF ToSet
  <2>5. QED
    BY <2>1, <2>2, <2>3, <2>4 DEF Who
<1>6. QED
  BY <1>2, <1>3, <1>4, <1>5 DEF Who

LEMMA EntryIs ==
    \A phase, actor, case : /\ Entry(phase, actor, case).phase = phase
                            /\ Entry(phase, actor, case).actor = actor
                            /\ Entry(phase, actor, case).case = case
BY DEF Entry

LEMMA CasePlanIs ==
    ASSUME NEW p \in Policies, NEW k \in 1..Len(p.cases)
    PROVE  /\ CasePlan(p, k) \in Seq(Entries(p))
           /\ \E m \in Nat :
                /\ Len(CasePlan(p, k)) = m /\ m > 1
                /\ CasePlan(p, k)[1] = Entry("owner-before", p.cases[k].owner, k)
                /\ CasePlan(p, k)[m] = Entry("owner-after", p.cases[k].owner, k)
                /\ \A i \in 2..(m - 1) : CasePlan(p, k)[i].phase = "deny"
                /\ \A i \in 1..m : CasePlan(p, k)[i].case = k
<1>0. k \in DOMAIN p.cases /\ k \in 0..Len(p.cases)
  BY PolicyIs
<1> DEFINE c     == p.cases[k]
           n     == Len(c.denied)
           one   == <<Entry("owner-before", c.owner, k)>>
           mid   == [i \in DOMAIN c.denied |-> Entry("deny", c.denied[i], k)]
           last  == <<Entry("owner-after", c.owner, k)>>
           two   == one \o mid
           plan  == two \o last
<1>1. n \in Nat \ {0} /\ DOMAIN c.denied = 1..n
  BY <1>0, PolicyIs
<1>2. /\ Entry("owner-before", c.owner, k) \in Entries(p)
      /\ Entry("owner-after", c.owner, k) \in Entries(p)
      /\ \A i \in 1..n : Entry("deny", c.denied[i], k) \in Entries(p)
  BY <1>0, <1>1, PolicyIs DEF Entry, Entries
<1>3. one \in Seq(Entries(p)) /\ Len(one) = 1 /\ one[1] = Entry("owner-before", c.owner, k)
  BY <1>2
<1>4. last \in Seq(Entries(p)) /\ Len(last) = 1 /\ last[1] = Entry("owner-after", c.owner, k)
  BY <1>2
<1>5. /\ mid \in Seq(Entries(p)) /\ Len(mid) = n
      /\ \A i \in 1..n : mid[i] = Entry("deny", c.denied[i], k)
  BY <1>1, <1>2
<1>6. CasePlan(p, k) = plan
  BY DEF CasePlan
<1> HIDE DEF one, mid, last
<1>7. /\ two \in Seq(Entries(p)) /\ Len(two) = 1 + n
      /\ \A i \in 1..(1 + n) : two[i] = IF i <= 1 THEN one[i] ELSE mid[i - 1]
  <2>1. /\ one \o mid \in Seq(Entries(p)) /\ Len(one \o mid) = Len(one) + Len(mid)
        /\ \A i \in 1..Len(one) + Len(mid) :
             (one \o mid)[i] = IF i <= Len(one) THEN one[i] ELSE mid[i - Len(one)]
    <3>1. one \in Seq(Entries(p)) /\ mid \in Seq(Entries(p))
      BY <1>3, <1>5
    <3>2. QED
      BY <3>1, ConcatProperties
  <2>2. QED
    BY <1>3, <1>5, <2>1, Zenon
<1> HIDE DEF two
<1>8. /\ plan \in Seq(Entries(p)) /\ Len(plan) = 1 + n + 1
      /\ \A i \in 1..(1 + n + 1) : plan[i] = IF i <= 1 + n THEN two[i] ELSE last[i - (1 + n)]
  <2>1. /\ plan \in Seq(Entries(p)) /\ Len(plan) = Len(two) + Len(last)
        /\ \A i \in 1..Len(two) + Len(last) :
             plan[i] = IF i <= Len(two) THEN two[i] ELSE last[i - Len(two)]
    BY <1>4, <1>7, ConcatProperties
  <2> HIDE DEF plan
  <2>2. QED
    BY <1>4, <1>7, <2>1, Zenon
<1> HIDE DEF plan, n
<1>9. /\ plan[1] = Entry("owner-before", c.owner, k)
      /\ plan[n + 2] = Entry("owner-after", c.owner, k)
      /\ \A i \in 2..(n + 1) : plan[i] = Entry("deny", c.denied[i - 1], k)
  <2>1. plan[1] = Entry("owner-before", c.owner, k)
    BY <1>1, <1>3, <1>7, <1>8
  <2>2. plan[n + 2] = Entry("owner-after", c.owner, k)
    <3>1. n + 2 \in 1..(1 + n + 1) /\ ~(n + 2 <= 1 + n) /\ (n + 2) - (1 + n) = 1
      BY <1>1
    <3>2. plan[n + 2] = last[(n + 2) - (1 + n)]
      BY <1>8, <3>1
    <3>3. QED
      BY <1>4, <3>1, <3>2, Zenon
  <2>3. ASSUME NEW i \in 2..(n + 1) PROVE plan[i] = Entry("deny", c.denied[i - 1], k)
    <3>1. i \in 1..(1 + n + 1) /\ i <= 1 + n /\ i \in 1..(1 + n) /\ ~(i <= 1) /\ i - 1 \in 1..n
      BY <1>1
    <3>2. plan[i] = mid[i - 1]
      BY <1>7, <1>8, <3>1
    <3>3. QED
      BY <1>5, <3>1, <3>2
  <2>4. QED
    BY <2>1, <2>2, <2>3
<1>10. \A i \in 1..(n + 2) : plan[i].case = k
  <2>1. SUFFICES ASSUME NEW i \in 1..(n + 2) PROVE plan[i].case = k
    OBVIOUS
  <2>2. i = 1 \/ i = n + 2 \/ i \in 2..(n + 1)
    BY <1>1
  <2>3. QED
    BY <1>9, <2>2, EntryIs
<1>11. \A i \in 2..(n + 1) : plan[i].phase = "deny"
  BY <1>9, EntryIs
<1>12. /\ n + 2 \in Nat /\ n + 2 > 1 /\ (n + 2) - 1 = n + 1 /\ Len(plan) = n + 2
  BY <1>1, <1>8
<1>13. QED
  BY <1>6, <1>8, <1>9, <1>10, <1>11, <1>12

\* One more case.
LEMMA Extended ==
    ASSUME NEW p \in Policies, NEW n \in Nat, n + 1 \in 1..Len(p.cases),
           NEW s, CasesShaped(p, s, n)
    PROVE  CasesShaped(p, s \o CasePlan(p, n + 1), n + 1)
<1> DEFINE c == CasePlan(p, n + 1)
           t == s \o c
<1>1. c \in Seq(Entries(p))
  BY CasePlanIs
<1>2. PICK m \in Nat : /\ Len(c) = m /\ m > 1
                       /\ c[1] = Entry("owner-before", p.cases[n + 1].owner, n + 1)
                       /\ c[m] = Entry("owner-after", p.cases[n + 1].owner, n + 1)
                       /\ \A i \in 2..(m - 1) : c[i].phase = "deny"
                       /\ \A i \in 1..m : c[i].case = n + 1
  BY CasePlanIs
<1> HIDE DEF c
<1>3. PICK l \in Nat : Len(s) = l
  BY LenProperties DEF CasesShaped
<1>4. /\ t \in Seq(Entries(p)) /\ Len(t) = l + m
      /\ \A i \in 1..(l + m) : t[i] = IF i <= l THEN s[i] ELSE c[i - l]
  <2>1. s \in Seq(Entries(p))
    BY DEF CasesShaped
  <2>2. /\ t \in Seq(Entries(p)) /\ Len(t) = Len(s) + Len(c)
        /\ \A i \in 1..Len(s) + Len(c) : t[i] = IF i <= Len(s) THEN s[i] ELSE c[i - Len(s)]
    BY <1>1, <2>1, ConcatProperties
  <2> HIDE DEF t
  <2>3. QED
    BY <1>2, <1>3, <2>2, Zenon
<1> HIDE DEF t
<1>5. /\ \A i \in 1..l : i \in 1..(l + m) /\ t[i] = s[i]
      /\ \A i \in 1..m : l + i \in 1..(l + m) /\ t[l + i] = c[i]
  <2>1. ASSUME NEW i \in 1..l PROVE i \in 1..(l + m) /\ i <= l
    BY <1>2
  <2>2. ASSUME NEW i \in 1..m PROVE l + i \in 1..(l + m) /\ ~(l + i <= l) /\ (l + i) - l = i
    BY <1>2
  <2>3. ASSUME NEW i \in 1..m PROVE t[l + i] = c[i]
    <3>1. t[l + i] = c[(l + i) - l]
      BY <1>4, <2>2
    <3>2. QED
      BY <2>2, <3>1
  <2>4. QED
    BY <1>4, <2>1, <2>2, <2>3
<1>6. \A i \in 1..(l + m) : i \in 1..l \/ (i - l \in 1..m /\ l + (i - l) = i /\ i > l)
  BY <1>2
<1>7. /\ \A i \in 1..l : s[i].case \in 1..n
      /\ \A i \in 1..l : s[i].phase \notin {"identity-before", "identity-after"}
  BY <1>3 DEF CasesShaped
<1>8. \A i \in 1..m : c[i].phase \notin {"identity-before", "identity-after"}
  <2>1. \A i \in 1..m : i = 1 \/ i = m \/ i \in 2..(m - 1)
    BY <1>2
  <2>2. QED
    BY <1>2, <2>1, EntryIs
<1>9. ASSUME NEW i \in 1..Len(t)
      PROVE  t[i].case \in 1..(n + 1) /\ t[i].phase \notin {"identity-before", "identity-after"}
  <2>1. CASE i \in 1..l
    BY <1>5, <1>7, <2>1
  <2>2. CASE i - l \in 1..m /\ l + (i - l) = i
    <3>1. t[i] = c[i - l]
      BY <1>5, <2>2
    <3>2. QED
      BY <1>2, <1>8, <2>2, <3>1
  <2>3. QED
    BY <1>4, <1>6, <2>1, <2>2
<1>10. ASSUME NEW k \in 1..n PROVE \E b, e \in Nat : BlockAt(p, t, k, b, e)
  <2>1. PICK b \in Nat, e \in Nat : BlockAt(p, s, k, b, e)
    BY DEF CasesShaped
  <2>2. /\ b \in 1..l /\ e \in 1..l /\ b < e
        /\ \A i \in 1..l : s[i].case = k <=> b <= i /\ i <= e
        /\ s[b] = Entry("owner-before", p.cases[k].owner, k)
        /\ s[e] = Entry("owner-after", p.cases[k].owner, k)
        /\ \A i \in (b + 1)..(e - 1) : s[i].phase = "deny"
    BY <1>3, <2>1 DEF BlockAt
  <2>3. ASSUME NEW i \in 1..(l + m) PROVE t[i].case = k <=> b <= i /\ i <= e
    <3>1. CASE i \in 1..l
      BY <1>5, <2>2, <3>1
    <3>2. CASE i - l \in 1..m /\ l + (i - l) = i /\ i > l
      <4>1. t[i] = c[i - l]
        BY <1>5, <3>2
      <4>2. t[i].case = n + 1 /\ k # n + 1 /\ ~(i <= e)
        BY <1>2, <2>2, <3>2, <4>1
      <4>3. QED
        BY <4>2
    <3>3. QED
      BY <1>6, <3>1, <3>2
  <2>4. ASSUME NEW i \in (b + 1)..(e - 1) PROVE t[i].phase = "deny"
    <3>1. i \in 1..l
      BY <2>2
    <3>2. s[i].phase = "deny" /\ t[i] = s[i]
      BY <1>5, <2>2, <3>1
    <3>3. QED
      BY <3>2
  <2>5. b \in 1..(l + m) /\ e \in 1..(l + m) /\ t[b] = s[b] /\ t[e] = s[e]
    BY <1>5, <2>2
  <2>6. BlockAt(p, t, k, b, e)
    BY <1>4, <2>2, <2>3, <2>4, <2>5 DEF BlockAt
  <2>7. QED
    BY <2>6
<1>11. \E b, e \in Nat : BlockAt(p, t, n + 1, b, e)
  <2>1. ASSUME NEW i \in 1..(l + m) PROVE t[i].case = n + 1 <=> l + 1 <= i /\ i <= l + m
    <3>1. CASE i \in 1..l
      <4>1. t[i].case \in 1..n
        BY <1>5, <1>7, <3>1
      <4>2. QED
        BY <3>1, <4>1
    <3>2. CASE i - l \in 1..m /\ l + (i - l) = i /\ i > l
      <4>1. t[i] = c[i - l]
        BY <1>5, <3>2
      <4>2. QED
        BY <1>2, <3>2, <4>1
    <3>3. QED
      BY <1>6, <3>1, <3>2
  <2>2. t[l + 1] = c[1] /\ t[l + m] = c[m] /\ l + 1 \in 1..(l + m) /\ l + m \in 1..(l + m)
    BY <1>2, <1>5
  <2>3. ASSUME NEW i \in (l + 1 + 1)..(l + m - 1) PROVE t[i].phase = "deny"
    <3>1. i - l \in 1..m /\ l + (i - l) = i /\ i - l \in 2..(m - 1)
      BY <1>2
    <3>2. t[i] = c[i - l]
      BY <1>5, <3>1
    <3>3. QED
      BY <1>2, <3>1, <3>2
  <2>4. l + 1 < l + m /\ l + 1 \in Nat /\ l + m \in Nat
    BY <1>2
  <2>5. BlockAt(p, t, n + 1, l + 1, l + m)
    BY <1>2, <1>4, <2>1, <2>2, <2>3, <2>4 DEF BlockAt
  <2>6. QED
    BY <2>4, <2>5
<1>12. \A k \in 1..(n + 1) : \E b, e \in Nat : BlockAt(p, t, k, b, e)
  <2>1. \A k \in 1..(n + 1) : k \in 1..n \/ k = n + 1
    OBVIOUS
  <2>2. QED
    BY <1>10, <1>11, <2>1
<1>13. CasesShaped(p, t, n + 1)
  BY <1>4, <1>9, <1>12 DEF CasesShaped
<1>14. QED
  BY <1>13 DEF t, c

\* All the cases.
LEMMA CasesAre ==
    ASSUME NEW p \in Policies
    PROVE  CasesShaped(p, FlattenSeq([k \in DOMAIN p.cases |-> CasePlan(p, k)]), Len(p.cases))
<1> DEFINE K    == Len(p.cases)
           seqs == [k \in DOMAIN p.cases |-> CasePlan(p, k)]
<1>1. K \in Nat \ {0} /\ DOMAIN p.cases = 1..K
  BY PolicyIs
<1>2. Len(seqs) = K /\ \A k \in 1..K : seqs[k] = CasePlan(p, k)
  BY <1>1
<1> HIDE DEF seqs, K
<1>3. PICK f : /\ f = [i \in 1..K |-> IF i = 1 THEN seqs[i] ELSE f[i - 1] \o seqs[i]]
               /\ FlattenSeq(seqs) = f[K]
  BY <1>1, <1>2, Flattened
<1> DEFINE S == {n \in Nat : n + 1 <= K => CasesShaped(p, f[n + 1], n + 1)}
<1>4. 0 \in S
  <2>1. f[1] = CasePlan(p, 1) /\ 1 \in 1..K
    BY <1>1, <1>2, <1>3
  <2>2. <<>> \in Seq(Entries(p)) /\ Len(<<>>) = 0
    OBVIOUS
  <2>3. CasesShaped(p, <<>>, 0)
    BY <2>2 DEF CasesShaped
  <2>4. CasesShaped(p, <<>> \o CasePlan(p, 1), 1)
    <3>1. 0 \in Nat /\ 0 + 1 = 1 /\ 0 + 1 \in 1..Len(p.cases)
      BY <2>1 DEF K
    <3>2. CasesShaped(p, <<>> \o CasePlan(p, 0 + 1), 0 + 1)
      BY <2>3, <3>1, Extended
    <3>3. QED
      BY <3>1, <3>2
  <2>5. <<>> \o CasePlan(p, 1) = CasePlan(p, 1)
    <3>1. CasePlan(p, 1) \in Seq(Entries(p))
      BY <2>1, CasePlanIs DEF K
    <3>2. QED
      BY <3>1, ConcatEmptySeq
  <2>6. QED
    BY <2>1, <2>4, <2>5
<1>5. ASSUME NEW n \in Nat, n \in S PROVE n + 1 \in S
  <2>1. SUFFICES ASSUME n + 1 + 1 <= K PROVE CasesShaped(p, f[n + 1 + 1], n + 1 + 1)
    OBVIOUS
  <2>2. n + 1 \in 1..K /\ n + 1 + 1 \in 1..K /\ n + 1 + 1 # 1 /\ (n + 1 + 1) - 1 = n + 1 /\ n + 1 \in Nat
    BY <1>1, <2>1
  <2>3. CasesShaped(p, f[n + 1], n + 1)
    BY <1>5, <2>2
  <2>4. f[n + 1 + 1] = f[n + 1] \o CasePlan(p, n + 1 + 1)
    <3>1. f[n + 1 + 1] = f[(n + 1 + 1) - 1] \o seqs[n + 1 + 1]
      BY <1>3, <2>2, Zenon
    <3>2. QED
      BY <1>2, <2>2, <3>1, Zenon
  <2>5. CasesShaped(p, f[n + 1] \o CasePlan(p, n + 1 + 1), n + 1 + 1)
    BY <2>2, <2>3, Extended DEF K
  <2>6. QED
    BY <2>4, <2>5
<1> HIDE DEF S
<1>6. K - 1 \in S
  <2>1. K - 1 \in Nat
    BY <1>1
  <2>2. QED
    BY <1>4, <1>5, <2>1, NatSets
<1>7. CasesShaped(p, f[K], K)
  <2>1. (K - 1) + 1 = K
    BY <1>1
  <2>2. CasesShaped(p, f[(K - 1) + 1], (K - 1) + 1)
    BY <1>1, <1>6, <2>1 DEF S
  <2>3. QED
    BY <2>1, <2>2
<1>8. QED
  BY <1>3, <1>7 DEF seqs, K

\* The identities at both ends, m of them, and between them l steps of cases.
PlanShape(p, s, m, l) ==
    /\ s \in Seq(Entries(p)) /\ m \in Nat /\ l \in Nat \ {0} /\ Len(s) = m + l + m
    /\ m # 0 => ~p.legacy /\ m = Len(p.named)
    /\ \A i \in 1..m : /\ s[i] = Entry("identity-before", p.named[i], 0)
                       /\ s[m + l + i] = Entry("identity-after", p.named[i], 0)
    /\ \A i \in (m + 1)..(m + l) :
         /\ s[i].case \in 1..Len(p.cases)
         /\ s[i].phase \notin {"identity-before", "identity-after"}
    /\ \A k \in 1..Len(p.cases) : \E b, e \in Nat : BlockAt(p, s, k, b, e)

LEMMA IdentitiesAre ==
    ASSUME NEW p \in Policies, NEW phase \in {"identity-before", "identity-after"}
    PROVE  /\ Identities(p, phase) \in Seq(Entries(p))
           /\ Len(Identities(p, phase)) = IF p.legacy THEN 0 ELSE Len(p.named)
           /\ \A i \in 1..Len(Identities(p, phase)) :
                Identities(p, phase)[i] = Entry(phase, p.named[i], 0)
<1>1. CASE p.legacy
  BY <1>1 DEF Identities
<1>2. CASE ~p.legacy
  <2>1. Identities(p, phase) = [i \in 1..Len(p.named) |-> Entry(phase, p.named[i], 0)]
        /\ Len(p.named) \in Nat
    BY <1>2, PolicyIs DEF Identities
  <2>2. \A i \in 1..Len(p.named) : Entry(phase, p.named[i], 0) \in Entries(p)
    BY PolicyIs DEF Entry, Entries
  <2>3. QED
    BY <1>2, <2>1, <2>2
<1>3. QED
  BY <1>1, <1>2, PolicyIs

LEMMA PlanOfIs ==
    ASSUME NEW p \in Policies
    PROVE  \E m, l \in Nat : PlanShape(p, PlanOf[p], m, l)
<1> DEFINE K   == Len(p.cases)
           a   == Identities(p, "identity-before")
           mid == FlattenSeq([k \in DOMAIN p.cases |-> CasePlan(p, k)])
           z   == Identities(p, "identity-after")
           am  == a \o mid
           s   == am \o z
           m   == IF p.legacy THEN 0 ELSE Len(p.named)
<1>0. PlanOf[p] = s
  BY DEF PlanOf
<1>1. K \in Nat \ {0} /\ m \in Nat /\ (m # 0 => ~p.legacy /\ m = Len(p.named))
  BY PolicyIs
<1>2. /\ a \in Seq(Entries(p)) /\ Len(a) = m
      /\ \A i \in 1..m : a[i] = Entry("identity-before", p.named[i], 0)
  BY IdentitiesAre
<1>3. /\ z \in Seq(Entries(p)) /\ Len(z) = m
      /\ \A i \in 1..m : z[i] = Entry("identity-after", p.named[i], 0)
  BY IdentitiesAre
<1>4. CasesShaped(p, mid, K)
  BY CasesAre
<1> HIDE DEF a, mid, z, m, K
<1>5. mid \in Seq(Entries(p))
  BY <1>4 DEF CasesShaped
<1>6. PICK l \in Nat : Len(mid) = l
  BY <1>5, LenProperties
<1>7. /\ am \in Seq(Entries(p)) /\ Len(am) = m + l
      /\ \A i \in 1..(m + l) : am[i] = IF i <= m THEN a[i] ELSE mid[i - m]
  <2>1. /\ am \in Seq(Entries(p)) /\ Len(am) = Len(a) + Len(mid)
        /\ \A i \in 1..Len(a) + Len(mid) : am[i] = IF i <= Len(a) THEN a[i] ELSE mid[i - Len(a)]
    BY <1>2, <1>5, ConcatProperties
  <2> HIDE DEF am
  <2>2. QED
    BY <1>2, <1>6, <2>1, Zenon
<1> HIDE DEF am
<1>8. /\ s \in Seq(Entries(p)) /\ Len(s) = m + l + m
      /\ \A i \in 1..(m + l + m) : s[i] = IF i <= m + l THEN am[i] ELSE z[i - (m + l)]
  <2>1. /\ s \in Seq(Entries(p)) /\ Len(s) = Len(am) + Len(z)
        /\ \A i \in 1..Len(am) + Len(z) : s[i] = IF i <= Len(am) THEN am[i] ELSE z[i - Len(am)]
    BY <1>3, <1>7, ConcatProperties
  <2> HIDE DEF s
  <2>2. QED
    BY <1>3, <1>7, <2>1, Zenon
<1> HIDE DEF s
<1>9. ASSUME NEW i \in 1..m
      PROVE  /\ s[i] = Entry("identity-before", p.named[i], 0)
             /\ s[m + l + i] = Entry("identity-after", p.named[i], 0)
  <2>1. /\ i \in 1..(m + l + m) /\ i <= m + l /\ i \in 1..(m + l) /\ i <= m
        /\ m + l + i \in 1..(m + l + m) /\ ~(m + l + i <= m + l) /\ (m + l + i) - (m + l) = i
    BY <1>1
  <2>2. s[i] = a[i]
    BY <1>7, <1>8, <2>1
  <2>3. s[m + l + i] = z[(m + l + i) - (m + l)]
    BY <1>8, <2>1
  <2>4. QED
    BY <1>2, <1>3, <2>1, <2>2, <2>3
<1>10. ASSUME NEW i \in 1..l
       PROVE  m + i \in 1..(m + l + m) /\ s[m + i] = mid[i]
  <2>1. /\ m + i \in 1..(m + l + m) /\ m + i <= m + l /\ m + i \in 1..(m + l)
        /\ ~(m + i <= m) /\ (m + i) - m = i
    BY <1>1
  <2>2. s[m + i] = am[m + i]
    BY <1>8, <2>1
  <2>3. am[m + i] = mid[(m + i) - m]
    BY <1>7, <2>1
  <2>4. QED
    BY <2>1, <2>2, <2>3
<1>11. ASSUME NEW i \in (m + 1)..(m + l)
       PROVE  /\ s[i].case \in 1..K /\ s[i].phase \notin {"identity-before", "identity-after"}
              /\ i - m \in 1..l /\ s[i] = mid[i - m]
  <2>1. i - m \in 1..l /\ m + (i - m) = i
    BY <1>1
  <2>2. s[i] = mid[i - m]
    BY <1>10, <2>1
  <2>3. QED
    BY <1>4, <1>6, <2>1, <2>2 DEF CasesShaped
<1>12. ASSUME NEW k \in 1..K PROVE \E b, e \in Nat : BlockAt(p, s, k, b, e)
  <2>1. PICK b \in Nat, e \in Nat : BlockAt(p, mid, k, b, e)
    BY <1>4 DEF CasesShaped
  <2>2. /\ b \in 1..l /\ e \in 1..l /\ b < e
        /\ \A i \in 1..l : mid[i].case = k <=> b <= i /\ i <= e
        /\ mid[b] = Entry("owner-before", p.cases[k].owner, k)
        /\ mid[e] = Entry("owner-after", p.cases[k].owner, k)
        /\ \A i \in (b + 1)..(e - 1) : mid[i].phase = "deny"
    BY <1>6, <2>1 DEF BlockAt
  <2>3. ASSUME NEW i \in 1..(m + l + m) PROVE s[i].case = k <=> m + b <= i /\ i <= m + e
    <3>1. CASE i \in 1..m
      <4>1. s[i].case = 0 /\ k # 0
        BY <1>1, <1>9, <3>1, EntryIs
      <4>2. ~(m + b <= i)
        BY <1>1, <2>2, <3>1
      <4>3. QED
        BY <4>1, <4>2
    <3>2. CASE i \in (m + 1)..(m + l)
      <4>1. i - m \in 1..l /\ s[i] = mid[i - m]
        BY <1>11, <3>2
      <4>2. s[i].case = k <=> b <= i - m /\ i - m <= e
        BY <2>2, <4>1
      <4>3. QED
        BY <1>1, <2>2, <3>2, <4>2
    <3>3. CASE i \in (m + l + 1)..(m + l + m)
      <4>1. i - (m + l) \in 1..m /\ m + l + (i - (m + l)) = i
        BY <1>1, <3>3
      <4>2. s[i].case = 0 /\ k # 0
        <5>1. s[m + l + (i - (m + l))] = Entry("identity-after", p.named[i - (m + l)], 0)
          BY <1>9, <4>1
        <5>2. s[i] = Entry("identity-after", p.named[i - (m + l)], 0)
          BY <4>1, <5>1
        <5>3. QED
          BY <1>1, <5>2, EntryIs
      <4>3. ~(i <= m + e)
        BY <1>1, <2>2, <3>3
      <4>4. QED
        BY <4>2, <4>3
    <3>4. QED
      BY <1>1, <3>1, <3>2, <3>3
  <2>4. \A i \in ((m + b) + 1)..((m + e) - 1) : s[i].phase = "deny"
    <3>1. SUFFICES ASSUME NEW i \in ((m + b) + 1)..((m + e) - 1) PROVE s[i].phase = "deny"
      OBVIOUS
    <3>2. i \in (m + 1)..(m + l) /\ i - m \in (b + 1)..(e - 1)
      BY <1>1, <2>2
    <3>3. QED
      BY <1>11, <2>2, <3>2
  <2>5. /\ m + b \in 1..(m + l + m) /\ m + e \in 1..(m + l + m) /\ m + b < m + e
        /\ s[m + b] = mid[b] /\ s[m + e] = mid[e] /\ m + b \in Nat /\ m + e \in Nat
    BY <1>1, <1>10, <2>2
  <2>6. BlockAt(p, s, k, m + b, m + e)
    <3>1. Len(s) = m + l + m
      BY <1>8
    <3>2. /\ m + b \in 1..Len(s) /\ m + e \in 1..Len(s)
          /\ \A i \in 1..Len(s) : s[i].case = k <=> m + b <= i /\ i <= m + e
      BY <2>3, <2>5, <3>1, Zenon
    <3>3. /\ s[m + b] = Entry("owner-before", p.cases[k].owner, k)
          /\ s[m + e] = Entry("owner-after", p.cases[k].owner, k)
      BY <2>2, <2>5, Zenon
    <3>4. m + b < m + e
      BY <2>5
    <3>5. QED
      BY <2>4, <3>2, <3>3, <3>4, Zenon DEF BlockAt
  <2>7. QED
    BY <2>5, <2>6
<1>13. l # 0
  <2>1. 1 \in 1..K
    BY <1>1
  <2>2. \E b, e \in Nat : BlockAt(p, mid, 1, b, e)
    BY <1>4, <2>1 DEF CasesShaped
  <2>3. QED
    BY <1>6, <2>2 DEF BlockAt
<1>14. PlanShape(p, s, m, l)
  BY <1>1, <1>8, <1>9, <1>11, <1>12, <1>13 DEF PlanShape, K
<1>15. QED
  BY <1>0, <1>1, <1>14

Identifying == {"identity-before", "identity-after"}

\* The plan of the run: the identities before all the rest, each of them once
\* at either end, and between them one block of steps for each case.
LEMMA PlanIs ==
    ASSUME policy \in Policies
    PROVE  /\ Plan \in Seq(Entries(policy)) /\ Len(Plan) \in Nat \ {0} /\ Ordinals = 1..Len(Plan)
           /\ \A i \in Ordinals :
                IF Plan[i].phase \in Identifying
                THEN Plan[i].case = 0 /\ Plan[i].actor \in Named /\ ~policy.legacy
                ELSE Plan[i].case \in 1..Len(policy.cases)
           /\ \A i, j \in Ordinals :
                Plan[i].phase = "identity-before" /\ Plan[j].phase # "identity-before" => i < j
           /\ \A i, j \in Ordinals :
                Plan[i].phase \in Identifying
                /\ Plan[j].phase = Plan[i].phase /\ Plan[j].actor = Plan[i].actor => i = j
           /\ \A k \in 1..Len(policy.cases) : \E b, e \in Nat : BlockAt(policy, Plan, k, b, e)
<1> DEFINE s == Plan
<1>1. PICK m \in Nat, l \in Nat : PlanShape(policy, s, m, l)
  BY PlanOfIs DEF Plan
<1> HIDE DEF s
<1>2. /\ s \in Seq(Entries(policy)) /\ l # 0 /\ Len(s) = m + l + m
      /\ m # 0 => ~policy.legacy /\ m = Len(policy.named)
      /\ \A i \in 1..m : /\ s[i] = Entry("identity-before", policy.named[i], 0)
                         /\ s[m + l + i] = Entry("identity-after", policy.named[i], 0)
      /\ \A i \in (m + 1)..(m + l) :
           /\ s[i].case \in 1..Len(policy.cases)
           /\ s[i].phase \notin {"identity-before", "identity-after"}
      /\ \A k \in 1..Len(policy.cases) : \E b, e \in Nat : BlockAt(policy, s, k, b, e)
  BY <1>1 DEF PlanShape
<1>3. DOMAIN s = 1..(m + l + m) /\ m + l + m \in Nat \ {0}
  BY <1>2, LenProperties
<1>4. \A i \in 1..(m + l + m) : \/ i \in 1..m
                                \/ i \in (m + 1)..(m + l)
                                \/ i - (m + l) \in 1..m /\ m + l + (i - (m + l)) = i
  OBVIOUS
<1>5. \A i \in 1..m : s[i].phase = "identity-before" /\ s[i].case = 0 /\ s[i].actor = policy.named[i]
  BY <1>2, EntryIs
<1>6. ASSUME NEW i, i - (m + l) \in 1..m, m + l + (i - (m + l)) = i
      PROVE  s[i].phase = "identity-after" /\ s[i].case = 0 /\ s[i].actor = policy.named[i - (m + l)]
  <2>1. s[m + l + (i - (m + l))] = Entry("identity-after", policy.named[i - (m + l)], 0)
    BY <1>2, <1>6
  <2>2. QED
    BY <1>6, <2>1, EntryIs
<1>7. \A i \in 1..m : policy.named[i] \in Named /\ ~policy.legacy
  BY <1>2, PolicyIs DEF Named
<1>8. \A i, j \in 1..m : policy.named[i] = policy.named[j] => i = j
  <2>1. m # 0 => DOMAIN policy.named = 1..m /\ IsInjective(policy.named)
    BY <1>2, PolicyIs
  <2>2. QED
    BY <2>1 DEF IsInjective
<1>9. ASSUME NEW i \in 1..(m + l + m)
      PROVE  IF s[i].phase \in Identifying
             THEN s[i].case = 0 /\ s[i].actor \in Named /\ ~policy.legacy
             ELSE s[i].case \in 1..Len(policy.cases)
  <2>1. CASE i \in 1..m
    BY <1>5, <1>7, <2>1 DEF Identifying
  <2>2. CASE i \in (m + 1)..(m + l)
    BY <1>2, <2>2 DEF Identifying
  <2>3. CASE i - (m + l) \in 1..m /\ m + l + (i - (m + l)) = i
    BY <1>6, <1>7, <2>3 DEF Identifying
  <2>4. QED
    BY <1>4, <2>1, <2>2, <2>3
<1>10. ASSUME NEW i \in 1..(m + l + m)
       PROVE  /\ s[i].phase = "identity-before" <=> i \in 1..m
              /\ s[i].phase = "identity-after" <=> i - (m + l) \in 1..m
  <2>1. CASE i \in 1..m
    BY <1>5, <2>1
  <2>2. CASE i \in (m + 1)..(m + l)
    <3>1. ~(i \in 1..m) /\ ~(i - (m + l) \in 1..m)
      BY <2>2
    <3>2. QED
      BY <1>2, <2>2, <3>1
  <2>3. CASE i - (m + l) \in 1..m /\ m + l + (i - (m + l)) = i
    <3>1. ~(i \in 1..m)
      BY <1>2, <2>3
    <3>2. QED
      BY <1>6, <2>3, <3>1
  <2>4. QED
    BY <1>4, <2>1, <2>2, <2>3
<1>11. ASSUME NEW i \in 1..(m + l + m), NEW j \in 1..(m + l + m),
              s[i].phase = "identity-before", s[j].phase # "identity-before"
       PROVE  i < j
  <2>1. i \in 1..m /\ j \notin 1..m
    BY <1>10, <1>11
  <2>2. QED
    BY <2>1
<1>12. ASSUME NEW i \in 1..(m + l + m), NEW j \in 1..(m + l + m),
              s[i].phase \in Identifying, s[j].phase = s[i].phase, s[j].actor = s[i].actor
       PROVE  i = j
  <2>1. CASE s[i].phase = "identity-before"
    <3>1. i \in 1..m /\ j \in 1..m
      BY <1>10, <1>12, <2>1
    <3>2. QED
      BY <1>5, <1>8, <1>12, <3>1
  <2>2. CASE s[i].phase = "identity-after"
    <3>1. i - (m + l) \in 1..m /\ j - (m + l) \in 1..m
      BY <1>10, <1>12, <2>2
    <3>2. m + l + (i - (m + l)) = i /\ m + l + (j - (m + l)) = j
      OBVIOUS
    <3>3. policy.named[i - (m + l)] = policy.named[j - (m + l)]
      BY <1>6, <1>12, <3>1, <3>2
    <3>4. i - (m + l) = j - (m + l)
      BY <1>8, <3>1, <3>3
    <3>5. QED
      BY <3>4
  <2>3. QED
    BY <1>12, <2>1, <2>2 DEF Identifying
<1>13. s \in Seq(Entries(policy)) /\ Len(s) \in Nat \ {0} /\ DOMAIN s = 1..Len(s)
  BY <1>2, <1>3
<1> USE DEF s
<1>14. Ordinals = 1..(m + l + m) /\ Ordinals = 1..Len(Plan)
  BY <1>3, <1>13, Zenon DEF Ordinals
<1>15. \A i, j \in Ordinals :
         Plan[i].phase = "identity-before" /\ Plan[j].phase # "identity-before" => i < j
  BY <1>11, <1>14, Zenon
<1>16. \A i, j \in Ordinals :
         Plan[i].phase \in Identifying
         /\ Plan[j].phase = Plan[i].phase /\ Plan[j].actor = Plan[i].actor => i = j
  BY <1>12, <1>14, Zenon
<1>17. QED
  BY <1>2, <1>9, <1>13, <1>14, <1>15, <1>16, Zenon

\* The block of a step that belongs to a case.
LEMMA CaseIs ==
    ASSUME policy \in Policies, NEW i \in Ordinals, Plan[i].phase \notin Identifying
    PROVE  \E b, e \in Ordinals :
             /\ b <= i /\ i <= e /\ b < e
             /\ \A j \in Ordinals : Plan[j].case = Plan[i].case <=> b <= j /\ j <= e
             /\ \A j \in Ordinals : Plan[j].case = Plan[i].case =>
                  /\ Plan[j].phase \in {"owner-before", "deny", "owner-after"}
                  /\ Plan[j].phase = "owner-before" <=> j = b
                  /\ Plan[j].phase # "deny" => Plan[j].actor = policy.cases[Plan[i].case].owner
<1> DEFINE s == Plan
           k == s[i].case
<1>1. /\ Len(s) \in Nat \ {0} /\ Ordinals = 1..Len(s) /\ k \in 1..Len(policy.cases)
  BY PlanIs
<1>2. PICK b \in Nat, e \in Nat : BlockAt(policy, s, k, b, e)
  BY <1>1, PlanIs
<1> HIDE DEF s
<1>3. /\ b \in 1..Len(s) /\ e \in 1..Len(s) /\ b < e
      /\ \A j \in 1..Len(s) : s[j].case = k <=> b <= j /\ j <= e
      /\ s[b] = Entry("owner-before", policy.cases[k].owner, k)
      /\ s[e] = Entry("owner-after", policy.cases[k].owner, k)
      /\ \A j \in (b + 1)..(e - 1) : s[j].phase = "deny"
  BY <1>2 DEF BlockAt
<1> HIDE DEF k
<1>4. s[i].case = k
  BY DEF k
<1>5. b <= i /\ i <= e
  BY <1>1, <1>3, <1>4
<1>6. ASSUME NEW j \in Ordinals, s[j].case = k
      PROVE  /\ s[j].phase \in {"owner-before", "deny", "owner-after"}
             /\ s[j].phase = "owner-before" <=> j = b
             /\ s[j].phase # "deny" => s[j].actor = policy.cases[k].owner
  <2>1. j = b \/ j = e \/ j \in (b + 1)..(e - 1)
    BY <1>1, <1>3, <1>6
  <2>2. CASE j = b
    BY <1>3, <2>2, EntryIs
  <2>3. CASE j = e
    BY <1>3, <2>3, EntryIs
  <2>4. CASE j \in (b + 1)..(e - 1)
    BY <1>3, <2>4
  <2>5. QED
    BY <2>1, <2>2, <2>3, <2>4
<1>7. QED
  BY <1>1, <1>3, <1>4, <1>5, <1>6 DEF s

-----------------------------------------------------------------------------
(* The invariant.                                                          *)

\* The rows of the steps to come are as they were created, except for the start
\* of the request under way.
Untouched ==
    \A i \in Ordinals : i >= next => rows[i].reason = "not_reached" /\ rows[i].attempts = 0

\* What a row says of its step: on a step's status rest all its evidence.
RowIsTrue(i) ==
    LET r == rows[i] IN
    /\ r.outcome = "evaluated" <=> r.reason = "evaluated"
    /\ r.outcome = "not_attempted" <=> r.attempts = 0
    /\ r.status # "none" <=> r.reason \in {"evaluated", "assertion_inconclusive"}
    /\ r.reason \in {"prerequisite_failed", "not_reached"} => r.outcome = "not_attempted"
    /\ r.reason = "assertion_inconclusive" => r.outcome = "inconclusive"
    /\ r.reason = "prerequisite_failed" => Plan[i].phase \in {"deny", "owner-after"}
    /\ Evaluated(i) =>
          IF Plan[i].phase = "deny"
          THEN /\ r.status = "denied" \/ (r.status = "ok" /\ i \in exposed)
               /\ IF Plan[i].actor \in Named THEN Valid("identity-before", Plan[i].actor)
                  ELSE Plan[i].actor = Anonymous
          ELSE r.status = "ok"

RowsAreTrue == \A i \in Ordinals : RowIsTrue(i)

\* f[k] is what the first k steps have spent.
SumsAre(f) ==
    /\ f \in [0..Len(Plan) -> Nat] /\ f[0] = 0
    /\ \A k \in Ordinals :
          /\ f[k] = f[k - 1] + rows[k].attempts /\ f[k] <= count
          /\ rows[k].outcome # "not_attempted" \/ at = "done" => rows[k].start = f[k - 1]
          /\ rows[k].reason = "request_budget" => f[k] = MaxRequests
    /\ \A k \in 0..Len(Plan) :
          k >= next - 1 => f[k] = IF at = "request" THEN rows[next].start ELSE count
    /\ at = "request" => rows[next].start <= count

\* After a row that says so, no request follows.
FinalsAreFinal ==
    \A i \in Ordinals : i < next /\ Final(i) =>
        /\ IF at = "request" THEN Exhausted /\ Attempts = 0 ELSE stopped \/ Late \/ Exhausted
        /\ \A j \in Ordinals : i < j => rows[j].attempts = 0

\* A case goes on after its owner's first control, and only then.
CasesArePrepared ==
    \A b, i \in Ordinals :
        Plan[b].phase = "owner-before" /\ Plan[i].case = Plan[b].case /\ i # b =>
            /\ i < next => Evaluated(b) = (rows[i].reason # "prerequisite_failed")
            /\ i = next => Evaluated(b)

\* Whoever was itself has a row that says so, and who was not alone is marked.
IdentitiesAreTrue ==
    /\ \A i \in Ordinals :
          i < next /\ Plan[i].phase \in Identifying /\ Valid(Plan[i].phase, Plan[i].actor)
              => Evaluated(i)
    /\ \A phase \in Identifying :
          (\A i \in Ordinals : Plan[i].phase = phase => i < next) => Shared(who[phase]) \subseteq reused

\* What the flag and the findings rest on.
FlagIsTrue ==
    /\ ~incomplete => ~policy.legacy /\ \A i \in Ordinals : i < next => Evaluated(i)
    /\ at \in {"finish", "done"} => next = Len(Plan) + 1
    /\ at = "done" /\ ~incomplete => cause = "none" /\ ~expired /\ \A a \in Named : Proven(a)
    /\ \A i \in exposed : Plan[i].phase = "deny"

IInv ==
    /\ TypeOK /\ Untouched /\ RowsAreTrue
    /\ \E f \in [0..Len(Plan) -> Nat] : SumsAre(f)
    /\ FinalsAreFinal /\ CasesArePrepared /\ IdentitiesAreTrue /\ FlagIsTrue

-----------------------------------------------------------------------------
(* A step ends.                                                            *)

\* The rest of the plan does not change.
LEMMA SamePlan ==
    ASSUME policy' = policy
    PROVE  Plan' = Plan /\ Ordinals' = Ordinals /\ Named' = Named /\ Principals' = Principals
BY DEF Plan, Ordinals, Named, Principals

\* The requests of the step.
Spent == IF at = "request" THEN Attempts ELSE 0

LEMMA RowIs ==
    ASSUME TypeOK, at \in {"step", "request"}, at = "request" => rows[next].start <= count,
           NEW good \in BOOLEAN, NEW why \in Failures \cup Stops \cup {"none"},
           NEW status \in Statuses \cup {"none"}
    PROVE  /\ Spent \in Nat /\ Spent <= count /\ Row(good, why, status) \in Rows
           /\ Row(good, why, status).attempts = Spent
           /\ Row(good, why, status).start = count - Spent
           /\ Row(good, why, status).status = status
           /\ Row(good, why, status).outcome =
                IF Spent = 0 THEN "not_attempted" ELSE IF good THEN "evaluated" ELSE "inconclusive"
           /\ Row(good, why, status).reason =
                IF Spent # 0 /\ good THEN "evaluated"
                ELSE IF why = "none" THEN "assertion_inconclusive" ELSE why
<1>1. next \in Ordinals /\ count \in Nat /\ rows[next] \in Rows /\ rows[next].start \in Nat
  BY LimitAssumption DEF TypeOK, Rows
<1>2. Spent \in Nat /\ Spent <= count
  BY <1>1 DEF Spent, Attempts
<1> DEFINE o == IF Spent = 0 THEN "not_attempted" ELSE IF good THEN "evaluated" ELSE "inconclusive"
           y == IF o = "evaluated" THEN "evaluated"
                ELSE IF why = "none" THEN "assertion_inconclusive" ELSE why
<1>3. Row(good, why, status) =
        [rows[next] EXCEPT !.outcome = o, !.status = status, !.start = count - Spent,
                           !.attempts = Spent, !.reason = y]
  BY DEF Row, Spent, Attempts
<1>4. /\ o \in {"not_attempted", "inconclusive", "evaluated"}
      /\ y \in Failures \cup Stops \cup {"evaluated", "assertion_inconclusive",
                                         "prerequisite_failed", "not_reached"}
      /\ count - Spent \in Nat
      /\ y = IF Spent # 0 /\ good THEN "evaluated"
             ELSE IF why = "none" THEN "assertion_inconclusive" ELSE why
  BY <1>1, <1>2
<1>5. o = IF Spent = 0 THEN "not_attempted" ELSE IF good THEN "evaluated" ELSE "inconclusive"
  OBVIOUS
<1> HIDE DEF o, y
<1>6. /\ Row(good, why, status) \in Rows
      /\ Row(good, why, status).attempts = Spent /\ Row(good, why, status).start = count - Spent
      /\ Row(good, why, status).status = status
      /\ Row(good, why, status).outcome = o /\ Row(good, why, status).reason = y
  <2>1. PICK old \in Rows : old = rows[next]
    BY <1>1
  <2>2. Row(good, why, status) = [old EXCEPT !.outcome = o, !.status = status, !.start = count - Spent,
                                             !.attempts = Spent, !.reason = y]
    BY <1>3, <2>1
  <2>3. QED
    BY ONLY <1>2, <1>4, <2>2, status \in Statuses \cup {"none"} DEF Rows
<1>7. QED
  BY <1>2, <1>4, <1>5, <1>6

\* Where the step leads, and what it does to the other rows.
LEMMA EndIs ==
    ASSUME TypeOK, at \in {"step", "request"},
           NEW good \in BOOLEAN, NEW why, NEW status, NEW principal,
           End(good, why, status, principal)
    PROVE  /\ next \in Nat /\ next' \in Nat /\ next < next' /\ next' <= Len(Plan) + 1
           /\ (Step.phase = "owner-before" /\ ~good) \/ next' = next + 1
           /\ \A i \in Ordinals : next < i /\ i < next' =>
                /\ Step.phase = "owner-before" /\ ~good
                /\ Plan[i].case = Step.case /\ Plan[i].phase \in {"deny", "owner-after"}
           /\ Step.phase = "owner-before" /\ ~good =>
                \A i \in Ordinals : next' <= i => Plan[i].case # Step.case
           /\ rows'[next] = Row(good, why, status)
           /\ \A i \in Ordinals \ {next} :
                rows'[i] = IF next < i /\ i < next'
                           THEN [rows[i] EXCEPT !.reason = "prerequisite_failed"] ELSE rows[i]
<1> DEFINE skips == Step.phase = "owner-before" /\ ~good
<1>1. /\ next \in Ordinals /\ Ordinals = 1..Len(Plan) /\ Len(Plan) \in Nat \ {0}
      /\ policy \in Policies
  BY PlanIs DEF TypeOK
<1>2. /\ rows' = [i \in Ordinals |->
                    IF i = next THEN Row(good, why, status)
                    ELSE IF skips /\ Blocked(i) THEN [rows[i] EXCEPT !.reason = "prerequisite_failed"]
                    ELSE rows[i]]
      /\ next' = IF skips THEN Max({i \in Ordinals : Case(i)}) + 1 ELSE next + 1
  BY DEF End
<1>3. CASE ~skips
  <2>1. next' = next + 1
    BY <1>2, <1>3
  <2>2. \A i \in Ordinals \ {next} : rows'[i] = rows[i]
    BY <1>2, <1>3
  <2>3. rows'[next] = Row(good, why, status)
    BY <1>1, <1>2
  <2>4. \A i \in Ordinals : ~(next < i /\ i < next')
    BY <1>1, <2>1
  <2>5. next \in Nat /\ next' \in Nat /\ next < next' /\ next' <= Len(Plan) + 1
    BY <1>1, <2>1
  <2>6. QED
    BY <1>3, <2>1, <2>2, <2>3, <2>4, <2>5
<1>4. CASE skips
  <2>1. Step = Plan[next] /\ Step.phase \notin Identifying
    BY <1>4 DEF Step, Identifying
  <2>2. PICK b \in Ordinals, e \in Ordinals :
             /\ b <= next /\ next <= e /\ b < e
             /\ \A j \in Ordinals : Plan[j].case = Plan[next].case <=> b <= j /\ j <= e
             /\ \A j \in Ordinals : Plan[j].case = Plan[next].case =>
                  /\ Plan[j].phase \in {"owner-before", "deny", "owner-after"}
                  /\ Plan[j].phase = "owner-before" <=> j = b
    BY <1>1, <2>1, CaseIs
  <2>3. b = next
    BY <1>1, <1>4, <2>1, <2>2
  <2>4. Step.case # 0
    <3>1. Step.case \in 1..Len(policy.cases)
      BY <1>1, <2>1, PlanIs
    <3>2. QED
      BY <1>1, <3>1, PolicyIs
  <2>5. \A j \in Ordinals : /\ Case(j) <=> next <= j /\ j <= e
                            /\ Blocked(j) <=> next < j /\ j <= e
    <3>1. \A j \in Ordinals : Case(j) <=> next <= j /\ j <= e
      BY <2>1, <2>2, <2>3, <2>4 DEF Case
    <3>2. \A j \in Ordinals : Case(j) => (Plan[j].phase = "owner-before" <=> j = next)
      BY <2>1, <2>2, <2>3 DEF Case
    <3>3. QED
      BY <1>1, <3>1, <3>2 DEF Blocked
  <2>6. Max({i \in Ordinals : Case(i)}) = e
    <3>1. e \in {i \in Ordinals : Case(i)} /\ \A y \in {i \in Ordinals : Case(i)} : e >= y
      BY <1>1, <2>2, <2>5
    <3>2. {i \in Ordinals : Case(i)} \in SUBSET Nat
      BY <1>1
    <3>3. QED
      BY <3>1, <3>2, MaxIs
  <2>7. next' = e + 1
    BY <1>2, <1>4, <2>6
  <2>8. \A i \in Ordinals : /\ Blocked(i) <=> next < i /\ i < next'
                            /\ next' <= i => Plan[i].case # Step.case
    BY <1>1, <2>1, <2>2, <2>3, <2>5, <2>7
  <2>9. \A i \in Ordinals : next < i /\ i < next' =>
             Plan[i].case = Step.case /\ Plan[i].phase \in {"deny", "owner-after"}
    BY <1>1, <2>1, <2>2, <2>3, <2>7
  <2>10. /\ rows'[next] = Row(good, why, status)
         /\ \A i \in Ordinals \ {next} :
              rows'[i] = IF next < i /\ i < next'
                         THEN [rows[i] EXCEPT !.reason = "prerequisite_failed"] ELSE rows[i]
    BY <1>1, <1>2, <1>4, <2>8, Zenon
  <2>11. next \in Nat /\ next' \in Nat /\ next < next' /\ next' <= Len(Plan) + 1
    BY <1>1, <2>2, <2>7
  <2>12. QED
    BY <1>4, <2>8, <2>9, <2>10, <2>11
<1>5. QED
  BY <1>3, <1>4

\* What a response may say.
LEMMA AnswersAre ==
    ASSUME NEW a \in Answers
    PROVE  /\ a = Answer(a.good, a.status, a.principal, a.canary)
           /\ a.good \in BOOLEAN /\ a.status \in Statuses /\ a.principal \in Principals
           /\ a.canary \in BOOLEAN /\ (a.canary => Step.phase = "deny")
           /\ Step.phase # "deny" /\ a.good => a.status = "ok"
           /\ Step.phase = "deny" /\ a.good =>
                Known(Step.actor) /\ (a.status = "denied" \/ (a.status = "ok" /\ a.canary))
           /\ Identity /\ a.principal = Step.actor /\ Step.actor # "none" => a.good
<1>0. "none" \in Principals
  BY DEF Principals
<1>1. CASE Identity
  <2>1. Step.phase # "deny"
    BY <1>1 DEF Identity
  <2>2. \/ \E p \in Principals : a = Answer(p = Step.actor, "ok", p, FALSE)
        \/ \E s \in {"bad", "odd"} : a = Answer(FALSE, s, "none", FALSE)
    <3>1. Answers = {Answer(p = Step.actor, "ok", p, FALSE) : p \in Principals}
                       \cup {Answer(FALSE, s, "none", FALSE) : s \in {"bad", "odd"}}
      BY <1>1 DEF Answers
    <3>2. QED
      BY <3>1, Zenon
  <2>3. CASE \E p \in Principals : a = Answer(p = Step.actor, "ok", p, FALSE)
    <3>1. PICK p \in Principals : a = Answer(p = Step.actor, "ok", p, FALSE)
      BY <2>3
    <3>2. /\ a.good = (p = Step.actor) /\ a.status = "ok" /\ a.principal = p /\ a.canary = FALSE
      BY <3>1, Zenon DEF Answer
    <3>3. a = Answer(a.good, a.status, a.principal, a.canary)
      BY <3>1, <3>2, Zenon
    <3>4. QED
      BY <2>1, <3>2, <3>3 DEF Statuses
  <2>4. CASE \E s \in {"bad", "odd"} : a = Answer(FALSE, s, "none", FALSE)
    <3>1. PICK s \in {"bad", "odd"} : a = Answer(FALSE, s, "none", FALSE)
      BY <2>4
    <3>2. a.good = FALSE /\ a.status = s /\ a.principal = "none" /\ a.canary = FALSE
      BY <3>1, Zenon DEF Answer
    <3>3. a = Answer(a.good, a.status, a.principal, a.canary)
      BY <3>1, <3>2, Zenon
    <3>4. QED
      BY <1>0, <2>1, <3>2, <3>3 DEF Statuses
  <2>5. QED
    BY <2>2, <2>3, <2>4
<1>2. CASE ~Identity /\ Step.phase = "deny"
  <2>1. PICK s \in DenyStatuses, b \in DenyBodies : a = Answer(Denies(s, b), s, "none", Canary(b))
    BY <1>2 DEF Answers
  <2>2. s \in Statuses /\ s # "bad" /\ Denies(s, b) \in BOOLEAN /\ Canary(b) \in BOOLEAN
    BY <2>1 DEF DenyStatuses, Statuses, Denies, Canary
  <2>3. Denies(s, b) => Known(Step.actor)
    BY Zenon DEF Denies
  <2>6. ASSUME Denies(s, b) PROVE s = "denied" \/ (s = "ok" /\ Canary(b))
    <3>1. ~NoDenial(s)
      BY <2>6, Zenon DEF Denies
    <3>2. CASE s = "ok"
      <4>1. Caught(b)
        BY <2>6, <3>2, Zenon DEF Denies
      <4>2. QED
        BY <3>2, <4>1 DEF Caught, Canary
    <3>3. CASE s # "ok"
      <4>1. s # "refused"
        BY <2>6, <3>3, Zenon DEF Denies
      <4>2. QED
        BY <2>2, <3>1, <3>3, <4>1 DEF NoDenial, Statuses
    <3>4. QED
      BY <3>2, <3>3
  <2>4. a.good = Denies(s, b) /\ a.status = s /\ a.principal = "none" /\ a.canary = Canary(b)
    BY <2>1 DEF Answer
  <2>5. a = Answer(a.good, a.status, a.principal, a.canary)
    BY <2>1, <2>4, Zenon
  <2>7. QED
    BY <1>0, <1>2, <2>2, <2>3, <2>4, <2>5, <2>6
<1>3. CASE ~Identity /\ Step.phase # "deny"
  <2>1. \/ \E s \in {"ok", "bad", "odd"} : a = Answer(s = "ok", s, "none", FALSE)
        \/ a = Answer(FALSE, "ok", "none", FALSE)
    <3>1. Answers = {Answer(s = "ok", s, "none", FALSE) : s \in {"ok", "bad", "odd"}}
                       \cup {Answer(FALSE, "ok", "none", FALSE)}
      BY <1>3 DEF Answers
    <3>2. QED
      BY <3>1, Zenon
  <2>2. PICK s \in {"ok", "bad", "odd"}, g \in BOOLEAN :
              (g => s = "ok") /\ a = Answer(g, s, "none", FALSE)
    <3>1. CASE \E s \in {"ok", "bad", "odd"} : a = Answer(s = "ok", s, "none", FALSE)
      <4>1. PICK s \in {"ok", "bad", "odd"} : a = Answer(s = "ok", s, "none", FALSE)
        BY <3>1
      <4>2. (s = "ok") \in BOOLEAN
        OBVIOUS
      <4>3. QED
        BY <4>1, <4>2, Zenon
    <3>2. QED
      BY <2>1, <3>1, Zenon
  <2>3. a.good = g /\ a.status = s /\ a.principal = "none" /\ a.canary = FALSE
    BY <2>2, Zenon DEF Answer
  <2>4. a = Answer(a.good, a.status, a.principal, a.canary)
    BY <2>2, <2>3, Zenon
  <2>5. QED
    BY <1>0, <1>3, <2>2, <2>3, <2>4 DEF Statuses
<1>4. QED
  BY <1>1, <1>2, <1>3

\* How a request ends a step: it failed, or it was answered.
Failed(good, why, status, principal) ==
    /\ why \in Failures \cup Stops /\ status = "none" /\ good = FALSE /\ principal = "none"
    /\ exposed' = exposed
    /\ why = "request_budget" => at = "request" /\ Exhausted
    /\ why = "body_budget" => stopped'
    /\ why \in {"cancelled", "deadline"} => Late

Answered(good, why, status, principal) ==
    /\ why = "none" /\ at = "request" /\ Attempts > 0
    /\ \E canary \in BOOLEAN :
          /\ Answer(good, status, principal, canary) \in Answers
          /\ exposed' = IF canary THEN exposed \cup {next} ELSE exposed

Ends(good, why, status, principal) ==
    /\ at \in {"step", "request"} /\ End(good, why, status, principal)
    /\ count' = count /\ full' \in BOOLEAN /\ stopped' \in BOOLEAN /\ (stopped => stopped')
    /\ surprises' \in 0..SurpriseBound
    /\ Failed(good, why, status, principal) \/ Answered(good, why, status, principal)

LEMMA EndedWith ==
    ASSUME NEW good, NEW why, NEW status, NEW principal, Ends(good, why, status, principal)
    PROVE  /\ good \in BOOLEAN /\ why \in Failures \cup Stops \cup {"none"}
           /\ status \in Statuses \cup {"none"} /\ principal \in Principals
           /\ exposed \subseteq exposed' /\ exposed' \subseteq exposed \cup {next}
           /\ next \in exposed' => next \in exposed \/ Step.phase = "deny"
           /\ good => why = "none"
           /\ why = "none" => status # "none" /\ Spent # 0
           /\ why # "none" => status = "none"
           /\ why = "request_budget" => Exhausted
           /\ why = "body_budget" => stopped'
           /\ why \in {"cancelled", "deadline"} => Late
           /\ why \notin {"evaluated", "assertion_inconclusive", "prerequisite_failed", "not_reached"}
           /\ Step.phase # "deny" /\ good => status = "ok"
           /\ Step.phase = "deny" /\ good =>
                Known(Step.actor) /\ (status = "denied" \/ (status = "ok" /\ next \in exposed'))
           /\ Identity /\ principal = Step.actor /\ Step.actor # "none" => good
<1>1. CASE Failed(good, why, status, principal)
  BY <1>1 DEF Failed, Principals, Failures, Stops
<1>2. CASE Answered(good, why, status, principal)
  <2>1. why = "none" /\ at = "request" /\ Attempts > 0
    BY <1>2 DEF Answered
  <2>2. PICK canary \in BOOLEAN :
          /\ Answer(good, status, principal, canary) \in Answers
          /\ exposed' = IF canary THEN exposed \cup {next} ELSE exposed
    BY <1>2 DEF Answered
  <2>3. /\ good \in BOOLEAN /\ status \in Statuses /\ principal \in Principals
        /\ canary => Step.phase = "deny"
        /\ Step.phase # "deny" /\ good => status = "ok"
        /\ Step.phase = "deny" /\ good =>
             Known(Step.actor) /\ (status = "denied" \/ (status = "ok" /\ canary))
        /\ Identity /\ principal = Step.actor /\ Step.actor # "none" => good
    <3> DEFINE a == Answer(good, status, principal, canary)
    <3>1. a.good = good /\ a.status = status /\ a.principal = principal /\ a.canary = canary
      BY DEF Answer
    <3>2. a \in Answers
      BY <2>2
    <3> HIDE DEF a
    <3>3. QED
      BY <3>1, <3>2, AnswersAre
  <2>4. status # "none"
    BY <2>3 DEF Statuses
  <2>5. Spent # 0
    BY <2>1 DEF Spent
  <2>6. QED
    BY <2>1, <2>2, <2>3, <2>4, <2>5
<1>3. QED
  BY <1>1, <1>2 DEF Ends

LEMMA EndStep ==
    ASSUME IInv, NEW good, NEW why, NEW status, NEW principal, Ends(good, why, status, principal)
    PROVE  IInv'
<1>1. /\ good \in BOOLEAN /\ why \in Failures \cup Stops \cup {"none"}
      /\ status \in Statuses \cup {"none"} /\ principal \in Principals
      /\ exposed \subseteq exposed' /\ exposed' \subseteq exposed \cup {next}
      /\ next \in exposed' => next \in exposed \/ Step.phase = "deny"
      /\ good => why = "none"
      /\ why = "none" => status # "none" /\ Spent # 0
      /\ why # "none" => status = "none"
      /\ why = "request_budget" => Exhausted
      /\ why = "body_budget" => stopped'
      /\ why \in {"cancelled", "deadline"} => Late
      /\ why \notin {"evaluated", "assertion_inconclusive", "prerequisite_failed", "not_reached"}
  BY EndedWith
<1>2. /\ Step.phase # "deny" /\ good => status = "ok"
      /\ Step.phase = "deny" /\ good =>
           Known(Step.actor) /\ (status = "denied" \/ (status = "ok" /\ next \in exposed'))
      /\ Identity /\ principal = Step.actor /\ Step.actor # "none" => good
  BY EndedWith
<1>3. /\ at \in {"step", "request"} /\ End(good, why, status, principal)
      /\ count' = count /\ full' \in BOOLEAN /\ stopped' \in BOOLEAN /\ (stopped => stopped')
      /\ surprises' \in 0..SurpriseBound
  BY DEF Ends
<1>4. /\ TypeOK /\ Untouched /\ RowsAreTrue /\ FinalsAreFinal /\ CasesArePrepared
      /\ IdentitiesAreTrue /\ FlagIsTrue
  BY DEF IInv
<1>5. PICK f \in [0..Len(Plan) -> Nat] : SumsAre(f)
  BY DEF IInv
<1>6. /\ policy \in Policies /\ next \in Ordinals /\ Ordinals = 1..Len(Plan)
      /\ Len(Plan) \in Nat \ {0} /\ count \in Nat /\ count <= MaxRequests /\ MaxRequests \in Nat
      /\ Step = Plan[next] /\ rows \in [Ordinals -> Rows]
  BY <1>3, <1>4, PlanIs, LimitAssumption DEF TypeOK, Step
<1>7. at = "request" => rows[next].start <= count
  BY <1>5 DEF SumsAre
<1> DEFINE r == Row(good, why, status)
<1>8. /\ Spent \in Nat /\ Spent <= count /\ r \in Rows
      /\ r.attempts = Spent /\ r.start = count - Spent /\ r.status = status
      /\ r.outcome = IF Spent = 0 THEN "not_attempted" ELSE IF good THEN "evaluated" ELSE "inconclusive"
      /\ r.reason = IF Spent # 0 /\ good THEN "evaluated"
                    ELSE IF why = "none" THEN "assertion_inconclusive" ELSE why
  BY <1>1, <1>3, <1>4, <1>7, RowIs
<1>9. /\ next \in Nat /\ next' \in Nat /\ next < next' /\ next' <= Len(Plan) + 1
      /\ (Step.phase = "owner-before" /\ ~good) \/ next' = next + 1
      /\ \A i \in Ordinals : next < i /\ i < next' =>
           /\ Step.phase = "owner-before" /\ ~good
           /\ Plan[i].case = Step.case /\ Plan[i].phase \in {"deny", "owner-after"}
      /\ Step.phase = "owner-before" /\ ~good =>
           \A i \in Ordinals : next' <= i => Plan[i].case # Step.case
      /\ rows'[next] = r
      /\ \A i \in Ordinals \ {next} :
           rows'[i] = IF next < i /\ i < next'
                      THEN [rows[i] EXCEPT !.reason = "prerequisite_failed"] ELSE rows[i]
  BY <1>1, <1>3, <1>4, EndIs
<1> HIDE DEF r
<1>10. /\ policy' = policy /\ cause' = cause /\ expired' = expired
       /\ who' = IF Identity THEN [who EXCEPT ![Step.phase][Step.actor] = principal] ELSE who
       /\ reused' = IF PhaseEnds THEN reused \cup Shared(who'[Step.phase]) ELSE reused
       /\ incomplete' = \/ incomplete \/ ~good
                        \/ cause # "none" /\ (Identity \/ Step.phase = "deny")
                        \/ PhaseEnds /\ Shared(who'[Step.phase]) # {}
       /\ at' = IF next' \in Ordinals THEN "step" ELSE "finish"
  BY <1>3 DEF End
<1>11. Plan' = Plan /\ Ordinals' = Ordinals /\ Named' = Named /\ Principals' = Principals
  BY <1>10, SamePlan
<1>12. ASSUME NEW i \in Ordinals, i # next
       PROVE  /\ rows'[i] \in Rows /\ rows'[i].outcome = rows[i].outcome
              /\ rows'[i].attempts = rows[i].attempts /\ rows'[i].start = rows[i].start
              /\ rows'[i].status = rows[i].status
              /\ rows'[i].reason = IF next < i /\ i < next' THEN "prerequisite_failed" ELSE rows[i].reason
  <2>1. rows[i] \in Rows
    BY <1>6
  <2>2. rows'[i] = IF next < i /\ i < next'
                   THEN [rows[i] EXCEPT !.reason = "prerequisite_failed"] ELSE rows[i]
    BY <1>9, <1>12
  <2>3. QED
    BY <2>1, <2>2 DEF Rows
<1>13. rows' \in [Ordinals -> Rows]
  <2>1. rows' = [i \in Ordinals |-> rows'[i]]
    BY <1>3, Zenon DEF End
  <2>2. \A i \in Ordinals : rows'[i] \in Rows
    BY <1>8, <1>9, <1>12
  <2>3. QED
    BY <2>1, <2>2
<1>14. \A i \in Ordinals : rows[i].attempts \in Nat /\ rows'[i].attempts \in Nat
  BY <1>6, <1>13 DEF Rows
<1>15. \A i \in Ordinals : i # next => (Evaluated(i)' <=> Evaluated(i))
  BY <1>12 DEF Evaluated
<1>16. Identity => Step.phase \in Identifying /\ Step.actor \in Named
  BY <1>6, PlanIs DEF Identity, Identifying
<1>17. Identity <=> Step.phase \in Identifying
  BY DEF Identity, Identifying
<1>18. who \in [Identifying -> [Named -> Principals]] /\ who' \in [Identifying -> [Named -> Principals]]
  <2>1. who \in [Identifying -> [Named -> Principals]]
    BY <1>4 DEF TypeOK, Identifying
  <2>2. CASE ~Identity
    BY <1>10, <2>1, <2>2
  <2>3. CASE Identity
    BY <1>1, <1>10, <1>16, <2>1, <2>3
  <2>4. QED
    BY <2>1, <2>2, <2>3
<1>19. \A phase \in Identifying, a \in Named :
         who'[phase][a] = IF Identity /\ phase = Step.phase /\ a = Step.actor
                          THEN principal ELSE who[phase][a]
  <2>1. CASE ~Identity
    BY <1>10, <2>1
  <2>2. CASE Identity
    <3>1. who' = [who EXCEPT ![Step.phase][Step.actor] = principal]
      BY <1>10, <2>2
    <3>2. QED
      BY <1>16, <1>18, <2>2, <3>1
  <2>3. QED
    BY <2>1, <2>2
\* The types.
<1>20. TypeOK'
  <2>1. next' \in 1..(Len(Plan) + 1) /\ (at' \in {"step", "request"} => next' \in Ordinals)
        /\ at' \in {"step", "request", "finish", "done"}
    BY <1>6, <1>9, <1>10
  <2>2. reused' \subseteq Named
    BY <1>4, <1>10 DEF TypeOK, Shared
  <2>3. exposed' \subseteq Ordinals
    BY <1>1, <1>4, <1>6 DEF TypeOK
  <2>4. incomplete' \in BOOLEAN
    BY <1>4, <1>10 DEF TypeOK
  <2>5. /\ policy' \in Policies /\ cause' \in {"none", "cancelled", "deadline"} /\ expired' \in BOOLEAN
        /\ count' \in 0..MaxRequests
    BY <1>3, <1>4, <1>10 DEF TypeOK
  <2>6. who' \in [{"identity-before", "identity-after"} -> [Named -> Principals]]
    BY <1>18 DEF Identifying
  <2>7. QED
    BY <1>3, <1>11, <1>13, <2>1, <2>2, <2>3, <2>4, <2>5, <2>6 DEF TypeOK
<1>21. Untouched'
  <2>1. SUFFICES ASSUME NEW i \in Ordinals, i >= next'
                 PROVE  rows'[i].reason = "not_reached" /\ rows'[i].attempts = 0
    BY <1>11 DEF Untouched
  <2>2. i \in Nat /\ i # next /\ ~(i < next') /\ i >= next
    BY <1>6, <1>9, <2>1
  <2>3. QED
    BY <1>4, <1>12, <2>2 DEF Untouched
\* The rows.
<1>22. RowsAreTrue'
  <2>1. SUFFICES ASSUME NEW i \in Ordinals PROVE RowIsTrue(i)'
    BY <1>11 DEF RowsAreTrue
  <2>2. CASE i = next
    <3>1. /\ r.outcome = "evaluated" <=> r.reason = "evaluated"
          /\ r.outcome = "not_attempted" <=> r.attempts = 0
          /\ r.status # "none" <=> r.reason \in {"evaluated", "assertion_inconclusive"}
          /\ r.reason \notin {"prerequisite_failed", "not_reached"}
          /\ r.reason = "assertion_inconclusive" => r.outcome = "inconclusive"
          /\ r.outcome = "evaluated" => good
      BY <1>1, <1>8
    <3>2. ASSUME good
          PROVE  IF Step.phase = "deny"
                 THEN /\ status = "denied" \/ (status = "ok" /\ next \in exposed')
                      /\ IF Step.actor \in Named THEN who'["identity-before"][Step.actor] = Step.actor
                         ELSE Step.actor = Anonymous
                 ELSE status = "ok"
      <4>1. CASE Step.phase = "deny"
        <5>1. who' = who
          BY <1>10, <4>1 DEF Identity
        <5>2. Known(Step.actor) /\ (status = "denied" \/ (status = "ok" /\ next \in exposed'))
          BY <1>2, <3>2, <4>1
        <5>3. IF Step.actor \in Named THEN who["identity-before"][Step.actor] = Step.actor
              ELSE Step.actor = Anonymous
          BY <5>2 DEF Known, Valid
        <5>4. QED
          BY <4>1, <5>1, <5>2, <5>3
      <4>2. CASE Step.phase # "deny"
        BY <1>2, <3>2, <4>2
      <4>3. QED
        BY <4>1, <4>2
    <3>3. rows'[i] = r /\ Plan[i] = Step
      BY <1>6, <1>9, <2>2
    <3>4. Evaluated(i)' <=> r.outcome = "evaluated"
      BY <3>3 DEF Evaluated
    <3>5. Evaluated(i)' => IF Plan[i].phase = "deny"
                           THEN /\ r.status = "denied" \/ (r.status = "ok" /\ i \in exposed')
                                /\ IF Plan[i].actor \in Named
                                   THEN who'["identity-before"][Plan[i].actor] = Plan[i].actor
                                   ELSE Plan[i].actor = Anonymous
                           ELSE r.status = "ok"
      BY <1>8, <2>2, <3>1, <3>2, <3>3, <3>4
    <3>6. QED
      BY <1>11, <3>1, <3>3, <3>4, <3>5 DEF RowIsTrue, Valid
  <2>3. CASE i # next /\ next < i /\ i < next'
    <3>1. /\ rows[i].reason = "not_reached" /\ rows[i].attempts = 0 /\ RowIsTrue(i)
      BY <1>4, <1>6, <1>9, <2>3 DEF Untouched, RowsAreTrue
    <3>2. /\ rows'[i].reason = "prerequisite_failed" /\ rows'[i].attempts = 0
          /\ rows'[i].status = "none" /\ rows'[i].outcome = "not_attempted"
      BY <1>12, <2>3, <3>1 DEF RowIsTrue
    <3>3. Plan[i].phase \in {"deny", "owner-after"}
      BY <1>9, <2>3
    <3>4. QED
      BY <1>11, <3>2, <3>3 DEF RowIsTrue, Evaluated
  <2>4. CASE i # next /\ ~(next < i /\ i < next')
    <3>1. /\ rows'[i].outcome = rows[i].outcome /\ rows'[i].attempts = rows[i].attempts
          /\ rows'[i].status = rows[i].status /\ rows'[i].reason = rows[i].reason
      BY <1>12, <2>4
    <3>2. RowIsTrue(i)
      BY <1>4 DEF RowsAreTrue
    <3>3. Evaluated(i)' <=> Evaluated(i)
      BY <1>15, <2>4
    <3>4. ASSUME Evaluated(i), Plan[i].phase = "deny", Plan[i].actor \in Named,
                 Valid("identity-before", Plan[i].actor)
          PROVE  Valid("identity-before", Plan[i].actor)'
      <4>1. i < next
        <5>1. rows[i].reason # "not_reached"
          BY <3>2, <3>4 DEF RowIsTrue, Evaluated
        <5>2. ~(i >= next)
          BY <1>4, <5>1 DEF Untouched
        <5>3. QED
          BY <1>6, <5>2
      <4>2. Step.phase # "identity-before"
        <5>1. Step.phase = "identity-before" => next < i
          BY <1>6, <3>4, PlanIs
        <5>2. QED
          BY <1>6, <4>1, <5>1
      <4>3. who'["identity-before"][Plan[i].actor] = who["identity-before"][Plan[i].actor]
        BY <1>19, <3>4, <4>2 DEF Identifying
      <4>4. QED
        BY <1>11, <3>4, <4>3 DEF Valid
    <3>5. i \in exposed => i \in exposed'
      BY <1>1
    <3>6. Evaluated(i) => IF Plan[i].phase = "deny"
                          THEN /\ rows[i].status = "denied" \/ (rows[i].status = "ok" /\ i \in exposed')
                               /\ IF Plan[i].actor \in Named THEN Valid("identity-before", Plan[i].actor)'
                                  ELSE Plan[i].actor = Anonymous
                          ELSE rows[i].status = "ok"
      BY <3>2, <3>4, <3>5 DEF RowIsTrue
    <3>7. QED
      BY <1>11, <3>1, <3>2, <3>3, <3>6 DEF RowIsTrue
  <2>5. QED
    BY <2>2, <2>3, <2>4
\* The sums.
<1>23. \E g \in [0..Len(Plan) -> Nat] : SumsAre(g)'
  <2> DEFINE L == Len(Plan)
  <2>1. /\ f[0] = 0
        /\ \A k \in Ordinals :
             /\ f[k] = f[k - 1] + rows[k].attempts /\ f[k] <= count
             /\ rows[k].outcome # "not_attempted" => rows[k].start = f[k - 1]
             /\ rows[k].reason = "request_budget" => f[k] = MaxRequests
        /\ \A k \in 0..L : k >= next - 1 => f[k] = IF at = "request" THEN rows[next].start ELSE count
    BY <1>5 DEF SumsAre
  <2>2. L \in Nat \ {0} /\ Ordinals = 1..L /\ next \in 1..L /\ f \in [0..L -> Nat]
    BY <1>5, <1>6
  <2> HIDE DEF L
  <2>3. f[next - 1] = count - Spent
    <3>1. next - 1 \in 0..L /\ next - 1 >= next - 1
      BY <2>2
    <3>2. f[next - 1] = IF at = "request" THEN rows[next].start ELSE count
      BY <2>1, <3>1
    <3>3. rows[next].start \in Nat
      BY <1>6 DEF Rows
    <3>4. QED
      BY <1>6, <3>2, <3>3 DEF Spent, Attempts
  <2>4. PICK g \in [0..L -> Nat] : \A k \in 0..L : g[k] = IF k < next THEN f[k] ELSE count
    <3>1. [k \in 0..L |-> IF k < next THEN f[k] ELSE count] \in [0..L -> Nat]
      BY <1>6, <2>2
    <3>2. QED
      BY <3>1
  <2>5. g[0] = 0
    BY <2>1, <2>2, <2>4
  <2>6. ASSUME NEW k \in Ordinals
        PROVE  /\ g[k] = g[k - 1] + rows'[k].attempts /\ g[k] <= count
               /\ rows'[k].outcome # "not_attempted" => rows'[k].start = g[k - 1]
               /\ rows'[k].reason = "request_budget" => g[k] = MaxRequests
    <3>1. k \in 1..L /\ k \in 0..L /\ k - 1 \in 0..L
      BY <2>2
    <3>2. CASE k < next
      <4>1. g[k] = f[k] /\ g[k - 1] = f[k - 1]
        BY <2>2, <2>4, <3>1, <3>2
      <4>2. /\ rows'[k].outcome = rows[k].outcome /\ rows'[k].attempts = rows[k].attempts
            /\ rows'[k].start = rows[k].start /\ rows'[k].reason = rows[k].reason
        BY <1>9, <1>12, <2>2, <3>1, <3>2, SMTT(20)
      <4>3. QED
        BY <2>1, <4>1, <4>2
    <3>3. CASE k = next
      <4>1. g[k] = count /\ g[k - 1] = count - Spent
        BY <2>2, <2>3, <2>4, <3>1, <3>3
      <4>2. rows'[k] = r
        BY <1>9, <3>3
      <4>3. r.reason = "request_budget" => count = MaxRequests
        <5>1. r.reason = "request_budget" => Exhausted
          BY <1>1, <1>8
        <5>2. QED
          BY <1>6, <5>1 DEF Exhausted
      <4>4. QED
        BY <1>6, <1>8, <4>1, <4>2, <4>3
    <3>4. CASE k > next
      <4>1. g[k] = count /\ g[k - 1] = count
        BY <2>2, <2>4, <3>1, <3>4
      <4>2. rows[k].reason = "not_reached" /\ rows[k].attempts = 0 /\ RowIsTrue(k)
        BY <1>4, <1>6, <3>4 DEF Untouched, RowsAreTrue
      <4>3. /\ rows'[k].outcome = "not_attempted" /\ rows'[k].attempts = 0
            /\ rows'[k].reason # "request_budget"
        BY <1>12, <3>4, <1>6, <4>2 DEF RowIsTrue
      <4>4. QED
        BY <1>6, <4>1, <4>3
    <3>5. QED
      BY <2>2, <3>1, <3>2, <3>3, <3>4
  <2>7. ASSUME NEW k \in 0..L, k >= next' - 1 PROVE g[k] = count
    <3>1. ~(k < next)
      BY <1>9, <2>7
    <3>2. QED
      BY <2>4, <3>1
  <2>8. at' # "request" /\ at' # "done"
    BY <1>10
  <2>9. Len(Plan') = L /\ count' = count
    BY <1>3, <1>11 DEF L
  <2>10. SumsAre(g)'
    BY <1>11, <2>4, <2>5, <2>6, <2>7, <2>8, <2>9 DEF SumsAre
  <2>11. QED
    BY <2>4, <2>10 DEF L
\* The rows that end the run.
<1>24. FinalsAreFinal'
  <2>1. SUFFICES ASSUME NEW i \in Ordinals, i < next', Final(i)'
                 PROVE  /\ stopped' \/ Late' \/ Exhausted'
                        /\ \A j \in Ordinals : i < j => rows'[j].attempts = 0
    BY <1>10, <1>11 DEF FinalsAreFinal
  <2>2. Late' = Late /\ Exhausted' = Exhausted
    BY <1>3, <1>10 DEF Late, Exhausted
  <2>3. CASE i = next
    <3>1. r.reason \in Stops
      BY <1>9, <2>1, <2>3 DEF Final
    <3>2. why = r.reason
      BY <1>1, <1>8, <3>1 DEF Stops
    <3>3. stopped' \/ Late \/ Exhausted
      BY <1>1, <3>1, <3>2 DEF Stops
    <3>4. \A j \in Ordinals : i < j => rows'[j].attempts = 0
      BY <1>4, <1>6, <1>12, <2>3 DEF Untouched
    <3>5. QED
      BY <2>2, <3>3, <3>4
  <2>4. CASE i # next
    <3>1. rows'[i].reason # "prerequisite_failed"
      BY <2>1 DEF Final, Stops
    <3>2. i < next /\ Final(i)
      <4>1. ~(next < i /\ i < next') /\ rows'[i].reason = rows[i].reason
        BY <1>12, <2>4, <3>1
      <4>2. QED
        BY <1>6, <1>9, <2>1, <2>4, <4>1 DEF Final
    <3>3. /\ IF at = "request" THEN Exhausted /\ Attempts = 0 ELSE stopped \/ Late \/ Exhausted
          /\ \A j \in Ordinals : i < j => rows[j].attempts = 0
      BY <1>4, <3>2 DEF FinalsAreFinal
    <3>4. Spent = 0 \/ (at = "step" /\ Spent = 0)
      BY <1>3, <3>3 DEF Spent
    <3>5. stopped' \/ Late' \/ Exhausted'
      BY <1>3, <2>2, <3>3
    <3>6. ASSUME NEW j \in Ordinals, i < j PROVE rows'[j].attempts = 0
      <4>1. CASE j = next
        BY <1>8, <1>9, <3>4, <4>1
      <4>2. CASE j # next
        BY <1>12, <3>3, <3>6, <4>2
      <4>3. QED
        BY <4>1, <4>2
    <3>7. QED
      BY <3>5, <3>6
  <2>5. QED
    BY <2>3, <2>4
<1>25. (rows'[next].outcome = "evaluated") <=> good
  BY <1>1, <1>8, <1>9
\* The cases.
<1>27. CasesArePrepared'
  <2>1. SUFFICES ASSUME NEW b \in Ordinals, NEW i \in Ordinals, Plan[b].phase = "owner-before",
                        Plan[i].case = Plan[b].case, i # b
                 PROVE  /\ i < next' => Evaluated(b)' = (rows'[i].reason # "prerequisite_failed")
                        /\ i = next' => Evaluated(b)'
    BY <1>11 DEF CasesArePrepared
  <2>2. PICK e \in Ordinals :
          /\ \A j \in Ordinals : Plan[j].case = Plan[b].case <=> b <= j /\ j <= e
          /\ \A j \in Ordinals : Plan[j].case = Plan[b].case => (Plan[j].phase = "owner-before" <=> j = b)
    <3>1. Plan[b].phase \notin Identifying
      BY <2>1 DEF Identifying
    <3>2. PICK b1 \in Ordinals, e \in Ordinals :
             /\ b1 <= b /\ b <= e /\ b1 < e
             /\ \A j \in Ordinals : Plan[j].case = Plan[b].case <=> b1 <= j /\ j <= e
             /\ \A j \in Ordinals : Plan[j].case = Plan[b].case =>
                  /\ Plan[j].phase \in {"owner-before", "deny", "owner-after"}
                  /\ Plan[j].phase = "owner-before" <=> j = b1
                  /\ Plan[j].phase # "deny" => Plan[j].actor = policy.cases[Plan[b].case].owner
      BY <1>6, <3>1, CaseIs
    <3>3. b1 = b
      BY <2>1, <3>2
    <3>4. QED
      BY <3>2, <3>3
  <2>3. b < i /\ i <= e
    BY <1>6, <2>1, <2>2
  <2>4. \A j \in Ordinals : /\ Evaluated(j) <=> rows[j].outcome = "evaluated"
                            /\ rows[j].outcome = "evaluated" /\ j # next => rows'[j].outcome = "evaluated"
                            /\ rows'[j].outcome = "evaluated" /\ j # next => rows[j].outcome = "evaluated"
    BY <1>12 DEF Evaluated
  <2>5. Evaluated(b)' <=> rows'[b].outcome = "evaluated"
    BY DEF Evaluated
  <2>6. /\ i < next => Evaluated(b) = (rows[i].reason # "prerequisite_failed")
        /\ i = next => Evaluated(b)
    BY <1>4, <2>1 DEF CasesArePrepared
  <2>7. CASE i < next
    <3>1. rows'[i].reason = rows[i].reason /\ b # next
      BY <1>6, <1>12, <2>3, <2>7
    <3>2. ~(i = next')
      BY <1>6, <1>9, <2>7
    <3>3. Evaluated(b)' <=> Evaluated(b)
      BY <2>4, <2>5, <3>1
    <3>4. Evaluated(b)' = (rows'[i].reason # "prerequisite_failed")
      BY <2>6, <2>7, <3>1, <3>3 DEF Evaluated
    <3>5. QED
      BY <3>2, <3>4
  <2>8. CASE i = next
    <3>1. b # next /\ ~(i = next')
      BY <1>6, <1>9, <2>1, <2>8
    <3>2. rows'[b].outcome = "evaluated"
      BY <2>4, <2>6, <2>8, <3>1
    <3>3. rows'[i].reason # "prerequisite_failed"
      BY <1>1, <1>8, <1>9, <2>8
    <3>4. Evaluated(b)' = (rows'[i].reason # "prerequisite_failed")
      BY <3>2, <3>3 DEF Evaluated
    <3>5. QED
      BY <3>1, <3>4
  <2>9. CASE next < i /\ i < next'
    <3>1. Step.phase = "owner-before" /\ ~good /\ Plan[i].case = Step.case
      BY <1>9, <2>9
    <3>2. next = b
      BY <1>6, <2>1, <2>2, <3>1
    <3>3. rows'[b].outcome # "evaluated"
      BY <1>25, <3>1, <3>2
    <3>4. rows'[i].reason = "prerequisite_failed"
      BY <1>12, <2>1, <2>9, <3>2
    <3>5. Evaluated(b)' = (rows'[i].reason # "prerequisite_failed")
      BY <3>3, <3>4 DEF Evaluated
    <3>6. ~(i = next')
      BY <1>6, <1>9, <2>9
    <3>7. QED
      BY <3>5, <3>6
  <2>10. CASE i = next'
    <3>1. ~(i < next') /\ b < next'
      BY <1>6, <1>9, <2>3, <2>10
    <3>2. CASE b = next
      <4>1. Plan[i].case = Step.case /\ Step.phase = "owner-before"
        BY <1>6, <2>1, <3>2
      <4>2. good
        <5>1. \A j \in Ordinals : next' <= j => j # i \/ good
          BY <1>9, <4>1
        <5>2. next' <= i
          BY <1>6, <1>9, <2>10
        <5>3. QED
          BY <5>1, <5>2
      <4>3. QED
        BY <1>25, <2>5, <3>1, <3>2, <4>2
    <3>3. CASE b # next
      <4>1. b < next
        <5>1. ~(next < b /\ b < next')
          BY <1>9, <2>1
        <5>2. QED
          BY <1>6, <3>1, <3>3, <5>1
      <4>2. Plan[next].case = Plan[b].case
        BY <1>6, <1>9, <2>2, <2>3, <2>10, <4>1
      <4>3. Evaluated(b)
        BY <1>4, <1>6, <2>1, <3>3, <4>2 DEF CasesArePrepared
      <4>4. QED
        BY <2>4, <2>5, <3>1, <3>3, <4>3
    <3>4. QED
      BY <3>2, <3>3
  <2>11. CASE i > next'
    BY <1>6, <1>9, <2>11
  <2>12. QED
    BY <1>6, <1>9, <2>7, <2>8, <2>9, <2>10, <2>11
\* The identities.
<1>28. ASSUME NEW i \in Ordinals, Plan[i].phase \in Identifying, i < next' PROVE i <= next
  <2>1. ~(next < i /\ i < next')
    BY <1>9, <1>28 DEF Identifying
  <2>2. QED
    BY <1>6, <1>28, <2>1
<1>29. ASSUME NEW i \in Ordinals, i < next', Plan[i].phase \in Identifying,
              who'[Plan[i].phase][Plan[i].actor] = Plan[i].actor
       PROVE  rows'[i].outcome = "evaluated"
  <2>1. Plan[i].actor \in Named /\ i <= next
    BY <1>6, <1>28, <1>29, PlanIs
  <2>2. CASE i = next
    <3>1. Identity /\ principal = Step.actor
      BY <1>6, <1>17, <1>19, <1>29, <2>1, <2>2
    <3>2. Step.actor # "none"
      BY <1>6, <1>16, <3>1, PolicyIs DEF Named
    <3>3. QED
      BY <1>2, <1>25, <2>2, <3>1, <3>2
  <2>3. CASE i < next
    <3>1. ~(Identity /\ Plan[i].phase = Step.phase /\ Plan[i].actor = Step.actor)
      BY <1>6, <1>29, <2>3, PlanIs
    <3>2. who[Plan[i].phase][Plan[i].actor] = Plan[i].actor
      BY <1>19, <1>29, <2>1, <3>1
    <3>3. Evaluated(i)
      BY <1>4, <1>29, <2>3, <3>2 DEF IdentitiesAreTrue, Valid
    <3>4. QED
      BY <1>6, <1>12, <2>3, <3>3 DEF Evaluated
  <2>4. QED
    BY <1>6, <2>1, <2>2, <2>3
<1>30. ASSUME NEW phase \in Identifying, \A i \in Ordinals : Plan[i].phase = phase => i < next'
       PROVE  Shared(who'[phase]) \subseteq reused'
  <2>1. CASE Identity /\ Step.phase = phase
    <3>1. next' = next + 1
      BY <1>9, <2>1 DEF Identity
    <3>2. next = Len(Plan) \/ Plan[next + 1].phase # Step.phase
      <4>1. next # Len(Plan) => next + 1 \in Ordinals /\ ~(next + 1 < next')
        <5>1. next \in 1..Len(Plan) /\ Len(Plan) \in Nat /\ Ordinals = 1..Len(Plan)
          BY <1>6
        <5>2. ~(next + 1 < next')
          BY <3>1, <5>1
        <5>3. ASSUME next # Len(Plan) PROVE next + 1 \in Ordinals
          <6> DEFINE l == Len(Plan)
          <6>1. next \in 1..l /\ l \in Nat /\ next # l
            BY <5>1, <5>3
          <6> HIDE DEF l
          <6>2. next + 1 \in 1..l
            BY <6>1
          <6>3. QED
            BY <5>1, <6>2, Zenon DEF l
        <5>4. QED
          BY <5>2, <5>3
      <4>2. QED
        BY <1>30, <2>1, <4>1
    <3>3. PhaseEnds
      BY <2>1, <3>2 DEF PhaseEnds
    <3>4. QED
      BY <1>10, <2>1, <3>3
  <2>2. CASE ~(Identity /\ Step.phase = phase)
    <3>1. \A a \in Named : who'[phase][a] = who[phase][a]
      BY <1>19, <2>2
    <3>2. Shared(who'[phase]) = Shared(who[phase])
      BY <3>1 DEF Shared
    <3>3. \A i \in Ordinals : Plan[i].phase = phase => i < next
      <4>1. SUFFICES ASSUME NEW i \in Ordinals, Plan[i].phase = phase PROVE i < next
        OBVIOUS
      <4>2. i <= next
        BY <1>28, <1>30, <4>1
      <4>3. i # next
        BY <1>6, <1>17, <2>2, <4>1
      <4>4. QED
        BY <1>6, <4>2, <4>3
    <3>4. Shared(who[phase]) \subseteq reused
      BY <1>4, <3>3 DEF IdentitiesAreTrue
    <3>5. QED
      BY <1>10, <3>2, <3>4
  <2>3. QED
    BY <2>1, <2>2
<1>31. IdentitiesAreTrue'
  <2>1. \A phase \in Identifying : Shared(who[phase])' = Shared(who'[phase])
    BY <1>11 DEF Shared
  <2>2. ASSUME NEW i \in Ordinals, i < next', Plan[i].phase \in Identifying,
               Valid(Plan[i].phase, Plan[i].actor)'
        PROVE  Evaluated(i)'
    BY <1>11, <1>29, <2>2 DEF Valid, Evaluated
  <2>3. QED
    BY <1>11, <1>30, <2>1, <2>2 DEF IdentitiesAreTrue
\* The flag.
<1>32. FlagIsTrue'
  <2>1. ASSUME ~incomplete'
        PROVE  ~policy.legacy /\ \A i \in Ordinals : i < next' => rows'[i].outcome = "evaluated"
    <3>1. ~incomplete /\ good
      BY <1>10, <2>1
    <3>2. next' = next + 1
      BY <1>9, <3>1
    <3>3. ~policy.legacy /\ \A i \in Ordinals : i < next => Evaluated(i)
      BY <1>4, <3>1 DEF FlagIsTrue
    <3>4. ASSUME NEW i \in Ordinals, i < next' PROVE rows'[i].outcome = "evaluated"
      <4>1. CASE i = next
        BY <1>25, <3>1, <4>1
      <4>2. CASE i # next
        BY <1>6, <1>12, <3>2, <3>3, <3>4, <4>2 DEF Evaluated
      <4>3. QED
        BY <4>1, <4>2
    <3>5. QED
      BY <3>3, <3>4
  <2>2. at' \in {"finish", "done"} => next' = Len(Plan) + 1
    BY <1>6, <1>9, <1>10
  <2>3. at' # "done"
    BY <1>10
  <2>4. \A i \in exposed' : Plan[i].phase = "deny"
    BY <1>1, <1>4, <1>6 DEF FlagIsTrue
  <2>5. QED
    BY <1>10, <1>11, <2>1, <2>2, <2>3, <2>4 DEF FlagIsTrue, Evaluated
<1>33. QED
  BY <1>11, <1>20, <1>21, <1>22, <1>23, <1>24, <1>27, <1>31, <1>32 DEF IInv

-----------------------------------------------------------------------------
(* The other steps.                                                        *)

\* What rows, principals and findings say, while they say the same.
LEMMA SaysTheSame ==
    ASSUME Untouched, RowsAreTrue, CasesArePrepared, IdentitiesAreTrue,
           UNCHANGED <<policy, next, who, reused, exposed>>,
           \A i \in Ordinals : /\ rows'[i].outcome = rows[i].outcome
                               /\ rows'[i].reason = rows[i].reason
                               /\ rows'[i].status = rows[i].status
                               /\ rows'[i].attempts = rows[i].attempts
    PROVE  Untouched' /\ RowsAreTrue' /\ CasesArePrepared' /\ IdentitiesAreTrue'
<1>1. Plan' = Plan /\ Ordinals' = Ordinals /\ Named' = Named /\ next' = next
  BY SamePlan
<1>2. \A i \in Ordinals : Evaluated(i)' <=> Evaluated(i)
  BY DEF Evaluated
<1>3. Untouched'
  BY <1>1 DEF Untouched
<1>4. RowsAreTrue'
  <2>1. SUFFICES ASSUME NEW i \in Ordinals PROVE RowIsTrue(i)'
    BY <1>1 DEF RowsAreTrue
  <2>2. RowIsTrue(i)
    BY DEF RowsAreTrue
  <2>3. QED
    BY <1>1, <2>2 DEF RowIsTrue, Evaluated, Valid
<1>5. CasesArePrepared'
  <2>1. \A i \in Ordinals : Evaluated(i)' = Evaluated(i)
    BY DEF Evaluated
  <2>2. QED
    BY <1>1, <2>1 DEF CasesArePrepared
<1>6. IdentitiesAreTrue'
  <2>1. \A phase \in Identifying : Shared(who[phase])' = Shared(who[phase])
    BY <1>1 DEF Shared
  <2>2. QED
    BY <1>1, <1>2, <2>1 DEF IdentitiesAreTrue, Valid
<1>7. QED
  BY <1>3, <1>4, <1>5, <1>6

LEMMA InitHolds == Init => IInv
<1> SUFFICES ASSUME Init PROVE IInv
  OBVIOUS
<1>1. /\ policy \in Policies /\ cause \in {"none", "cancelled"} /\ expired = FALSE
      /\ at = "step" /\ next = 1 /\ count = 0 /\ full = FALSE /\ stopped = FALSE
      /\ rows = [i \in Ordinals |-> Unreached]
      /\ who = [p \in {"identity-before", "identity-after"} |-> [a \in Named |-> "none"]]
      /\ reused = {} /\ exposed = {} /\ incomplete = policy.legacy /\ surprises = 0
  BY DEF Init
<1>2. Len(Plan) \in Nat \ {0} /\ Ordinals = 1..Len(Plan) /\ policy.legacy \in BOOLEAN
  BY <1>1, PlanIs, PolicyIs
<1>3. Unreached \in Rows
  BY DEF Unreached, Rows, Failures, Stops
<1>4. rows \in [Ordinals -> Rows] /\ \A i \in Ordinals : rows[i] = Unreached
  BY <1>1, <1>3
<1>5. who \in [{"identity-before", "identity-after"} -> [Named -> Principals]]
  BY <1>1 DEF Principals
<1>6. TypeOK
  <2>1. 0 \in 0..MaxRequests /\ 0 \in 0..SurpriseBound
    BY LimitAssumption
  <2>2. 1 \in 1..(Len(Plan) + 1) /\ 1 \in Ordinals
    BY <1>2
  <2>3. QED
    BY <1>1, <1>2, <1>4, <1>5, <2>1, <2>2 DEF TypeOK
<1>7. Untouched
  BY <1>4 DEF Untouched, Unreached
<1>8. RowsAreTrue
  BY <1>4 DEF RowsAreTrue, RowIsTrue, Evaluated, Unreached
<1>9. \E f \in [0..Len(Plan) -> Nat] : SumsAre(f)
  <2>1. PICK L \in Nat : L = Len(Plan)
    BY <1>2
  <2>2. PICK f \in [0..L -> Nat] : \A k \in 0..L : f[k] = 0
    <3>1. [k \in 0..L |-> 0] \in [0..L -> Nat]
      OBVIOUS
    <3>2. QED
      BY <3>1
  <2>3. ASSUME NEW k \in Ordinals
        PROVE  /\ f[k] = f[k - 1] + rows[k].attempts /\ f[k] <= count
               /\ rows[k].outcome = "not_attempted" /\ rows[k].reason # "request_budget"
    <3>1. k \in 0..L /\ k - 1 \in 0..L
      BY <1>2, <2>1
    <3>2. rows[k].attempts = 0 /\ rows[k].outcome = "not_attempted" /\ rows[k].reason = "not_reached"
      BY <1>4 DEF Unreached
    <3>3. QED
      BY <1>1, <2>2, <3>1, <3>2
  <2>4. SumsAre(f)
    BY <1>1, <2>1, <2>2, <2>3 DEF SumsAre
  <2>5. QED
    BY <2>1, <2>4
<1>10. \A i \in Ordinals : ~(i < next)
  BY <1>1, <1>2
<1>11. FinalsAreFinal
  BY <1>10 DEF FinalsAreFinal
<1>12. CasesArePrepared
  <2>1. SUFFICES ASSUME NEW b \in Ordinals, NEW i \in Ordinals, Plan[b].phase = "owner-before",
                        Plan[i].case = Plan[b].case, i # b, i = next
                 PROVE  FALSE
    BY <1>10 DEF CasesArePrepared
  <2>2. Plan[b].phase \notin Identifying
    BY <2>1 DEF Identifying
  <2>3. PICK b1 \in Ordinals, e \in Ordinals :
             /\ b1 <= b /\ b <= e /\ b1 < e
             /\ \A j \in Ordinals : Plan[j].case = Plan[b].case <=> b1 <= j /\ j <= e
             /\ \A j \in Ordinals : Plan[j].case = Plan[b].case =>
                  /\ Plan[j].phase \in {"owner-before", "deny", "owner-after"}
                  /\ Plan[j].phase = "owner-before" <=> j = b1
                  /\ Plan[j].phase # "deny" => Plan[j].actor = policy.cases[Plan[b].case].owner
      BY <1>1, <2>2, CaseIs
  <2>4. b1 = b /\ b <= i
    BY <2>1, <2>3
  <2>5. QED
    BY <1>1, <1>2, <2>1, <2>4
<1>13. IdentitiesAreTrue
  <2>1. \A phase \in Identifying : \A a \in Named : who[phase][a] = "none"
    BY <1>1 DEF Identifying
  <2>2. \A phase \in Identifying : Shared(who[phase]) = {}
    BY <2>1 DEF Shared
  <2>3. QED
    BY <1>10, <2>2 DEF IdentitiesAreTrue
<1>14. FlagIsTrue
  BY <1>1, <1>10 DEF FlagIsTrue
<1>15. QED
  BY <1>6, <1>7, <1>8, <1>9, <1>11, <1>12, <1>13, <1>14 DEF IInv

LEMMA StartStep ==
    ASSUME IInv, Start
    PROVE  IInv'
<1>1. /\ at = "step" /\ ~(stopped \/ full) /\ ~Late
      /\ at' = "request" /\ rows' = [rows EXCEPT ![next].start = count]
      /\ UNCHANGED <<policy, cause, expired, next, count, full, stopped, who, reused, exposed,
                     incomplete, surprises>>
  BY DEF Start, request
<1>2. /\ TypeOK /\ Untouched /\ RowsAreTrue /\ FinalsAreFinal /\ CasesArePrepared
      /\ IdentitiesAreTrue /\ FlagIsTrue
  BY DEF IInv
<1>3. /\ policy \in Policies /\ next \in Ordinals /\ Ordinals = 1..Len(Plan) /\ Len(Plan) \in Nat
      /\ count \in Nat /\ rows \in [Ordinals -> Rows]
  BY <1>1, <1>2, PlanIs, LimitAssumption DEF TypeOK
<1>4. Plan' = Plan /\ Ordinals' = Ordinals /\ Named' = Named /\ Principals' = Principals
  BY <1>1, SamePlan
<1>5. /\ rows' \in [Ordinals -> Rows] /\ rows'[next].start = count
      /\ \A i \in Ordinals : /\ rows'[i].outcome = rows[i].outcome
                             /\ rows'[i].reason = rows[i].reason
                             /\ rows'[i].status = rows[i].status
                             /\ rows'[i].attempts = rows[i].attempts
                             /\ i # next => rows'[i].start = rows[i].start
  <2> DEFINE new == [rows[next] EXCEPT !.start = count]
  <2>1. rows' = [rows EXCEPT ![next] = new]
    BY <1>1
  <2>2. /\ new \in Rows /\ new.start = count /\ new.outcome = rows[next].outcome
        /\ new.reason = rows[next].reason /\ new.status = rows[next].status
        /\ new.attempts = rows[next].attempts
    BY <1>3 DEF Rows
  <2> HIDE DEF new
  <2>3. QED
    BY <1>3, <2>1, <2>2
<1>6. TypeOK'
  BY <1>1, <1>2, <1>3, <1>4, <1>5 DEF TypeOK
<1>7. Untouched' /\ RowsAreTrue' /\ CasesArePrepared' /\ IdentitiesAreTrue'
  BY <1>1, <1>2, <1>5, SaysTheSame
<1>8. PICK f \in [0..Len(Plan) -> Nat] : SumsAre(f)
  BY DEF IInv
<1>9. SumsAre(f)'
  <2>1. /\ f[0] = 0
        /\ \A k \in Ordinals :
             /\ f[k] = f[k - 1] + rows[k].attempts /\ f[k] <= count
             /\ rows[k].outcome # "not_attempted" => rows[k].start = f[k - 1]
             /\ rows[k].reason = "request_budget" => f[k] = MaxRequests
        /\ \A k \in 0..Len(Plan) : k >= next - 1 => f[k] = count
    BY <1>1, <1>8 DEF SumsAre
  <2>2. rows[next].outcome = "not_attempted"
    <3>1. rows[next].attempts = 0
      BY <1>2, <1>3 DEF Untouched
    <3>2. QED
      BY <1>2, <1>3, <3>1 DEF RowsAreTrue, RowIsTrue
  <2>3. \A k \in Ordinals : rows'[k].outcome # "not_attempted" => rows'[k].start = f[k - 1]
    BY <1>5, <2>1, <2>2
  <2>4. QED
    BY <1>1, <1>3, <1>4, <1>5, <1>8, <2>1, <2>3 DEF SumsAre
<1>10. FinalsAreFinal'
  <2>1. SUFFICES ASSUME NEW i \in Ordinals, i < next, Final(i)'
                 PROVE  Exhausted' /\ Attempts' = 0 /\ \A j \in Ordinals : i < j => rows'[j].attempts = 0
    BY <1>1, <1>4 DEF FinalsAreFinal
  <2>2. Final(i)
    BY <1>5, <2>1 DEF Final
  <2>3. Exhausted /\ \A j \in Ordinals : i < j => rows[j].attempts = 0
    BY <1>1, <1>2, <2>1, <2>2 DEF FinalsAreFinal
  <2>4. Exhausted' /\ Attempts' = 0
    BY <1>1, <1>3, <1>5, <2>3 DEF Exhausted, Attempts
  <2>5. QED
    BY <1>5, <2>3, <2>4
<1>11. FlagIsTrue'
  BY <1>1, <1>2, <1>4, <1>5 DEF FlagIsTrue, Evaluated
<1>12. QED
  BY <1>4, <1>6, <1>7, <1>8, <1>9, <1>10, <1>11 DEF IInv

LEMMA AttemptStep ==
    ASSUME IInv, Attempt
    PROVE  IInv'
<1>1. /\ at = "request" /\ ~Exhausted /\ count' = count + 1
      /\ surprises' = (IF Attempts > 0 THEN surprises + 1 ELSE surprises)
      /\ Attempts > 0 => surprises < SurpriseBound
      /\ UNCHANGED <<policy, cause, expired, at, next, full, stopped, rows, who, reused, exposed, incomplete>>
  BY DEF Attempt, results
<1>2. /\ TypeOK /\ Untouched /\ RowsAreTrue /\ FinalsAreFinal /\ CasesArePrepared
      /\ IdentitiesAreTrue /\ FlagIsTrue
  BY DEF IInv
<1>3. /\ policy \in Policies /\ next \in Ordinals /\ Ordinals = 1..Len(Plan) /\ Len(Plan) \in Nat
      /\ count \in Nat /\ count < MaxRequests /\ MaxRequests \in Nat /\ rows \in [Ordinals -> Rows]
  BY <1>1, <1>2, PlanIs, LimitAssumption DEF TypeOK, Exhausted
<1>4. Plan' = Plan /\ Ordinals' = Ordinals /\ Named' = Named /\ Principals' = Principals
  BY <1>1, SamePlan
<1>5. TypeOK'
  <2>1. surprises' \in 0..SurpriseBound
    BY <1>1, <1>2, LimitAssumption DEF TypeOK
  <2>2. count' \in 0..MaxRequests
    BY <1>1, <1>3
  <2>3. QED
    BY <1>1, <1>2, <1>4, <2>1, <2>2 DEF TypeOK
<1>6. Untouched' /\ RowsAreTrue' /\ CasesArePrepared' /\ IdentitiesAreTrue'
  BY <1>1, <1>2, SaysTheSame
<1>7. PICK f \in [0..Len(Plan) -> Nat] : SumsAre(f)
  BY DEF IInv
<1>8. SumsAre(f)'
  <2>1. /\ f[0] = 0
        /\ \A k \in Ordinals :
             /\ f[k] = f[k - 1] + rows[k].attempts /\ f[k] <= count
             /\ rows[k].outcome # "not_attempted" => rows[k].start = f[k - 1]
             /\ rows[k].reason = "request_budget" => f[k] = MaxRequests
        /\ \A k \in 0..Len(Plan) : k >= next - 1 => f[k] = rows[next].start
        /\ rows[next].start <= count
    BY <1>1, <1>7 DEF SumsAre
  <2>2. rows[next].start \in Nat
    BY <1>3 DEF Rows
  <2>3. \A k \in Ordinals : f[k] \in Nat
    BY <1>3, <1>7
  <2>4. /\ \A k \in Ordinals : f[k] <= count + 1
        /\ rows[next].start <= count + 1
    BY <1>3, <2>1, <2>2, <2>3
  <2>5. QED
    BY <1>1, <1>4, <1>7, <2>1, <2>4 DEF SumsAre
<1>9. FinalsAreFinal'
  <2>1. \A i \in Ordinals : ~(i < next /\ Final(i))
    BY <1>1, <1>2 DEF FinalsAreFinal
  <2>2. QED
    BY <1>1, <1>4, <2>1 DEF FinalsAreFinal, Final
<1>10. FlagIsTrue'
  BY <1>1, <1>2, <1>4 DEF FlagIsTrue, Evaluated
<1>11. QED
  BY <1>4, <1>5, <1>6, <1>7, <1>8, <1>9, <1>10 DEF IInv

\* A signal, the clock, or nothing.
LEMMA SignalStep ==
    ASSUME IInv, at # "done" \/ UNCHANGED <<cause, expired>>,
           cause' \in {"none", "cancelled", "deadline"}, expired' \in BOOLEAN,
           cause # "none" => cause' = cause, expired => expired',
           UNCHANGED <<policy, at, next, count, full, stopped, rows, who, reused, exposed,
                       incomplete, surprises>>
    PROVE  IInv'
<1>1. /\ TypeOK /\ Untouched /\ RowsAreTrue /\ FinalsAreFinal /\ CasesArePrepared
      /\ IdentitiesAreTrue /\ FlagIsTrue
  BY DEF IInv
<1>2. Plan' = Plan /\ Ordinals' = Ordinals /\ Named' = Named /\ Principals' = Principals
  BY SamePlan
<1>3. TypeOK'
  BY <1>1, <1>2 DEF TypeOK
<1>4. Untouched' /\ RowsAreTrue' /\ CasesArePrepared' /\ IdentitiesAreTrue'
  BY <1>1, SaysTheSame
<1>5. PICK f \in [0..Len(Plan) -> Nat] : SumsAre(f)
  BY DEF IInv
<1>6. SumsAre(f)'
  BY <1>2, <1>5 DEF SumsAre
<1>7. FinalsAreFinal'
  <2>1. Late => Late'
    BY DEF Late
  <2>2. Exhausted' = Exhausted /\ Attempts' = Attempts
    BY DEF Exhausted, Attempts
  <2>3. QED
    BY <1>1, <1>2, <2>1, <2>2 DEF FinalsAreFinal, Final
<1>8. FlagIsTrue'
  <2>1. \A a \in Named : Proven(a)' <=> Proven(a)
    BY DEF Proven, Valid
  <2>2. QED
    BY <1>1, <1>2, <2>1 DEF FlagIsTrue, Evaluated
<1>9. QED
  BY <1>2, <1>3, <1>4, <1>5, <1>6, <1>7, <1>8 DEF IInv

\* What the ledger adds up is what the steps spent.
LEMMA TotalIs ==
    ASSUME NEW f \in [0..Len(Plan) -> Nat], Len(Plan) \in Nat, f[0] = 0,
           \A k \in 1..Len(Plan) : f[k] = f[k - 1] + rows[k].attempts
    PROVE  \A k \in 0..Len(Plan) : Total[k] = f[k]
<1>1. PICK L \in Nat : L = Len(Plan)
  OBVIOUS
<1> DEFINE Sum(g) == g = [k \in 0..L |-> IF k = 0 THEN 0 ELSE g[k - 1] + rows[k].attempts]
<1>2. Sum(f)
  <2>1. f = [k \in 0..L |-> f[k]]
    BY <1>1
  <2>2. \A k \in 0..L : f[k] = IF k = 0 THEN 0 ELSE f[k - 1] + rows[k].attempts
    BY <1>1
  <2>3. QED
    BY <2>1, <2>2
<1>3. Total = CHOOSE g : Sum(g)
  BY <1>1, Zenon DEF Total
<1> HIDE DEF Sum
<1>4. Sum(Total)
  BY <1>2, <1>3, Zenon
<1>5. \A k \in 0..L : Total[k] = IF k = 0 THEN 0 ELSE Total[k - 1] + rows[k].attempts
  <2>1. Total = [k \in 0..L |-> IF k = 0 THEN 0 ELSE Total[k - 1] + rows[k].attempts]
    BY <1>4 DEF Sum
  <2> HIDE DEF Total
  <2>2. QED
    BY <2>1, Zenon
<1> HIDE DEF Total
<1> DEFINE S == {k \in Nat : k <= L => Total[k] = f[k]}
<1>6. 0 \in S
  BY <1>5
<1>7. ASSUME NEW k \in Nat, k \in S PROVE k + 1 \in S
  <2>1. SUFFICES ASSUME k + 1 <= L PROVE Total[k + 1] = f[k + 1]
    OBVIOUS
  <2>2. k + 1 \in 0..L /\ k + 1 \in 1..L /\ k + 1 # 0 /\ (k + 1) - 1 = k /\ k <= L
    BY <1>1, <2>1
  <2>3. Total[k + 1] = Total[k] + rows[k + 1].attempts
    BY <1>5, <2>2
  <2>4. f[k + 1] = f[k] + rows[k + 1].attempts
    BY <1>1, <2>2
  <2>5. QED
    BY <1>7, <2>2, <2>3, <2>4
<1> HIDE DEF S
<1>8. \A k \in Nat : k \in S
  BY <1>6, <1>7, NatSets
<1>9. QED
  BY <1>1, <1>8 DEF S

LEMMA FinishStep ==
    ASSUME IInv, Finish
    PROVE  IInv'
<1>1. /\ at = "finish" /\ at' = "done"
      /\ incomplete' = \/ incomplete \/ Cut
                       \/ ~policy.legacy /\ \E a \in Named : ~Proven(a)
      /\ rows' = [i \in Ordinals |-> IF rows[i].outcome = "not_attempted"
                                     THEN [rows[i] EXCEPT !.start = Before(i)] ELSE rows[i]]
      /\ UNCHANGED <<policy, cause, expired, next, count, full, stopped, who, reused, exposed, surprises>>
  BY DEF Finish, request
<1>2. /\ TypeOK /\ Untouched /\ RowsAreTrue /\ FinalsAreFinal /\ CasesArePrepared
      /\ IdentitiesAreTrue /\ FlagIsTrue
  BY DEF IInv
<1>3. /\ policy \in Policies /\ Ordinals = 1..Len(Plan) /\ Len(Plan) \in Nat
      /\ count \in Nat /\ rows \in [Ordinals -> Rows] /\ next \in Nat
  BY <1>2, PlanIs, LimitAssumption DEF TypeOK
<1>4. Plan' = Plan /\ Ordinals' = Ordinals /\ Named' = Named /\ Principals' = Principals
  BY <1>1, SamePlan
<1>5. PICK f \in [0..Len(Plan) -> Nat] : SumsAre(f)
  BY DEF IInv
<1>6. /\ f[0] = 0
      /\ \A k \in Ordinals :
           /\ f[k] = f[k - 1] + rows[k].attempts /\ f[k] <= count
           /\ rows[k].outcome # "not_attempted" => rows[k].start = f[k - 1]
           /\ rows[k].reason = "request_budget" => f[k] = MaxRequests
      /\ \A k \in 0..Len(Plan) : k >= next - 1 => f[k] = count
  BY <1>1, <1>5 DEF SumsAre
<1>7. \A k \in Ordinals : Before(k) = f[k - 1] /\ f[k - 1] \in Nat
  <2>1. \A k \in 0..Len(Plan) : Total[k] = f[k]
    BY <1>3, <1>6, TotalIs
  <2>2. ASSUME NEW k \in Ordinals PROVE k - 1 \in 0..Len(Plan)
    BY <1>3
  <2>3. QED
    BY <1>5, <2>1, <2>2 DEF Before
<1>8. ASSUME NEW i \in Ordinals
      PROVE  /\ rows'[i] \in Rows /\ rows'[i].start = f[i - 1]
             /\ rows'[i].outcome = rows[i].outcome /\ rows'[i].reason = rows[i].reason
             /\ rows'[i].status = rows[i].status /\ rows'[i].attempts = rows[i].attempts
  <2>1. rows[i] \in Rows /\ Before(i) = f[i - 1] /\ f[i - 1] \in Nat
    BY <1>3, <1>7
  <2>2. rows'[i] = IF rows[i].outcome = "not_attempted"
                   THEN [rows[i] EXCEPT !.start = Before(i)] ELSE rows[i]
    BY <1>1
  <2>3. CASE rows[i].outcome = "not_attempted"
    <3>1. rows'[i] = [rows[i] EXCEPT !.start = f[i - 1]]
      BY <2>1, <2>2, <2>3
    <3>2. QED
      BY <2>1, <3>1 DEF Rows
  <2>4. CASE rows[i].outcome # "not_attempted"
    BY <1>6, <2>1, <2>2, <2>4
  <2>5. QED
    BY <2>3, <2>4
<1>9. rows' \in [Ordinals -> Rows]
  <2>1. rows' = [i \in Ordinals |-> rows'[i]]
    BY <1>1, Zenon
  <2>2. QED
    BY <1>8, <2>1
<1>10. TypeOK'
  <2>1. incomplete' \in BOOLEAN
    BY <1>1, <1>2 DEF TypeOK
  <2>2. QED
    BY <1>1, <1>2, <1>4, <1>9, <2>1 DEF TypeOK
<1>11. Untouched' /\ RowsAreTrue' /\ CasesArePrepared' /\ IdentitiesAreTrue'
  BY <1>1, <1>2, <1>8, SaysTheSame
<1>12. SumsAre(f)'
  BY <1>1, <1>4, <1>5, <1>6, <1>8 DEF SumsAre
<1>13. FinalsAreFinal'
  <2>1. Late' = Late /\ Exhausted' = Exhausted
    BY <1>1 DEF Late, Exhausted
  <2>2. \A i \in Ordinals : Final(i)' <=> Final(i)
    BY <1>8 DEF Final
  <2>3. QED
    BY <1>1, <1>2, <1>4, <1>8, <2>1, <2>2 DEF FinalsAreFinal
<1>14. FlagIsTrue'
  <2>1. \A a \in Named : Proven(a)' <=> Proven(a)
    BY <1>1 DEF Proven, Valid
  <2>2. \A i \in Ordinals : Evaluated(i)' <=> Evaluated(i)
    BY <1>8 DEF Evaluated
  <2>3. ~incomplete' => ~incomplete /\ cause = "none" /\ ~expired
    BY <1>1 DEF Cut, Late
  <2>4. ~incomplete' => \A a \in Named : Proven(a)
    BY <1>1, <1>2, <2>3 DEF FlagIsTrue
  <2>5. QED
    BY <1>1, <1>2, <1>4, <2>1, <2>2, <2>3, <2>4 DEF FlagIsTrue
<1>15. QED
  BY <1>4, <1>5, <1>10, <1>11, <1>12, <1>13, <1>14 DEF IInv

\* Why a request failed.
LEMMA ReasonIs ==
    ASSUME TypeOK, NEW code \in Failures
    PROVE  /\ Reason(code) \in Failures \cup Stops
           /\ Reason(code) = code \/ (Reason(code) \in {"cancelled", "deadline"} /\ Late)
BY DEF TypeOK, Reason, Late, Failures, Stops

LEMMA Unreported ==
    ASSUME TypeOK, Refuse \/ NotStarted \/ Fail
    PROVE  \E why : Ends(FALSE, why, "none", "none")
<1>1. TypeOK /\ SurpriseBound \in Nat
  BY LimitAssumption
<1>2. CASE Refuse
  <2>1. /\ at = "step" /\ stopped' = TRUE /\ End(FALSE, "body_budget", "none", "none")
        /\ UNCHANGED <<count, full, exposed, surprises>>
    BY <1>2 DEF Refuse
  <2>2. Ends(FALSE, "body_budget", "none", "none")
    BY <1>1, <2>1 DEF Ends, Failed, TypeOK, Failures, Stops
  <2>3. QED
    BY <2>2
<1>3. CASE NotStarted
  <2>1. /\ at = "step" /\ Late /\ End(FALSE, Reason("transport_error"), "none", "none")
        /\ UNCHANGED <<count, full, stopped, exposed, surprises>>
    BY <1>3 DEF NotStarted, request
  <2>2. Reason("transport_error") \in {"cancelled", "deadline"}
    BY <1>1, <2>1 DEF Reason, Late, TypeOK
  <2>3. Failed(FALSE, Reason("transport_error"), "none", "none")
    BY <2>1, <2>2 DEF Failed, Stops
  <2>4. Ends(FALSE, Reason("transport_error"), "none", "none")
    BY <1>1, <2>1, <2>3 DEF Ends, TypeOK
  <2>5. QED
    BY <2>4
<1>4. CASE Fail
  <2>1. at = "request" /\ UNCHANGED <<count, full, exposed>>
    BY <1>4 DEF Fail
  <2>2. PICK code \in Codes :
          LET forced == Late \/ (code = "request_budget" /\ Attempts = 0) IN
          /\ ~forced => surprises < SurpriseBound
          /\ surprises' = IF forced THEN surprises ELSE surprises + 1
          /\ stopped' = (stopped \/ code = "body_budget")
          /\ End(FALSE, Reason(code), "none", "none")
    BY <1>4 DEF Fail
  <2>3. code \in Failures /\ (code = "request_budget" => Exhausted)
    BY <2>2 DEF Codes, Failures
  <2>4. /\ surprises' \in 0..SurpriseBound /\ stopped' \in BOOLEAN /\ (stopped => stopped')
        /\ code = "body_budget" => stopped'
        /\ End(FALSE, Reason(code), "none", "none")
    <3>1. /\ surprises' = surprises \/ (surprises < SurpriseBound /\ surprises' = surprises + 1)
          /\ stopped' = (stopped \/ code = "body_budget")
          /\ End(FALSE, Reason(code), "none", "none")
      BY <2>2, Zenon
    <3>2. surprises' \in 0..SurpriseBound
      BY <1>1, <3>1 DEF TypeOK
    <3>3. stopped \in BOOLEAN
      BY <1>1 DEF TypeOK
    <3>4. QED
      BY <3>1, <3>2, <3>3, Zenon
  <2>5. /\ Reason(code) \in Failures \cup Stops
        /\ Reason(code) = code \/ (Reason(code) \in {"cancelled", "deadline"} /\ Late)
    BY <2>3, ReasonIs
  <2> DEFINE why == Reason(code)
  <2>6. why = "request_budget" => at = "request" /\ Exhausted
    BY <2>1, <2>3, <2>5
  <2>7. why = "body_budget" => stopped'
    BY <2>4, <2>5
  <2>8. why \in {"cancelled", "deadline"} => Late
    BY <2>3, <2>5 DEF Failures
  <2> HIDE DEF why
  <2>9. Failed(FALSE, why, "none", "none")
    BY <2>1, <2>5, <2>6, <2>7, <2>8 DEF Failed, why
  <2>10. Ends(FALSE, why, "none", "none")
    BY <1>1, <2>1, <2>4, <2>9 DEF Ends, TypeOK, why
  <2>11. QED
    BY <2>10
<1>5. QED
  BY <1>2, <1>3, <1>4

LEMMA Reported ==
    ASSUME TypeOK, Respond
    PROVE  \E a \in Answers : Ends(a.good, "none", a.status, a.principal)
<1>1. TypeOK /\ SurpriseBound \in Nat
  BY LimitAssumption
<1>2. at = "request" /\ Attempts > 0 /\ full' \in {full, TRUE} /\ UNCHANGED <<count, stopped>>
  BY DEF Respond
<1>3. PICK a \in Answers :
          LET usual == a.good /\ ~a.canary /\ full' = full IN
          /\ ~usual => surprises < SurpriseBound
          /\ surprises' = IF usual THEN surprises ELSE surprises + 1
          /\ exposed' = IF a.canary THEN exposed \cup {next} ELSE exposed
          /\ End(a.good, "none", a.status, a.principal)
  BY DEF Respond
<1>4. /\ surprises' = surprises \/ (surprises < SurpriseBound /\ surprises' = surprises + 1)
      /\ exposed' = IF a.canary THEN exposed \cup {next} ELSE exposed
      /\ End(a.good, "none", a.status, a.principal)
  BY <1>3, Zenon
<1>5. surprises' \in 0..SurpriseBound
  BY <1>1, <1>4 DEF TypeOK
<1>6. a = Answer(a.good, a.status, a.principal, a.canary) /\ a.canary \in BOOLEAN
  <2>1. a \in Answers
    BY <1>3
  <2>2. \A x \in Answers : x = Answer(x.good, x.status, x.principal, x.canary)
    BY AnswersAre, Zenon
  <2>3. \A x \in Answers : x.canary \in BOOLEAN
    BY AnswersAre, Zenon
  <2>4. QED
    BY <2>1, <2>2, <2>3
<1>7. Answered(a.good, "none", a.status, a.principal)
  BY <1>2, <1>4, <1>6 DEF Answered
<1>8. Ends(a.good, "none", a.status, a.principal)
  BY <1>1, <1>2, <1>4, <1>5, <1>7 DEF Ends, TypeOK
<1>9. QED
  BY <1>8

LEMMA NextStep ==
    ASSUME IInv, [Next]_vars
    PROVE  IInv'
<1>1. TypeOK
  BY DEF IInv
<1>2. CASE Refuse \/ NotStarted \/ Fail
  BY <1>1, <1>2, Unreported, EndStep
<1>3. CASE Respond
  BY <1>1, <1>3, Reported, EndStep
<1>4. CASE Start
  BY <1>4, StartStep
<1>5. CASE Attempt
  BY <1>5, AttemptStep
<1>6. CASE Finish
  BY <1>6, FinishStep
<1>7. ASSUME NEW why \in {"cancelled", "deadline"}, Abort(why) PROVE IInv'
  BY <1>1, <1>7, SignalStep DEF Abort, request, results, TypeOK
<1>8. CASE Expire
  BY <1>1, <1>8, SignalStep DEF Expire, request, results, TypeOK
<1>9. CASE UNCHANGED vars
  BY <1>1, <1>9, SignalStep DEF vars, request, results, TypeOK
<1>10. QED
  BY <1>2, <1>3, <1>4, <1>5, <1>6, <1>7, <1>8, <1>9 DEF Next

LEMMA Invariant == Spec => []IInv
<1>1. Init => IInv
  BY InitHolds
<1>2. IInv /\ [Next]_vars => IInv'
  BY NextStep
<1>3. QED
  BY <1>1, <1>2, PTL DEF Spec

-----------------------------------------------------------------------------
(* What follows.                                                           *)

\* The state of a run is what it is declared to be, whatever the policies: its
\* place is one of the plan's steps or past the last of them, and no request is
\* counted beyond API_MAX_REQUESTS.
THEOREM TypeCorrect == Spec => []TypeOK
<1>1. IInv => TypeOK
  BY DEF IInv
<1>2. QED
  BY <1>1, Invariant, PTL

\* At the end every step has had its turn.
LEMMA AtTheEnd ==
    ASSUME IInv, at = "done"
    PROVE  /\ policy \in Policies /\ Ordinals = 1..Len(Plan) /\ Len(Plan) \in Nat
           /\ rows \in [Ordinals -> Rows]
           /\ \A i \in Ordinals : i < next /\ RowIsTrue(i)
           /\ DOMAIN who = Identifying
           /\ ~incomplete => /\ cause = "none" /\ ~expired /\ ~policy.legacy
                             /\ \A a \in Named : Proven(a)
                             /\ \A i \in Ordinals : Evaluated(i)
           /\ exposed \subseteq Ordinals /\ \A i \in exposed : Plan[i].phase = "deny"
<1>1. TypeOK /\ RowsAreTrue /\ FlagIsTrue
  BY DEF IInv
<1>2. policy \in Policies /\ rows \in [Ordinals -> Rows] /\ exposed \subseteq Ordinals
  BY <1>1 DEF TypeOK
<1>3. Ordinals = 1..Len(Plan) /\ Len(Plan) \in Nat
  BY <1>2, PlanIs
<1>4. next = Len(Plan) + 1
  BY <1>1 DEF FlagIsTrue
<1>5. \A i \in Ordinals : i < next
  BY <1>3, <1>4
<1>6. DOMAIN who = Identifying
  BY <1>1 DEF TypeOK, Identifying
<1>7. QED
  BY <1>1, <1>2, <1>3, <1>5, <1>6 DEF FlagIsTrue, RowsAreTrue

LEMMA RowIsSane ==
    ASSUME IInv, at = "done", NEW i \in Ordinals, rows[i].status # "odd"
    PROVE  SaneRow(i)
<1>1. /\ rows[i] \in Rows /\ RowIsTrue(i) /\ Ordinals = 1..Len(Plan) /\ Len(Plan) \in Nat
  BY AtTheEnd
<1>2. PICK f \in [0..Len(Plan) -> Nat] : SumsAre(f)
  BY DEF IInv
<1>3. /\ f[0] = 0
      /\ \A k \in Ordinals :
           /\ f[k] = f[k - 1] + rows[k].attempts /\ f[k] <= count /\ rows[k].start = f[k - 1]
           /\ rows[k].reason = "request_budget" => f[k] = MaxRequests
  BY <1>2 DEF SumsAre
<1>4. Before(i) = f[i - 1] /\ f[i - 1] \in Nat
  <2>1. \A k \in 0..Len(Plan) : Total[k] = f[k]
    BY <1>1, <1>3, TotalIs
  <2>2. i - 1 \in 0..Len(Plan)
    BY <1>1
  <2>3. QED
    BY <1>2, <2>1, <2>2 DEF Before
<1>5. count \in Nat /\ count <= MaxRequests /\ MaxRequests \in Nat
  BY LimitAssumption DEF IInv, TypeOK
<1>6. /\ rows[i].start = Before(i) /\ rows[i].start + rows[i].attempts <= MaxRequests
      /\ rows[i].reason = "request_budget" => rows[i].start + rows[i].attempts = MaxRequests
  <2>1. /\ f[i] = f[i - 1] + rows[i].attempts /\ f[i] <= count /\ rows[i].start = f[i - 1]
        /\ rows[i].reason = "request_budget" => f[i] = MaxRequests
    BY <1>3
  <2>2. rows[i].attempts \in Nat
    BY <1>1 DEF Rows
  <2>3. f[i - 1] + rows[i].attempts <= MaxRequests
    BY <1>4, <1>5, <2>1, <2>2
  <2>4. QED
    BY <1>4, <2>1, <2>3
<1>7. Evaluated(i) <=> rows[i].reason = "evaluated"
  BY <1>1 DEF RowIsTrue, Evaluated
<1>8. Evaluated(i) = (rows[i].reason = "evaluated")
  BY <1>7 DEF Evaluated
<1>9. rows[i].outcome = "evaluated" => SaneStatus(i)
  BY <1>1 DEF RowIsTrue, SaneStatus, Evaluated
<1>10. CASE rows[i].outcome = "evaluated"
  <2>1. rows[i].attempts >= 1 /\ rows[i].status # "none" /\ rows[i].reason = "evaluated"
    BY <1>1, <1>10 DEF RowIsTrue, Rows
  <2>2. QED
    BY <1>6, <1>8, <1>9, <1>10, <2>1 DEF SaneRow
<1>11. CASE rows[i].outcome = "not_attempted"
  <2>1. /\ rows[i].attempts = 0 /\ rows[i].status = "none"
        /\ rows[i].reason \notin {"evaluated", "assertion_inconclusive"}
        /\ rows[i].reason = "prerequisite_failed" => Plan[i].phase \in {"deny", "owner-after"}
    BY <1>1, <1>11 DEF RowIsTrue
  <2>2. QED
    BY <1>6, <1>8, <1>11, <2>1 DEF SaneRow
<1>12. CASE rows[i].outcome = "inconclusive"
  <2>1. /\ rows[i].attempts >= 1
        /\ rows[i].reason \notin {"evaluated", "prerequisite_failed", "not_reached"}
        /\ rows[i].status # "none" <=> rows[i].reason = "assertion_inconclusive"
    BY <1>1, <1>12 DEF RowIsTrue, Rows
  <2>2. QED
    BY <1>6, <1>8, <1>12, <2>1 DEF SaneRow
<1>13. QED
  BY <1>1, <1>10, <1>11, <1>12 DEF Rows

LEMMA RowsAreSane ==
    ASSUME IInv, at = "done", \A i \in Ordinals : rows[i].status # "odd"
    PROVE  Sane
<1>1. /\ policy \in Policies /\ Ordinals = 1..Len(Plan)
      /\ \A i \in Ordinals : i < next /\ RowIsTrue(i)
  BY AtTheEnd
<1>2. \A i \in Ordinals : SaneRow(i)
  BY RowIsSane
<1>3. FinalsAreFinal /\ CasesArePrepared /\ IdentitiesAreTrue
  BY DEF IInv
<1>4. \A i, j \in Ordinals : i < j /\ Final(i) => rows[j].attempts = 0
  BY <1>1, <1>3 DEF FinalsAreFinal
<1>5. ASSUME NEW i \in Ordinals, Plan[i].phase = "deny", Evaluated(i),
             NEW b \in Planned("identity-before", Plan[i].actor, 0)
      PROVE  Evaluated(b)
  <2>1. b \in Ordinals /\ Plan[b].phase = "identity-before" /\ Plan[b].actor = Plan[i].actor
    BY EntryIs DEF Planned
  <2>2. Plan[b].actor \in Named
    BY <1>1, <2>1, PlanIs DEF Identifying
  <2>3. Valid("identity-before", Plan[i].actor)
    BY <1>1, <1>5, <2>1, <2>2 DEF RowIsTrue
  <2>4. QED
    BY <1>1, <1>3, <2>1, <2>3 DEF IdentitiesAreTrue, Identifying
<1>6. ASSUME NEW i \in Ordinals, Plan[i].phase \in {"deny", "owner-after"},
             NEW b \in Planned("owner-before", policy.cases[Plan[i].case].owner, Plan[i].case)
      PROVE  Evaluated(b) = (rows[i].reason # "prerequisite_failed")
  <2>1. b \in Ordinals /\ Plan[b].phase = "owner-before" /\ Plan[b].case = Plan[i].case
    BY EntryIs DEF Planned
  <2>2. i # b
    BY <1>6, <2>1
  <2>3. QED
    BY <1>1, <1>3, <2>1, <2>2 DEF CasesArePrepared
<1>7. QED
  BY <1>2, <1>4, <1>5, <1>6 DEF Sane

\* However a run is cut, by a signal, the clock, a budget or a failed control,
\* the ledger it leaves is one the sanitizer of api-execution.ts accepts, unless
\* a server answered outside 100..599; and a run whose flag says that nothing was
\* missed has evaluated every step.
THEOREM LedgerIsAlwaysSane == Spec => []LedgerIsSane
<1>1. IInv => LedgerIsSane
  <2>1. SUFFICES ASSUME IInv, at = "done"
                 PROVE  /\ Sane \/ \E i \in Ordinals : rows[i].status = "odd"
                        /\ ~incomplete => Complete
    BY DEF LedgerIsSane
  <2>2. Sane \/ \E i \in Ordinals : rows[i].status = "odd"
    BY <2>1, RowsAreSane
  <2>3. ~incomplete => Complete
    BY <2>1, AtTheEnd DEF Complete
  <2>4. QED
    BY <2>2, <2>3
<1>2. QED
  BY <1>1, Invariant, PTL

\* Every actor of a completed run is one person, at both ends.
LEMMA AloneAndSame ==
    ASSUME NEW a \in Named, NEW b \in Named \ {a}, NEW phase \in Identifying, Proven(a), Proven(b)
    PROVE  who[phase][a] = a /\ who[phase][b] # a
BY DEF Proven, Valid, Identifying

\* Only a run that had every control completes: nothing cut it, every actor was
\* itself and alone at both ends, every owner saw its resource before and after,
\* and every other actor was denied in so many words or caught with the canary.
THEOREM PassIsAlwaysEvidenced == Spec => []PassIsEvidenced
<1>1. IInv => PassIsEvidenced
  <2>1. SUFFICES ASSUME IInv, at = "done", Completed
                 PROVE  /\ cause = "none" /\ ~expired /\ ~policy.legacy
                        /\ \A a \in Named, phase \in DOMAIN who :
                              who[phase][a] = a /\ \A b \in Named \ {a} : who[phase][b] # a
                        /\ \A i \in Ordinals :
                              IF Plan[i].phase = "deny"
                              THEN rows[i].status = "denied" \/ (rows[i].status = "ok" /\ i \in exposed)
                              ELSE rows[i].status = "ok"
    BY DEF PassIsEvidenced
  <2>2. ~incomplete
    BY <2>1 DEF Completed
  <2>3. /\ DOMAIN who = Identifying /\ \A i \in Ordinals : RowIsTrue(i) /\ Evaluated(i)
        /\ cause = "none" /\ ~expired /\ ~policy.legacy /\ \A a \in Named : Proven(a)
    BY <2>1, <2>2, AtTheEnd
  <2>4. \A a \in Named, phase \in Identifying : who[phase][a] = a
    BY <2>3 DEF Proven, Valid, Identifying
  <2>5. \A a \in Named, phase \in Identifying : \A b \in Named \ {a} : who[phase][b] # a
    BY <2>4
  <2>6. QED
    BY <2>3, <2>4, <2>5 DEF RowIsTrue
<1>2. QED
  BY <1>1, Invariant, PTL

\* A finding is called verified only of an actor that was itself and alone so at
\* both ends of the run, between two controls its owner passed; and a completed
\* check leaves none of its findings undecided.
THEOREM FindingsAreAlwaysTrue == Spec => []FindingsAreTrue
<1>1. ASSUME IInv, at = "done", NEW i \in exposed, ControlsPassed(i)
      PROVE  /\ Known(Plan[i].actor)
             /\ Plan[i].actor \in Named =>
                   \A phase \in DOMAIN who :
                       {b \in Named : who[phase][b] = Plan[i].actor} = {Plan[i].actor}
             /\ \A j \in Ordinals : Plan[j].case = Plan[i].case /\ Plan[j].phase # "deny"
                   => rows[j].status = "ok"
  <2>1. /\ policy \in Policies /\ i \in Ordinals /\ Plan[i].phase = "deny" /\ DOMAIN who = Identifying
        /\ \A j \in Ordinals : j < next /\ RowIsTrue(j)
    BY <1>1, AtTheEnd
  <2>2. /\ ~policy.legacy /\ Held(Plan[i].actor)
        /\ \A phase \in {"owner-before", "owner-after"} :
              \A c \in Planned(phase, policy.cases[Plan[i].case].owner, Plan[i].case) : Evaluated(c)
    BY <1>1 DEF ControlsPassed
  <2>3. Known(Plan[i].actor)
    BY <2>2 DEF Known, Held, Proven
  <2>4. ASSUME Plan[i].actor \in Named, NEW phase \in Identifying
        PROVE  {b \in Named : who[phase][b] = Plan[i].actor} = {Plan[i].actor}
    <3>1. who[phase][Plan[i].actor] = Plan[i].actor /\ Plan[i].actor \notin reused
      BY <2>2, <2>4 DEF Held, Proven, Valid, Identifying
    <3>2. Shared(who[phase]) \subseteq reused
      BY <1>1, <2>1 DEF IInv, IdentitiesAreTrue
    <3>3. Plan[i].actor # "none"
      BY <2>1, <2>4, PolicyIs DEF Named
    <3>4. \A b \in Named \ {Plan[i].actor} : who[phase][b] # Plan[i].actor
      BY <2>4, <3>1, <3>2, <3>3 DEF Shared
    <3>5. QED
      BY <2>4, <3>1, <3>4
  <2>5. ASSUME NEW j \in Ordinals, Plan[j].case = Plan[i].case, Plan[j].phase # "deny"
        PROVE  rows[j].status = "ok"
    <3>1. Plan[i].phase \notin Identifying
      BY <2>1 DEF Identifying
    <3>2. /\ Plan[j].phase \in {"owner-before", "owner-after"}
          /\ Plan[j].actor = policy.cases[Plan[i].case].owner
      BY <2>1, <2>5, <3>1, CaseIs
    <3>3. Plan[j] \in Entries(policy)
      BY <2>1, PlanIs
    <3>4. Plan[j] = Entry(Plan[j].phase, Plan[j].actor, Plan[j].case)
      BY <3>3 DEF Entry, Entries
    <3>5. j \in Planned(Plan[j].phase, policy.cases[Plan[i].case].owner, Plan[i].case)
      BY <2>5, <3>2, <3>4 DEF Planned
    <3>6. Evaluated(j)
      BY <2>2, <3>2, <3>5
    <3>7. QED
      BY <2>1, <2>5, <3>6 DEF RowIsTrue
  <2>6. QED
    BY <2>1, <2>3, <2>4, <2>5
<1>2. ASSUME IInv, at = "done", NEW i \in exposed, Completed
      PROVE  ControlsPassed(i)
  <2>1. ~incomplete /\ Sane
    BY <1>2 DEF Completed
  <2>2. /\ i \in Ordinals /\ Plan[i].phase = "deny" /\ RowIsTrue(i) /\ ~policy.legacy
        /\ \A a \in Named : Proven(a)
        /\ \A j \in Ordinals : Evaluated(j)
    BY <1>2, <2>1, AtTheEnd
  <2>3. Held(Plan[i].actor)
    BY <2>2 DEF Held, RowIsTrue
  <2>4. QED
    BY <2>1, <2>2, <2>3 DEF ControlsPassed, Planned
<1>3. IInv => FindingsAreTrue
  BY <1>1, <1>2 DEF FindingsAreTrue
<1>4. QED
  BY <1>3, Invariant, PTL
-----------------------------------------------------------------------------
(* The end of a run.                                                       *)

\* The turns of a run: two for each step of the plan, and one for the end.
Turns == 2 * (Len(Plan) + 1 - next) + (IF at \in {"step", "finish"} THEN 1 ELSE 0)

\* The requests it may still make, the signal's abort and the clock's end.
Once(happens) == IF happens THEN 0 ELSE 1
Left == (MaxRequests - count) + Once(cause # "none") + Once(expired)

Measure  == Turns + Left
Measured == Turns \in 0..(2 * Len(Plan) + 1) /\ Left \in 0..(MaxRequests + 2)

LEMMA MeasureIs == TypeOK => Measured
<1> SUFFICES ASSUME TypeOK PROVE Measured
  OBVIOUS
<1>1. PICK planned \in Nat, x \in Nat, mine \in 0..1 :
         /\ planned = Len(Plan) /\ x = next /\ x \in 1..(planned + 1)
         /\ mine = IF at \in {"step", "finish"} THEN 1 ELSE 0
  <2>1. Len(Plan) \in Nat /\ next \in Nat /\ next \in 1..(Len(Plan) + 1)
    BY PlanIs DEF TypeOK
  <2>2. (IF at \in {"step", "finish"} THEN 1 ELSE 0) \in 0..1
    OBVIOUS
  <2>3. QED
    BY <2>1, <2>2
<1>2. Turns = 2 * (planned + 1 - x) + mine
  BY <1>1 DEF Turns
<1>3. Turns \in Nat /\ Turns <= 2 * planned + 1
  <2>1. PICK rest : rest = planned + 1 - x
    OBVIOUS
  <2>2. rest \in 0..planned
    BY ONLY <1>1, <2>1
  <2>3. Turns = 2 * rest + mine
    BY <1>2, <2>1
  <2>4. QED
    BY ONLY <1>1, <2>2, <2>3
<1>4. Left \in 0..(MaxRequests + 2)
  <2>1. MaxRequests \in Nat /\ count \in 0..MaxRequests
    BY LimitAssumption DEF TypeOK
  <2>2. Once(cause # "none") \in 0..1 /\ Once(expired) \in 0..1
    BY DEF Once
  <2>3. QED
    BY <2>1, <2>2 DEF Left
<1>5. QED
  BY <1>1, <1>3, <1>4 DEF Measured

\* A step of the plan that ends leaves fewer of them, though it may skip some.
LEMMA EndShortens ==
    ASSUME TypeOK, NEW good, NEW why, NEW status, NEW principal,
           Ends(good, why, status, principal)
    PROVE  Turns' < Turns /\ Left' = Left
<1>1. /\ at \in {"step", "request"} /\ End(good, why, status, principal) /\ count' = count
      /\ good \in BOOLEAN
  BY EndedWith DEF Ends
<1>2. /\ next \in Nat /\ next' \in Nat /\ next < next' /\ Len(Plan) \in Nat
  BY <1>1, EndIs, PlanIs DEF TypeOK
<1>3. UNCHANGED <<policy, cause, expired>> /\ at' \in {"step", "finish"}
  BY <1>1 DEF End
<1>4. Plan' = Plan
  BY <1>3, SamePlan
<1>5. PICK planned \in Nat, x \in Nat, y \in Nat, mine \in 0..1 :
         /\ planned = Len(Plan) /\ x = next /\ y = next'
         /\ mine = IF at \in {"step", "finish"} THEN 1 ELSE 0
  <2>1. (IF at \in {"step", "finish"} THEN 1 ELSE 0) \in 0..1
    OBVIOUS
  <2>2. QED
    BY <1>2, <2>1
<1>6. Turns = 2 * (planned + 1 - x) + mine /\ Turns' = 2 * (planned + 1 - y) + 1
  BY <1>3, <1>4, <1>5 DEF Turns
<1>7. x < y
  BY <1>2, <1>5
<1>8. Turns' < Turns
  <2>1. PICK w, v : w = planned + 1 - x /\ v = planned + 1 - y
    OBVIOUS
  <2>2. w \in Int /\ v \in Int /\ v + 1 <= w
    BY ONLY <1>5, <1>7, <2>1
  <2>3. Turns = 2 * w + mine /\ Turns' = 2 * v + 1
    BY ONLY <1>6, <2>1
  <2>4. QED
    BY ONLY <1>5, <2>2, <2>3
<1>9. Left' = Left
  BY <1>1, <1>3 DEF Left, Once
<1>10. QED
  BY <1>8, <1>9

\* Any other turn of the run stays where it is.
LEMMA TurnShortens ==
    ASSUME TypeOK, Start \/ Finish
    PROVE  Turns' < Turns /\ Left' = Left
<1>1. /\ UNCHANGED <<policy, cause, expired, next, count>>
      /\ at \in {"step", "finish"} /\ at' \notin {"step", "finish"}
  BY DEF Start, Finish, request
<1>2. Plan' = Plan
  BY <1>1, SamePlan
<1>3. PICK turns : turns = 2 * (Len(Plan) + 1 - next) /\ turns \in Int
  BY PlanIs DEF TypeOK
<1>4. Turns = turns + 1 /\ Turns' = turns + 0
  BY <1>1, <1>2, <1>3 DEF Turns
<1>5. Turns' < Turns
  BY ONLY <1>3, <1>4
<1>6. Left' = Left
  BY <1>1 DEF Left, Once
<1>7. QED
  BY <1>5, <1>6

\* A request, the abort and the deadline come out of what is left.
LEMMA LeftShortens ==
    ASSUME TypeOK, Attempt \/ Expire \/ \E why \in {"cancelled", "deadline"} : Abort(why)
    PROVE  Turns' = Turns /\ Left' < Left
<1>1. UNCHANGED <<policy, at, next>>
  BY DEF Attempt, Expire, Abort
<1>2. Turns' = Turns
  BY <1>1, SamePlan DEF Turns
<1>3. /\ MaxRequests \in Nat /\ count \in 0..MaxRequests
      /\ Once(cause # "none") \in 0..1 /\ Once(expired) \in 0..1
  BY LimitAssumption DEF TypeOK, Once
<1>4. CASE Attempt
  <2>1. count' = count + 1 /\ cause' = cause /\ expired' = expired
    BY <1>4 DEF Attempt
  <2>2. Left' = (MaxRequests - (count + 1)) + Once(cause # "none") + Once(expired)
    BY <2>1 DEF Left, Once
  <2>3. QED
    BY <1>2, <1>3, <2>2 DEF Left
<1>5. CASE Expire
  <2>1. /\ count' = count /\ cause' = cause /\ Once(expired) = 1 /\ Once(expired)' = 0
    BY <1>5 DEF Expire, request, Once
  <2>2. Left = (MaxRequests - count) + Once(cause # "none") + 1
    BY <2>1 DEF Left
  <2>3. Left' = (MaxRequests - count) + Once(cause # "none") + 0
    BY <2>1 DEF Left, Once
  <2>4. QED
    BY <1>2, <1>3, <2>2, <2>3
<1>6. ASSUME NEW why \in {"cancelled", "deadline"}, Abort(why) PROVE Left' < Left
  <2>1. count' = count /\ expired' = expired /\ cause = "none" /\ cause' # "none"
    BY <1>6 DEF Abort, request
  <2>2. Left = (MaxRequests - count) + 1 + Once(expired)
    BY <2>1 DEF Left, Once
  <2>3. Left' = (MaxRequests - count) + 0 + Once(expired)
    BY <2>1 DEF Left, Once
  <2>4. QED
    BY <1>3, <2>2, <2>3
<1>7. QED
  BY <1>2, <1>4, <1>5, <1>6

\* Whatever the targets answer and however a run is cut, every step brings it
\* nearer to its end: a run takes two turns for each step of its policy's plan
\* and one for the ledger, with an attempt for each request it is allowed, so no
\* failover, skipped case or failed control makes it go on for ever.
THEOREM RunsAreFinite ==
    Spec => [](Measure \in 0..(2 * Len(Plan) + MaxRequests + 3)) /\ [][Measure' < Measure]_vars
<1>1. ASSUME TypeOK PROVE Measure \in 0..(2 * Len(Plan) + MaxRequests + 3)
  <2>1. Measured /\ Len(Plan) \in Nat /\ MaxRequests \in Nat
    BY <1>1, MeasureIs, PlanIs, LimitAssumption DEF TypeOK
  <2>2. PICK a, b, planned : a = Turns /\ b = Left /\ planned = 2 * Len(Plan)
    OBVIOUS
  <2>3. /\ planned \in Nat /\ a \in 0..(planned + 1) /\ b \in 0..(MaxRequests + 2)
        /\ Measure = a + b
    BY <2>1, <2>2 DEF Measured, Measure
  <2>4. Measure \in 0..(planned + MaxRequests + 3)
    BY ONLY <2>1, <2>3
  <2>5. QED
    BY <2>2, <2>4
<1>2. ASSUME IInv, Measured, Measured', TypeOK, TypeOK', [Next]_vars
      PROVE  [Measure' < Measure]_vars
  <2>1. PICK a, b, c, d : a = Turns /\ b = Left /\ c = Turns' /\ d = Left'
    OBVIOUS
  <2>2. a \in Int /\ b \in Int /\ c \in Int /\ d \in Int /\ Measure = a + b /\ Measure' = c + d
    BY <1>2, <2>1 DEF Measured, Measure
  <2>3. CASE Next
    <3>1. \/ Turns' < Turns /\ Left' = Left
          \/ Turns' = Turns /\ Left' < Left
      <4>1. CASE Refuse \/ NotStarted \/ Fail
        BY <1>2, <4>1, Unreported, EndShortens
      <4>2. CASE Respond
        BY <1>2, <4>2, Reported, EndShortens
      <4>3. CASE Start \/ Finish
        BY <1>2, <4>3, TurnShortens
      <4>4. CASE Attempt \/ Expire \/ \E why \in {"cancelled", "deadline"} : Abort(why)
        BY <1>2, <4>4, LeftShortens
      <4>5. QED
        BY <2>3, <4>1, <4>2, <4>3, <4>4 DEF Next
    <3>2. (c < a /\ d = b) \/ (c = a /\ d < b)
      BY <2>1, <3>1
    <3>3. c + d < a + b
      BY ONLY <2>2, <3>2
    <3>4. Measure' < Measure
      BY <2>2, <3>3
    <3>5. QED
      BY <3>4
  <2>4. QED
    BY <1>2, <2>3
<1>3. Spec => []Measured
  BY MeasureIs, TypeCorrect, PTL
<1>4. QED
  BY <1>1, <1>2, <1>3, TypeCorrect, Invariant, PTL DEF Spec
=============================================================================
