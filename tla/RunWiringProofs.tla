-------------------------- MODULE RunWiringProofs ---------------------------
(***************************************************************************)
(* Theorems about the assembly of agents and the wiring of their runs, for *)
(* any catalog, ranking, request, callers and keys.                        *)
(***************************************************************************)
EXTENDS RunWiring, FiniteSetTheorems, WellFoundedInduction, TLAPS

USE DefaultsAssumption, LimitsAssumption

-----------------------------------------------------------------------------
(* Keys.                                                                   *)

\* A set of positions has a last one.
LEMMA LastPosition ==
  ASSUME NEW n \in Nat, NEW S \in SUBSET (1 .. n), S # {}
  PROVE  \E f \in S : \A j \in S : j <= f
<1> DEFINE R == OpToRel(<, Nat)
           T == {m \in 0 .. n : n - m \in S}
<1>1. \A x, y \in Nat : x < y => <<x, y>> \in R
  BY DEF OpToRel
<1>2. IsWellFoundedOn(R, Nat)
  BY NatLessThanWellFounded
<1>3. \A i \in S : i \in 1 .. n /\ n - i \in T
  OBVIOUS
<1>4. T \subseteq Nat /\ T # {}
  <2>1. T \subseteq Nat
    OBVIOUS
  <2>2. PICK i \in S : TRUE
    OBVIOUS
  <2> QED BY <2>1, <2>2, <1>3
<1>5. \A m \in T : m \in 0 .. n /\ n - m \in S
  OBVIOUS
<1> HIDE DEF R, T
<1>6. PICK m \in T : \A k \in T : <<k, m>> \notin R
  BY <1>2, <1>4, WFMin
<1>7. ASSUME NEW j \in S PROVE j <= n - m
  <2>1. j \in 1 .. n /\ n - j \in T /\ n - j \in Nat /\ m \in Nat
    BY <1>3, <1>4
  <2>2. ~(n - j < m)
    BY <2>1, <1>1, <1>6
  <2> QED BY <2>1, <2>2
<1> QED BY <1>5, <1>7

\* Stripping leaves a prefix; what is cut off is separators.
LEMMA StripFacts ==
  ASSUME NEW S, NEW base \in Seq(S)
  PROVE  \E m \in 0 .. Len(base) :
            /\ StripRight(base) = SubSeq(base, 1, m)
            /\ \A i \in m + 1 .. Len(base) : base[i] \in Separators
<1> DEFINE kept == {i \in DOMAIN base : base[i] \notin Separators}
           last == CHOOSE i \in kept : \A j \in kept : j <= i
<1>1. Len(base) \in Nat /\ DOMAIN base = 1 .. Len(base)
  OBVIOUS
<1>2. CASE kept = {}
  <2>1. StripRight(base) = << >> /\ SubSeq(base, 1, 0) = << >>
    BY <1>2 DEF StripRight
  <2>2. \A i \in 0 + 1 .. Len(base) : base[i] \in Separators
    BY <1>1, <1>2
  <2> QED BY <2>1, <2>2, <1>1
<1>3. CASE kept # {}
  <2>1. \E i \in kept : \A j \in kept : j <= i
    BY <1>1, <1>3, LastPosition
  <2>2. last \in kept /\ \A j \in kept : j <= last
    BY <2>1
  <2>3. StripRight(base) = SubSeq(base, 1, last)
    BY <1>3 DEF StripRight
  <2>4. last \in 0 .. Len(base)
    BY <1>1, <2>2
  <2>5. ASSUME NEW i \in last + 1 .. Len(base) PROVE base[i] \in Separators
    <3>1. i \in DOMAIN base /\ ~(i <= last)
      BY <1>1, <2>4
    <3> QED BY <3>1, <2>2
  <2> HIDE DEF last
  <2> QED BY <2>3, <2>4, <2>5
<1> QED BY <1>2, <1>3

\* A derived key is a cut of the caller's key and the whole suffix.
LEMMA DerivedFacts ==
  ASSUME NEW S, NEW k \in Seq(S), NEW s \in Seq(S), Len(s) <= KeyMax
  PROVE  \E m \in Nat :
            /\ m <= Len(k) /\ m + Len(s) <= KeyMax
            /\ DerivedKey(k, s) = SubSeq(k, 1, m) \o s
            /\ \A i \in m + 1 .. Len(k) : i + Len(s) <= KeyMax => k[i] \in Separators
<1> DEFINE room == KeyMax - Len(s)
           cut  == IF Len(k) < room THEN Len(k) ELSE room
           base == SubSeq(k, 1, cut)
<1>1. /\ Len(k) \in Nat /\ Len(s) \in Nat /\ room \in Nat /\ cut \in Nat
      /\ cut <= Len(k) /\ cut <= room
  OBVIOUS
<1>2. base \in Seq(S) /\ Len(base) = cut /\ \A i \in 1 .. cut : base[i] = k[i]
  BY <1>1
<1>3. PICK m \in 0 .. cut : /\ StripRight(base) = SubSeq(base, 1, m)
                            /\ \A i \in m + 1 .. cut : base[i] \in Separators
  BY <1>2, StripFacts
<1>4. SubSeq(base, 1, m) = SubSeq(k, 1, m)
  BY <1>1, <1>2, <1>3
<1>5. DerivedKey(k, s) = SubSeq(k, 1, m) \o s
  BY <1>3, <1>4 DEF DerivedKey
<1>6. ASSUME NEW i \in m + 1 .. Len(k), i + Len(s) <= KeyMax
      PROVE  k[i] \in Separators
  <2>1. i \in m + 1 .. cut /\ i \in 1 .. cut
    BY <1>1, <1>3, <1>6
  <2> QED BY <2>1, <1>2, <1>3
<1>7. m \in Nat /\ m <= Len(k) /\ m + Len(s) <= KeyMax
  BY <1>1, <1>3
<1> QED BY <1>5, <1>6, <1>7

\* A suffix ends whatever it was appended to.
LEMMA SuffixOfConcat ==
  ASSUME NEW S, NEW b \in Seq(S), NEW s \in Seq(S)
  PROVE  IsSuffix(s, b \o s)
<1> DEFINE t == b \o s
<1>1. /\ t \in Seq(S) /\ Len(b) \in Nat /\ Len(s) \in Nat /\ Len(t) = Len(b) + Len(s)
      /\ \A i \in 1 .. Len(s) : t[Len(b) + i] = s[i]
  OBVIOUS
<1>2. /\ Reverse(s) \in Seq(S) /\ Len(Reverse(s)) = Len(s)
      /\ \A i \in 1 .. Len(s) : Reverse(s)[i] = s[Len(s) - i + 1]
  BY DEF Reverse
<1>3. /\ Reverse(t) \in Seq(S) /\ Len(Reverse(t)) = Len(t)
      /\ \A i \in 1 .. Len(t) : Reverse(t)[i] = t[Len(t) - i + 1]
  <2> HIDE DEF t
  <2> QED BY <1>1 DEF Reverse
<1> HIDE DEF t
<1>4. ASSUME NEW i \in 1 .. Len(s) PROVE Reverse(s)[i] = Reverse(t)[i]
  <2>1. /\ i \in 1 .. Len(t) /\ Len(s) - i + 1 \in 1 .. Len(s)
        /\ Len(t) - i + 1 = Len(b) + (Len(s) - i + 1)
    BY <1>1
  <2> QED BY <2>1, <1>1, <1>2, <1>3
<1>5. SubSeq(Reverse(s), 1, Len(s)) = SubSeq(Reverse(t), 1, Len(s))
  BY <1>1, <1>2, <1>3, <1>4
<1>6. IsSuffix(s, t)
  BY <1>1, <1>2, <1>3, <1>5 DEF IsSuffix, IsPrefix
<1> QED BY <1>6 DEF t

\* The derived key against the caller's.
LEMMA DerivedIsAnother ==
  ASSUME NEW k \in Key, NEW s \in Suffix
  PROVE  /\ Len(DerivedKey(k, s)) <= KeyMax
         /\ IsSuffix(s, DerivedKey(k, s))
         /\ DerivedKey(k, s) # k \/ (Len(k) >= KeyMax - 1 /\ IsSuffix(s, k))
<1> DEFINE S == UNION {ToSet(x) : x \in Key}
<1>1. k \in Seq(S) /\ Key # {}
  BY KeyAssumption
<1>2. s \in Seq(S) /\ Len(s) \in Nat /\ 2 <= Len(s) /\ Len(s) <= KeyMax /\ s[2] \notin Separators
  BY SuffixAssumption
<1> HIDE DEF S
<1>3. PICK m \in Nat :
            /\ m <= Len(k) /\ m + Len(s) <= KeyMax
            /\ DerivedKey(k, s) = SubSeq(k, 1, m) \o s
            /\ \A i \in m + 1 .. Len(k) : i + Len(s) <= KeyMax => k[i] \in Separators
  BY <1>1, <1>2, DerivedFacts
<1>4. /\ Len(k) \in Nat
      /\ SubSeq(k, 1, m) \in Seq(S) /\ Len(SubSeq(k, 1, m)) = m
  BY <1>1, <1>3
<1>5. Len(DerivedKey(k, s)) = m + Len(s)
  BY <1>2, <1>3, <1>4
<1>6. IsSuffix(s, DerivedKey(k, s))
  BY <1>2, <1>3, <1>4, SuffixOfConcat
<1>7. ASSUME DerivedKey(k, s) = k PROVE Len(k) >= KeyMax - 1
  <2>1. Len(k) = m + Len(s)
    BY <1>5, <1>7
  <2>2. k[m + 2] = s[2]
    <3> DEFINE b == SubSeq(k, 1, m)
    <3>1. (b \o s)[m + 2] = s[2]
      <4> HIDE DEF b
      <4>1. b \in Seq(S) /\ Len(b) = m
        BY <1>4 DEF b
      <4> QED BY <4>1, <1>2
    <3> QED BY <3>1, <1>3, <1>7
  <2>3. m + 2 \in m + 1 .. Len(k)
    BY <2>1, <1>2
  <2>4. ~(m + 2 + Len(s) <= KeyMax)
    BY <2>2, <2>3, <1>2, <1>3
  <2> QED BY <2>1, <2>4, <1>2
<1>8. Len(DerivedKey(k, s)) <= KeyMax
  BY <1>3, <1>5
<1> QED BY <1>6, <1>7, <1>8

-----------------------------------------------------------------------------
(* The selection.                                                          *)

\* A set of numbers that has what follows each of its elements has them all.
LEMMA UpTo ==
  ASSUME NEW n \in Nat, NEW T, 0 \in T, \A i \in 0 .. n : i \in T /\ i + 1 <= n => i + 1 \in T
  PROVE  0 .. n \subseteq T
<1> DEFINE R == OpToRel(<, Nat)
           Out == {i \in 0 .. n : i \notin T}
<1>1. \A x, y \in Nat : x < y => <<x, y>> \in R
  BY DEF OpToRel
<1>2. IsWellFoundedOn(R, Nat)
  BY NatLessThanWellFounded
<1>3. Out \subseteq Nat
  OBVIOUS
<1>4. ASSUME Out # {} PROVE FALSE
  <2>1. PICK i \in Out : \A j \in Out : <<j, i>> \notin R
    <3> HIDE DEF R, Out
    <3> QED BY <1>2, <1>3, <1>4, WFMin
  <2>2. i \in 0 .. n /\ i # 0 /\ i \notin T
    BY <2>1
  <2>3. i - 1 \in 0 .. n /\ i - 1 < i /\ (i - 1) + 1 = i
    BY <2>2
  <2>4. i - 1 \notin Out
    <3>1. i \in Nat /\ i - 1 \in Nat
      BY <2>2, <2>3
    <3> HIDE DEF R, Out
    <3>2. <<i - 1, i>> \in R
      BY <3>1, <2>3, <1>1
    <3> QED BY <3>2, <2>1
  <2>5. i - 1 \in T
    BY <2>3, <2>4
  <2> QED BY <2>2, <2>3, <2>5
<1> QED BY <1>4

Unequipped == [skills |-> {}, servers |-> {}]

\* One step of the walk.
Step(ranking, request, i, sel) ==
    IF i \in Considered(ranking, request) THEN Equip(sel, Recall(ranking)[i]) ELSE sel

\* The walk is what its recursive definition says.
LEMMA WalkDef ==
  ASSUME NEW ranking, NEW request, NEW n \in Nat, Len(Recall(ranking)) = n
  PROVE  /\ Walk(ranking, request)[0] = Unequipped
         /\ \A i \in 1 .. n : Walk(ranking, request)[i]
                                = Step(ranking, request, i, Walk(ranking, request)[i - 1])
<1> DEFINE Def(f, i) == IF i = 0 THEN Unequipped ELSE Step(ranking, request, i, f[i - 1])
           Walks(f, m) == f = [i \in 0 .. m |-> Def(f, i)]
           T == {m \in 0 .. n : \E f : Walks(f, m)}
<1>1. 0 \in T
  <2> DEFINE f == [i \in 0 .. 0 |-> Unequipped]
  <2>1. Walks(f, 0)
    OBVIOUS
  <2> HIDE DEF f, Walks
  <2>2. 0 \in 0 .. n
    OBVIOUS
  <2> QED BY <2>1, <2>2
<1>2. ASSUME NEW m \in 0 .. n, m \in T, m + 1 <= n PROVE m + 1 \in T
  <2>1. PICK f : Walks(f, m)
    BY <1>2
  <2> DEFINE g == [i \in 0 .. m + 1 |-> IF i <= m THEN f[i] ELSE Step(ranking, request, i, f[m])]
  <2>2. \A i \in 0 .. m : f[i] = Def(f, i) /\ g[i] = f[i]
    BY <2>1
  <2>3. ASSUME NEW i \in 0 .. m + 1 PROVE g[i] = Def(g, i)
    <3>1. CASE i = 0
      <4>1. 0 \in 0 .. m
        OBVIOUS
      <4>2. f[0] = Def(f, 0) /\ g[0] = f[0]
        BY <4>1, <2>2
      <4>3. Def(f, 0) = Unequipped /\ Def(g, 0) = Unequipped
        OBVIOUS
      <4> HIDE DEF g, Def
      <4> QED BY <3>1, <4>2, <4>3
    <3>2. CASE i # 0 /\ i <= m
      <4>1. i - 1 \in 0 .. m /\ i \in 0 .. m
        BY <3>2
      <4>2. g[i] = Step(ranking, request, i, f[i - 1]) /\ g[i - 1] = f[i - 1]
        BY <3>2, <4>1, <2>2
      <4> QED BY <3>2, <4>2
    <3>3. CASE i = m + 1
      <4>1. i # 0 /\ ~(i <= m) /\ i - 1 = m /\ m \in 0 .. m
        BY <3>3
      <4>2. g[i] = Step(ranking, request, i, f[m]) /\ g[m] = f[m]
        BY <4>1, <2>2
      <4> QED BY <4>1, <4>2
    <3> QED BY <3>1, <3>2, <3>3
  <2>4. Walks(g, m + 1)
    <3>1. g = [i \in 0 .. m + 1 |-> g[i]]
      OBVIOUS
    <3> HIDE DEF g, Def
    <3> QED BY <3>1, <2>3
  <2> HIDE DEF g, Walks
  <2>5. m + 1 \in 0 .. n
    BY <1>2
  <2> QED BY <2>4, <2>5
<1>3. n \in T
  <2>1. n \in 0 .. n
    OBVIOUS
  <2> HIDE DEF T
  <2> QED BY <2>1, <1>1, <1>2, UpTo
<1>4. PICK f : Walks(f, n)
  BY <1>3
<1> DEFINE w == Walk(ranking, request)
<1>5. w = CHOOSE f1 : f1 = [i \in 0 .. n |->
                IF i = 0 THEN [skills |-> {}, servers |-> {}]
                ELSE IF i \in Considered(ranking, request) THEN Equip(f1[i - 1], Recall(ranking)[i])
                ELSE f1[i - 1]]
  BY DEF Walk
<1>6. w = [i \in 0 .. n |->
                IF i = 0 THEN [skills |-> {}, servers |-> {}]
                ELSE IF i \in Considered(ranking, request) THEN Equip(w[i - 1], Recall(ranking)[i])
                ELSE w[i - 1]]
  BY <1>4, <1>5 DEF Step, Unequipped
<1> HIDE DEF w
<1>7. \A i \in 0 .. n : w[i] = IF i = 0 THEN [skills |-> {}, servers |-> {}]
                                ELSE Step(ranking, request, i, w[i - 1])
  BY <1>6 DEF Step
<1>8. 0 \in 0 .. n /\ \A i \in 1 .. n : i \in 0 .. n /\ i # 0
  OBVIOUS
<1> QED BY <1>7, <1>8 DEF w, Unequipped

\* The refs of a kind that are considered before a position.
Refs(ranking, request, kind, end) ==
    {Recall(ranking)[i].ref : i \in {j \in Considered(ranking, request) :
                                        j < end /\ Recall(ranking)[j].kind = kind}}

\* What is selected after the first i entries.
WalkInv(ranking, request, i, sel) ==
    /\ sel \in [skills : SUBSET Skill, servers : SUBSET Server]
    /\ IsFiniteSet(sel.skills) /\ Cardinality(sel.skills) <= SkillBudget
    /\ sel.servers = Refs(ranking, request, "mcp", i + 1)
    /\ sel.skills \subseteq Refs(ranking, request, "skill", i + 1)
    /\ \A j \in Considered(ranking, request) :
          (/\ j <= i /\ Recall(ranking)[j].kind = "skill"
           /\ Recall(ranking)[j].ref \notin sel.skills) =>
               /\ Cardinality(sel.skills) = SkillBudget
               /\ sel.skills \subseteq Refs(ranking, request, "skill", j)

\* What is recalled of a ranking.
LEMMA RecallFacts ==
  ASSUME NEW ranking \in Ranking, NEW request
  PROVE  /\ Recall(ranking) \in Seq(Entry) /\ Len(Recall(ranking)) \in Nat
         /\ DOMAIN Recall(ranking) = 1 .. Len(Recall(ranking))
         /\ Considered(ranking, request) \subseteq 1 .. Len(Recall(ranking))
         /\ \A i \in 1 .. Len(Recall(ranking)) :
              /\ Recall(ranking)[i].kind \in {"skill", "mcp", "tool"}
              /\ Recall(ranking)[i].kind = "skill" => Recall(ranking)[i].ref \in Skill
              /\ Recall(ranking)[i].kind = "mcp" => Recall(ranking)[i].ref \in Server
<1> DEFINE found == Recall(ranking)
<1>1. ranking.entries \in Seq(Entry)
  BY DEF Ranking
<1>2. found \in Seq(Entry)
  <2> DEFINE m == IF Len(ranking.entries) < RecallLimit THEN Len(ranking.entries) ELSE RecallLimit
  <2>1. m \in Nat /\ m <= Len(ranking.entries)
    BY <1>1
  <2>2. found = SubSeq(ranking.entries, 1, m)
    BY DEF Recall
  <2> HIDE DEF m, found
  <2> QED BY <2>1, <2>2, <1>1
<1> HIDE DEF found
<1>3. Len(found) \in Nat /\ DOMAIN found = 1 .. Len(found)
  BY <1>2
<1>4. ASSUME NEW i \in 1 .. Len(found)
      PROVE  /\ found[i].kind \in {"skill", "mcp", "tool"}
             /\ found[i].kind = "skill" => found[i].ref \in Skill
             /\ found[i].kind = "mcp" => found[i].ref \in Server
  <2>1. found[i] \in Entry
    BY <1>2
  <2> QED BY <2>1 DEF Entry
<1>5. Considered(ranking, request) \subseteq DOMAIN found
  BY DEF Considered, found
<1> QED BY <1>2, <1>3, <1>4, <1>5 DEF found

\* One more position: its ref, if it is of the kind and considered.
LEMMA RefsGrow ==
  ASSUME NEW ranking \in Ranking, NEW request, NEW kind,
         NEW i \in 1 .. Len(Recall(ranking))
  PROVE  Refs(ranking, request, kind, i + 1)
           = Refs(ranking, request, kind, i)
             \cup (IF i \in Considered(ranking, request) /\ Recall(ranking)[i].kind = kind
                   THEN {Recall(ranking)[i].ref} ELSE {})
<1>1. Considered(ranking, request) \subseteq Nat /\ i \in Nat
  BY RecallFacts
<1>2. \A j \in Considered(ranking, request) : j < i + 1 <=> j < i \/ j = i
  BY <1>1
<1> QED BY <1>2 DEF Refs

\* The walk keeps its invariant.
LEMMA WalkStep ==
  ASSUME NEW ranking \in Ranking, NEW request \in Request, ~SelectRaises(ranking, request),
         NEW i \in 1 .. Len(Recall(ranking)), NEW sel, WalkInv(ranking, request, i - 1, sel)
  PROVE  WalkInv(ranking, request, i, Step(ranking, request, i, sel))
<1> DEFINE found == Recall(ranking)
           cand  == Considered(ranking, request)
           new   == Step(ranking, request, i, sel)
           refs(kind, end) == Refs(ranking, request, kind, end)
<1>0. /\ i \in Nat /\ (i - 1) + 1 = i /\ cand \subseteq Nat
      /\ \A j \in cand : j <= i <=> j <= i - 1 \/ j = i
  BY RecallFacts
<1>1. /\ sel \in [skills : SUBSET Skill, servers : SUBSET Server]
      /\ IsFiniteSet(sel.skills) /\ Cardinality(sel.skills) <= SkillBudget
      /\ Cardinality(sel.skills) \in Nat
      /\ sel.servers = refs("mcp", i) /\ sel.skills \subseteq refs("skill", i)
      /\ \A j \in cand : (j <= i - 1 /\ found[j].kind = "skill" /\ found[j].ref \notin sel.skills) =>
               /\ Cardinality(sel.skills) = SkillBudget
               /\ sel.skills \subseteq refs("skill", j)
  BY <1>0, FS_CardinalityType DEF WalkInv
<1>2. \A kind : refs(kind, i + 1) = refs(kind, i)
                   \cup (IF i \in cand /\ found[i].kind = kind THEN {found[i].ref} ELSE {})
  BY RefsGrow
<1>3. /\ found[i].kind \in {"skill", "mcp", "tool"}
      /\ found[i].kind = "skill" => found[i].ref \in Skill
      /\ found[i].kind = "mcp" => found[i].ref \in Server
  BY RecallFacts
<1>4. i \in cand => found[i].kind # "tool"
  BY DEF SelectRaises
<1>5. new = IF i \in cand THEN Equip(sel, found[i]) ELSE sel
  BY DEF Step
<1> HIDE DEF found, cand, new, refs
<1>6. SUFFICES
        /\ new \in [skills : SUBSET Skill, servers : SUBSET Server]
        /\ IsFiniteSet(new.skills) /\ Cardinality(new.skills) <= SkillBudget
        /\ new.servers = refs("mcp", i + 1) /\ new.skills \subseteq refs("skill", i + 1)
        /\ \A j \in cand : (j <= i /\ found[j].kind = "skill" /\ found[j].ref \notin new.skills) =>
               /\ Cardinality(new.skills) = SkillBudget
               /\ new.skills \subseteq refs("skill", j)
  BY DEF WalkInv, found, cand, new, refs
<1>7. CASE i \notin cand
  <2>1. new = sel /\ \A kind : refs(kind, i + 1) = refs(kind, i)
    BY <1>7, <1>5, <1>2
  <2>2. \A j \in cand : j <= i => j <= i - 1
    BY <1>0, <1>7
  <2> QED BY <2>1, <2>2, <1>1
<1>8. CASE i \in cand /\ found[i].kind = "mcp"
  <2>1. new = [sel EXCEPT !.servers = @ \cup {found[i].ref}]
    BY <1>5, <1>8 DEF Equip
  <2>2. new.skills = sel.skills /\ new.servers = sel.servers \cup {found[i].ref}
    BY <2>1, <1>1
  <2>3. refs("mcp", i + 1) = refs("mcp", i) \cup {found[i].ref} /\ refs("skill", i + 1) = refs("skill", i)
    BY <1>2, <1>8
  <2>4. new \in [skills : SUBSET Skill, servers : SUBSET Server]
    BY <2>1, <1>1, <1>3, <1>8
  <2>5. \A j \in cand : j <= i /\ found[j].kind = "skill" => j <= i - 1
    BY <1>0, <1>8
  <2> QED BY <2>2, <2>3, <2>4, <2>5, <1>1
<1>9. CASE i \in cand /\ found[i].kind = "skill" /\ Cardinality(sel.skills) < SkillBudget
  <2>1. new = [sel EXCEPT !.skills = @ \cup {found[i].ref}]
    BY <1>5, <1>9 DEF Equip
  <2>2. new.skills = sel.skills \cup {found[i].ref} /\ new.servers = sel.servers
    BY <2>1, <1>1
  <2>3. refs("skill", i + 1) = refs("skill", i) \cup {found[i].ref} /\ refs("mcp", i + 1) = refs("mcp", i)
    BY <1>2, <1>9
  <2>4. new \in [skills : SUBSET Skill, servers : SUBSET Server]
    BY <2>1, <1>1, <1>3, <1>9
  <2>5. IsFiniteSet(new.skills) /\ Cardinality(new.skills) <= SkillBudget
    <3>1. /\ IsFiniteSet(sel.skills \cup {found[i].ref})
          /\ Cardinality(sel.skills \cup {found[i].ref})
               = IF found[i].ref \in sel.skills THEN Cardinality(sel.skills)
                 ELSE Cardinality(sel.skills) + 1
      BY <1>1, FS_AddElement
    <3> QED BY <3>1, <2>2, <1>1, <1>9
  <2>6. ASSUME NEW j \in cand, j <= i, found[j].kind = "skill", found[j].ref \notin new.skills
        PROVE  FALSE
    <3>1. j # i /\ j <= i - 1 /\ found[j].ref \notin sel.skills
      BY <2>2, <2>6, <1>0
    <3>2. Cardinality(sel.skills) = SkillBudget
      BY <3>1, <2>6, <1>1
    <3> QED BY <3>2, <1>9, <1>1
  <2> QED BY <2>2, <2>3, <2>4, <2>5, <2>6, <1>1
<1>10. CASE i \in cand /\ found[i].kind = "skill" /\ ~(Cardinality(sel.skills) < SkillBudget)
  <2>1. new = sel /\ Cardinality(sel.skills) = SkillBudget
    BY <1>5, <1>10, <1>1 DEF Equip
  <2>2. refs("skill", i) \subseteq refs("skill", i + 1) /\ refs("mcp", i + 1) = refs("mcp", i)
    BY <1>2, <1>10
  <2>3. ASSUME NEW j \in cand, j <= i, found[j].kind = "skill", found[j].ref \notin new.skills
        PROVE  new.skills \subseteq refs("skill", j)
    BY <2>1, <2>3, <1>0, <1>1
  <2> QED BY <2>1, <2>2, <2>3, <1>1
<1> QED BY <1>3, <1>4, <1>7, <1>8, <1>9, <1>10

\* What select returns.
LEMMA SelectFacts ==
  ASSUME NEW ranking \in Ranking, NEW request \in Request, ~SelectRaises(ranking, request)
  PROVE  WalkInv(ranking, request, Len(Recall(ranking)), Select(ranking, request))
<1> DEFINE n == Len(Recall(ranking))
           w == Walk(ranking, request)
           T == {i \in 0 .. n : WalkInv(ranking, request, i, w[i])}
<1>1. n \in Nat
  BY RecallFacts
<1>2. /\ w[0] = Unequipped
      /\ \A i \in 1 .. n : w[i] = Step(ranking, request, i, w[i - 1])
  BY <1>1, WalkDef
<1>3. 0 \in T
  <2>1. \A j \in Considered(ranking, request) : ~(j < 0 + 1) /\ ~(j <= 0)
    BY RecallFacts
  <2>2. \A kind : Refs(ranking, request, kind, 0 + 1) = {}
    BY <2>1 DEF Refs
  <2>3. IsFiniteSet({}) /\ Cardinality({}) = 0
    BY FS_EmptySet
  <2>4. w[0].skills = {} /\ w[0].servers = {} /\ w[0] \in [skills : SUBSET Skill, servers : SUBSET Server]
    BY <1>2 DEF Unequipped
  <2> HIDE DEF w
  <2>5. WalkInv(ranking, request, 0, w[0])
    BY <2>1, <2>2, <2>3, <2>4 DEF WalkInv
  <2>6. 0 \in 0 .. n
    BY <1>1
  <2> QED BY <2>5, <2>6
<1>4. ASSUME NEW i \in 0 .. n, i \in T, i + 1 <= n PROVE i + 1 \in T
  <2>1. i + 1 \in 1 .. n /\ i + 1 \in 0 .. n /\ (i + 1) - 1 = i
    BY <1>1, <1>4
  <2> HIDE DEF w
  <2>2. WalkInv(ranking, request, (i + 1) - 1, w[i])
    BY <2>1, <1>4
  <2>3. w[i + 1] = Step(ranking, request, i + 1, w[i])
    BY <2>1, <1>2
  <2>4. WalkInv(ranking, request, i + 1, w[i + 1])
    BY <2>1, <2>2, <2>3, WalkStep
  <2> QED BY <2>1, <2>4
<1>5. n \in T
  <2>1. n \in 0 .. n
    BY <1>1
  <2> HIDE DEF T
  <2> QED BY <2>1, <1>1, <1>3, <1>4, UpTo
<1> QED BY <1>5 DEF Select

\* An assembled specification.
LEMMA AssembleFacts ==
  ASSUME NEW ranking \in Ranking, NEW request \in Request, ~SelectRaises(ranking, request)
  PROVE  /\ Assemble(ranking, request) \in Spec
         /\ Assemble(ranking, request).tools = Builtin \cup request.tools
         /\ Assemble(ranking, request).servers = Select(ranking, request).servers
         /\ Assemble(ranking, request).skills = IF request.auto THEN Select(ranking, request).skills
                                                ELSE request.skills
<1> DEFINE sel == Select(ranking, request)
<1>1. sel \in [skills : SUBSET Skill, servers : SUBSET Server]
  BY SelectFacts DEF WalkInv
<1>2. Assemble(ranking, request) = Compose(request, sel)
  BY DEF Assemble
<1> HIDE DEF sel
<1>3. /\ request.name \in Name /\ Builtin \cup request.tools \subseteq Tool
      /\ request.skills \subseteq Skill /\ request.auto \in BOOLEAN
  BY DefaultsAssumption DEF Request
<1>4. (IF request.auto THEN sel.skills ELSE request.skills) \subseteq Skill
  BY <1>1, <1>3
<1> QED BY <1>1, <1>2, <1>3, <1>4 DEF Compose, Spec, sel

-----------------------------------------------------------------------------
(* The inductive invariant.                                                *)

\* What is stored, and what is remembered of how it came about.
StoreInv ==
    /\ DOMAIN specs \subseteq Key /\ \A k \in DOMAIN specs : specs[k] \in Spec
    /\ DOMAIN orders \subseteq DOMAIN specs
    /\ saves \in 0 .. MaxSaves
    /\ \A k \in DOMAIN orders :
          /\ orders[k].ranking \in Ranking /\ orders[k].request \in Request
          /\ ~SelectRaises(orders[k].ranking, orders[k].request)
          /\ specs[k] = Assemble(orders[k].ranking, orders[k].request)

\* The SDK's records, the settings file and what a caller keeps.
Reserved           == {SUBAGENT_TOOL, SEND_MESSAGE_TOOL} \cup {ToolOf[s] : s \in InProcess}
Granted            == Tool \cup Server \cup Reserved
AgentDefinition    == [tools : SUBSET Granted, denied : SUBSET Tool,
                       servers : SUBSET (Server \cup InProcess)]
ClaudeAgentOptions == [allowed : SUBSET Granted, denied : SUBSET Tool,
                       servers : SUBSET InProcess,
                       agents : UNION {[S -> AgentDefinition] : S \in SUBSET Key},
                       settings : Key \cup {NoFile}]
HookSettings       == [key : Key \cup {<< >>}, by : Caller \cup {NoFile}, hooks : SUBSET Hook]
Call == [at : {"idle", "subagents", "hooks", "mount", "query", "live"},
         key : Key \cup {<< >>}, resume : BOOLEAN, declared : SUBSET Hook,
         options : ClaudeAgentOptions, loaded : HookSettings]

\* Options in which nothing of ours is mounted yet.
Unmounted(options) ==
    /\ options.servers = {}
    /\ options.allowed \subseteq Tool \cup Server \cup {SUBAGENT_TOOL}
    /\ SUBAGENT_TOOL \in options.allowed <=> DOMAIN options.agents # {}
    /\ \A k \in DOMAIN options.agents :
          /\ options.agents[k].servers \subseteq Server
          /\ options.agents[k].tools \subseteq Tool \cup Server

\* EveryAgentReachesTheServers of one call.
Reaches(options) ==
    LET tools == {ToolOf[s] : s \in options.servers}
    IN  /\ {"findings", "acquire"} \subseteq options.servers
        /\ tools \subseteq options.allowed \ options.denied
        /\ \A k \in DOMAIN options.agents :
              /\ options.agents[k].servers \cap InProcess = options.servers
              /\ tools \subseteq options.agents[k].tools \ options.agents[k].denied
        /\ SUBAGENT_TOOL \in options.allowed <=> DOMAIN options.agents # {}

\* The settings of a prepared call are a file of its own entry, and with every
\* hook of its own if it is the last to have written it.
Settled(c, call, stored) ==
    IF call.options.settings = NoFile THEN call.declared = {}
    ELSE /\ call.options.settings = call.key /\ call.declared # {}
         /\ call.key \in DOMAIN stored
         /\ stored[call.key].by = c => stored[call.key].hooks = call.declared

\* RunsLoadTheirOwnHooks of one call.
Loads(c, call) ==
    IF call.declared = {} THEN call.loaded = Nothing
    ELSE /\ call.loaded.key = call.key
         /\ call.loaded.by = c => call.loaded.hooks = call.declared

CallOK(c, call, stored) ==
    /\ call.at # "idle" => call.key \in Key
    /\ call.at \in {"subagents", "hooks"} => call.options.settings = NoFile
    /\ call.at \in {"subagents", "hooks", "mount"} => Unmounted(call.options)
    /\ call.at \in {"mount", "query"} => Settled(c, call, stored)
    /\ call.at = "query" =>
          /\ Reaches(call.options)
          /\ SEND_MESSAGE_TOOL \in call.options.allowed <=> call.resume
    /\ call.at = "live" => Loads(c, call)

CallsInv ==
    /\ DOMAIN files \subseteq Key
    /\ \A k \in DOMAIN files : files[k] \in HookSettings /\ files[k].key = k
    /\ calls \in [Caller -> Call]
    /\ \A c \in Caller : CallOK(c, calls[c], files)

WiringInv == StoreInv /\ CallsInv

-----------------------------------------------------------------------------
(* The steps on the store.                                                 *)

LEMMA CreateStep ==
  ASSUME WiringInv, NEW k \in DOMAIN Requests, NEW ranking \in Rankings,
         NEW request \in Requests[k], CreateAgent(k, request, ranking)
  PROVE  WiringInv'
<1> DEFINE order == [request |-> request, ranking |-> ranking]
           spec  == Assemble(ranking, request)
<1>1. /\ k \in Key /\ ranking \in Ranking /\ request \in Request /\ MaxSaves \in Nat
      /\ ~SelectRaises(ranking, request)
  BY InputAssumption DEF CreateAgent
<1>2. /\ saves < MaxSaves /\ saves' = saves + 1
      /\ specs' = Put(specs, k, spec) /\ orders' = Put(orders, k, order)
      /\ UNCHANGED <<files, calls>>
  BY DEF CreateAgent, Stored
<1>3. spec \in Spec
  BY <1>1, AssembleFacts
<1>4. order.request = request /\ order.ranking = ranking
  OBVIOUS
<1> HIDE DEF order
<1>5. /\ DOMAIN specs' = DOMAIN specs \cup {k} /\ specs'[k] = spec
      /\ \A z \in DOMAIN specs : z # k => specs'[z] = specs[z]
      /\ DOMAIN orders' = DOMAIN orders \cup {k} /\ orders'[k] = order
      /\ \A z \in DOMAIN orders : z # k => orders'[z] = orders[z]
  BY <1>2 DEF Put
<1>6. saves' \in 0 .. MaxSaves
  BY <1>1, <1>2 DEF WiringInv, StoreInv
<1>7. ASSUME NEW z \in DOMAIN orders'
      PROVE  /\ orders'[z].ranking \in Ranking /\ orders'[z].request \in Request
             /\ ~SelectRaises(orders'[z].ranking, orders'[z].request)
             /\ specs'[z] = Assemble(orders'[z].ranking, orders'[z].request)
  <2>1. CASE z = k
    BY <2>1, <1>1, <1>4, <1>5
  <2>2. CASE z # k
    <3>1. z \in DOMAIN orders /\ z \in DOMAIN specs
      BY <2>2, <1>5 DEF WiringInv, StoreInv
    <3>2. orders'[z] = orders[z] /\ specs'[z] = specs[z]
      BY <3>1, <2>2, <1>5
    <3> QED BY <3>1, <3>2 DEF WiringInv, StoreInv
  <2> QED BY <2>1, <2>2
<1> HIDE DEF spec
<1>8. StoreInv'
  BY <1>1, <1>3, <1>5, <1>6, <1>7 DEF WiringInv, StoreInv
<1>9. CallsInv'
  BY <1>2 DEF WiringInv, CallsInv
<1> QED BY <1>8, <1>9 DEF WiringInv

\* A specification that was not assembled is remembered by no order.
LEMMA StoredStep ==
  ASSUME WiringInv, NEW k \in Key, NEW spec \in Spec, saves < MaxSaves, Stored(k, spec),
         orders' = Restrict(orders, DOMAIN orders \ {k})
  PROVE  WiringInv'
<1>1. /\ DOMAIN specs' = DOMAIN specs \cup {k} /\ specs'[k] = spec
      /\ \A z \in DOMAIN specs : z # k => specs'[z] = specs[z]
      /\ saves' = saves + 1 /\ UNCHANGED <<files, calls>>
  BY DEF Stored, Put
<1>2. /\ DOMAIN orders' = DOMAIN orders \ {k}
      /\ \A z \in DOMAIN orders' : orders'[z] = orders[z]
  BY DEF Restrict
<1>3. saves' \in 0 .. MaxSaves
  BY <1>1, InputAssumption DEF WiringInv, StoreInv
<1>4. ASSUME NEW z \in DOMAIN orders'
      PROVE  z \in DOMAIN orders /\ orders'[z] = orders[z] /\ specs'[z] = specs[z]
  BY <1>1, <1>2 DEF WiringInv, StoreInv
<1>5. StoreInv'
  BY <1>1, <1>2, <1>3, <1>4 DEF WiringInv, StoreInv
<1>6. CallsInv'
  BY <1>1 DEF WiringInv, CallsInv
<1> QED BY <1>5, <1>6 DEF WiringInv

LEMMA StoreSpecStep ==
  ASSUME WiringInv, NEW k \in DOMAIN Specs, NEW spec \in Specs[k], StoreSpec(k, spec)
  PROVE  WiringInv'
<1>1. k \in Key /\ spec \in Spec
  BY InputAssumption
<1> QED BY <1>1, StoredStep DEF StoreSpec

LEMMA AcquireStep ==
  ASSUME WiringInv, NEW k \in Key, NEW suffix \in Suffix, NEW slate \in Slates,
         AcquireCapability(k, suffix, slate)
  PROVE  WiringInv'
<1> DEFINE spec == AcquiredSpec(slate.name, slate.tools, slate.skills, slate.servers)
<1>1. DerivedKey(k, suffix) \in Key
  BY KeyAssumption
<1>2. spec \in Spec
  BY InputAssumption DEF AcquiredSpec, Spec
<1> HIDE DEF spec
<1> QED BY <1>1, <1>2, StoredStep DEF AcquireCapability, spec

-----------------------------------------------------------------------------
(* The steps of prepare_run.                                               *)

\* What a caller's step has to show: its own call, and the files as others see
\* them.
LEMMA GoesStep ==
  ASSUME WiringInv, NEW c \in Caller, NEW call \in Call, Goes(c, call),
         UNCHANGED <<specs, orders, saves, files>>, CallOK(c, call, files)
  PROVE  WiringInv'
<1>1. calls' = [calls EXCEPT ![c] = call] /\ calls \in [Caller -> Call]
  BY DEF Goes, WiringInv, CallsInv
<1>2. calls' \in [Caller -> Call]
  BY <1>1
<1>3. ASSUME NEW d \in Caller PROVE CallOK(d, calls'[d], files')
  <2>1. calls'[d] = IF d = c THEN call ELSE calls[d]
    BY <1>1
  <2> QED BY <2>1 DEF WiringInv, CallsInv
<1>4. CallsInv'
  BY <1>2, <1>3 DEF WiringInv, CallsInv
<1>5. StoreInv'
  BY DEF WiringInv, StoreInv
<1> QED BY <1>4, <1>5 DEF WiringInv

\* What a caller is doing, as a record.
LEMMA CallFacts ==
  ASSUME WiringInv, NEW c \in Caller
  PROVE  /\ calls[c] \in Call /\ CallOK(c, calls[c], files)
         /\ calls[c].options \in ClaudeAgentOptions
         /\ calls[c].options.agents \in UNION {[S -> AgentDefinition] : S \in SUBSET Key}
BY DEF WiringInv, CallsInv, Call, ClaudeAgentOptions

LEMMA OptionsFacts ==
  /\ Options \in ClaudeAgentOptions /\ Nothing \in HookSettings /\ Idle \in Call
  /\ DOMAIN NoAgents = {}
<1>1. DOMAIN NoAgents = {} /\ NoAgents \in [{} -> AgentDefinition]
  BY DEF NoAgents
<1>2. NoAgents \in UNION {[S -> AgentDefinition] : S \in SUBSET Key}
  BY <1>1
<1>3. Options \in ClaudeAgentOptions
  BY <1>2 DEF Options, ClaudeAgentOptions
<1>4. Nothing \in HookSettings
  BY DEF Nothing, HookSettings
<1> QED BY <1>1, <1>3, <1>4 DEF Idle, Call

\* The options of an entry.
LEMMA ToOptionsFacts ==
  ASSUME NEW spec \in Spec
  PROVE  /\ ToOptions(spec) \in ClaudeAgentOptions
         /\ ToOptions(spec).settings = NoFile /\ Unmounted(ToOptions(spec))
<1> DEFINE new == ToOptions(spec)
<1>1. /\ spec.tools \subseteq Tool /\ spec.denied \subseteq Tool /\ spec.servers \subseteq Server
  BY DEF Spec
<1>2. new = [Options EXCEPT !.allowed = ToolGrant(spec), !.denied = WithheldTools(spec)]
  BY DEF ToOptions
<1>3. ToolGrant(spec) \subseteq Tool \cup Server /\ WithheldTools(spec) \subseteq Tool
  BY <1>1, DefaultsAssumption DEF ToolGrant, WithheldTools
<1>4. Options.servers = {} /\ Options.agents = NoAgents /\ Options.settings = NoFile
  BY DEF Options
<1> HIDE DEF new
<1>5. new \in ClaudeAgentOptions
  BY <1>2, <1>3, OptionsFacts DEF ClaudeAgentOptions, Granted
<1>6. /\ new.servers = {} /\ new.agents = NoAgents /\ new.settings = NoFile
      /\ new.allowed = ToolGrant(spec)
  BY <1>2, <1>4, OptionsFacts DEF ClaudeAgentOptions
<1>7. SUBAGENT_TOOL \notin new.allowed
  BY <1>3, <1>6, ReservedAssumption
<1> QED BY <1>3, <1>5, <1>6, <1>7, OptionsFacts DEF Unmounted, new

LEMMA LookupStep ==
  ASSUME WiringInv, NEW c \in Caller, NEW k \in Key, Lookup(c, k)
  PROVE  WiringInv'
<1> DEFINE call == [Idle EXCEPT !.at = "subagents", !.key = k, !.declared = specs[k].hooks,
                                !.options = ToOptions(specs[k])]
<1>1. specs[k] \in Spec
  BY DEF WiringInv, StoreInv, Lookup
<1>2. specs[k].hooks \subseteq Hook
  BY <1>1 DEF Spec
<1>3. /\ ToOptions(specs[k]) \in ClaudeAgentOptions
      /\ ToOptions(specs[k]).settings = NoFile /\ Unmounted(ToOptions(specs[k]))
  BY <1>1, ToOptionsFacts
<1>4. call \in Call
  BY <1>2, <1>3, OptionsFacts DEF Call
<1>5. call.at = "subagents" /\ call.key = k /\ call.options = ToOptions(specs[k])
  BY OptionsFacts DEF Call
<1>6. Goes(c, call) /\ UNCHANGED <<specs, orders, saves, files>>
  BY DEF Lookup
<1> HIDE DEF call
<1>7. CallOK(c, call, files)
  BY <1>3, <1>5 DEF CallOK
<1> QED BY <1>4, <1>6, <1>7, GoesStep

\* A subagent's definition.
LEMMA DefinitionFacts ==
  ASSUME NEW spec \in Spec
  PROVE  /\ ToAgentDefinition(spec) \in AgentDefinition
         /\ ToAgentDefinition(spec).servers \subseteq Server
         /\ ToAgentDefinition(spec).tools \subseteq Tool \cup Server
BY DEF ToAgentDefinition, AgentDefinition, ToolGrant, Granted, Spec

LEMMA WithSubagentsFacts ==
  ASSUME NEW options \in ClaudeAgentOptions, Unmounted(options), NEW subs \in SUBSET Key,
         subs # {}, \A k \in subs : specs[k] \in Spec
  PROVE  /\ WithSubagents(options, subs) \in ClaudeAgentOptions
         /\ WithSubagents(options, subs).settings = options.settings
         /\ Unmounted(WithSubagents(options, subs))
<1> DEFINE agents == [k \in subs |-> ToAgentDefinition(specs[k])]
           new    == WithSubagents(options, subs)
<1>1. /\ agents \in [subs -> AgentDefinition] /\ DOMAIN agents = subs
      /\ \A k \in subs : /\ agents[k].servers \subseteq Server
                         /\ agents[k].tools \subseteq Tool \cup Server
  BY DefinitionFacts
<1>2. agents \in UNION {[S -> AgentDefinition] : S \in SUBSET Key}
  BY <1>1
<1>3. new = [options EXCEPT !.agents = agents, !.allowed = @ \cup {SUBAGENT_TOOL}]
  BY DEF WithSubagents
<1> HIDE DEF agents, new
<1>4. /\ new.agents = agents /\ new.allowed = options.allowed \cup {SUBAGENT_TOOL}
      /\ new.servers = options.servers /\ new.settings = options.settings
  BY <1>3 DEF ClaudeAgentOptions
<1>5. new \in ClaudeAgentOptions
  BY <1>2, <1>3 DEF ClaudeAgentOptions, Granted, Reserved
<1>6. Unmounted(new)
  BY <1>1, <1>4 DEF Unmounted
<1> QED BY <1>4, <1>5, <1>6 DEF new

LEMMA SubagentsStep ==
  ASSUME WiringInv, NEW c \in Caller, NEW subs \in Subs, WireSubagents(c, subs)
  PROVE  WiringInv'
<1> PICK call : call = calls[c]
  OBVIOUS
<1>1. /\ call \in Call /\ CallOK(c, call, files) /\ call.options \in ClaudeAgentOptions
      /\ call.at = "subagents" /\ subs \in SUBSET Key
      /\ UNCHANGED <<specs, orders, saves, files>>
  BY CallFacts, InputAssumption DEF WireSubagents
<1>2. call.options.settings = NoFile /\ Unmounted(call.options) /\ call.key \in Key
  BY <1>1 DEF CallOK
<1>3. CASE subs = {}
  <2> DEFINE new == [call EXCEPT !.at = "hooks"]
  <2>1. new \in Call /\ new.at = "hooks" /\ new.options = call.options /\ new.key = call.key
    BY <1>1 DEF Call
  <2>2. Goes(c, new)
    BY <1>3 DEF WireSubagents
  <2> HIDE DEF new
  <2>3. CallOK(c, new, files)
    BY <2>1, <1>2 DEF CallOK
  <2> QED BY <2>1, <2>2, <2>3, <1>1, GoesStep
<1>4. CASE subs # {} /\ subs \subseteq DOMAIN specs
  <2> DEFINE hooks == call.declared \cup UNION {specs[k].hooks : k \in subs}
             new == [call EXCEPT !.at = "hooks",
                              !.declared = @ \cup UNION {specs[k].hooks : k \in subs},
                              !.options  = WithSubagents(@, subs)]
  <2>1. \A k \in subs : specs[k] \in Spec /\ specs[k].hooks \subseteq Hook
    BY <1>4 DEF WiringInv, StoreInv, Spec
  <2>2. /\ WithSubagents(call.options, subs) \in ClaudeAgentOptions
        /\ WithSubagents(call.options, subs).settings = NoFile
        /\ Unmounted(WithSubagents(call.options, subs))
    BY <1>1, <1>2, <1>4, <2>1, WithSubagentsFacts
  <2>3. hooks \subseteq Hook
    BY <2>1, <1>1 DEF Call
  <2>4. /\ new \in Call /\ new.at = "hooks" /\ new.key = call.key
        /\ new.options = WithSubagents(call.options, subs)
    BY <1>1, <2>2, <2>3 DEF Call
  <2>5. Goes(c, new)
    BY <1>4 DEF WireSubagents
  <2> HIDE DEF new
  <2>6. CallOK(c, new, files)
    BY <2>2, <2>4, <1>2 DEF CallOK
  <2> QED BY <2>4, <2>5, <2>6, <1>1, GoesStep
<1>5. CASE subs # {} /\ ~(subs \subseteq DOMAIN specs)
  <2>1. Goes(c, Idle)
    BY <1>5 DEF WireSubagents
  <2>2. Idle \in Call /\ Idle.at = "idle"
    BY OptionsFacts DEF Idle
  <2>3. CallOK(c, Idle, files)
    BY <2>2 DEF CallOK
  <2> QED BY <2>1, <2>2, <2>3, <1>1, GoesStep
<1> QED BY <1>3, <1>4, <1>5

\* The file is written, and named in the options, under the key of the entry;
\* who else names it reads whose it is.
LEMMA HooksStep ==
  ASSUME WiringInv, NEW c \in Caller, NEW extra \in {{}, Notify}, WithHooks(c, extra)
  PROVE  WiringInv'
<1> PICK call : call = calls[c]
  OBVIOUS
<1> PICK hooks : hooks = call.declared \cup extra
  OBVIOUS
<1>1. /\ call \in Call /\ CallOK(c, call, files) /\ call.options \in ClaudeAgentOptions
      /\ call.at = "hooks" /\ extra \subseteq Hook
      /\ UNCHANGED <<specs, orders, saves>>
  BY CallFacts, InputAssumption DEF WithHooks
<1>2. call.options.settings = NoFile /\ Unmounted(call.options) /\ call.key \in Key
  BY <1>1 DEF CallOK
<1>3. hooks \subseteq Hook /\ call.declared \subseteq hooks
  BY <1>1 DEF Call
<1>4. CASE hooks = {}
  <2> DEFINE new == [call EXCEPT !.at = "mount"]
  <2>1. /\ new \in Call /\ new.at = "mount" /\ new.options = call.options /\ new.key = call.key
        /\ new.declared = {}
    BY <1>1, <1>3, <1>4 DEF Call
  <2>2. Goes(c, new) /\ UNCHANGED files
    BY <1>4 DEF WithHooks
  <2> HIDE DEF new
  <2>3. CallOK(c, new, files)
    BY <2>1, <1>2 DEF CallOK, Settled
  <2> QED BY <2>1, <2>2, <2>3, <1>1, GoesStep
<1>5. CASE hooks # {}
  <2> DEFINE new  == [call EXCEPT !.at = "mount", !.declared = hooks,
                                  !.options.settings = call.key]
             file == [key |-> call.key, by |-> c, hooks |-> hooks]
  <2>1. /\ new \in Call /\ new.at = "mount" /\ new.key = call.key /\ new.declared = hooks
        /\ new.options = [call.options EXCEPT !.settings = call.key]
    <3>1. [call.options EXCEPT !.settings = call.key] \in ClaudeAgentOptions
      BY <1>1, <1>2 DEF ClaudeAgentOptions
    <3> QED BY <3>1, <1>1, <1>3 DEF Call
  <2>2. /\ new.options.settings = call.key /\ new.options.servers = call.options.servers
        /\ new.options.allowed = call.options.allowed /\ new.options.agents = call.options.agents
    BY <2>1, <1>1 DEF ClaudeAgentOptions
  <2>3. Unmounted(new.options)
    BY <2>2, <1>2 DEF Unmounted
  <2>4. file \in HookSettings /\ file.key = call.key /\ file.by = c /\ file.hooks = hooks
    BY <1>2, <1>3 DEF HookSettings
  <2>5. Goes(c, new) /\ files' = Put(files, call.key, file)
    BY <1>5 DEF WithHooks
  <2> HIDE DEF new, file
  <2>6. /\ DOMAIN files' = DOMAIN files \cup {call.key} /\ files'[call.key] = file
        /\ \A k \in DOMAIN files : k # call.key => files'[k] = files[k]
    BY <2>5 DEF Put
  <2>7. calls' = [calls EXCEPT ![c] = new] /\ calls \in [Caller -> Call]
    BY <2>5 DEF Goes, WiringInv, CallsInv
  <2>8. calls' \in [Caller -> Call]
    BY <2>1, <2>7
  <2>9. CallOK(c, new, files')
    <3>1. call.key # NoFile
      BY <1>2, InputAssumption
    <3>2. Settled(c, new, files')
      BY <3>1, <2>1, <2>2, <2>4, <2>6, <1>5 DEF Settled
    <3> QED BY <3>2, <2>1, <2>3, <1>2 DEF CallOK
  <2>10. ASSUME NEW d \in Caller PROVE CallOK(d, calls'[d], files')
    <3>1. CASE d = c
      BY <3>1, <2>7, <2>9
    <3>2. CASE d # c
      <4>1. calls'[d] = calls[d] /\ CallOK(d, calls[d], files)
        BY <3>2, <2>7 DEF WiringInv, CallsInv
      <4>2. Settled(d, calls[d], files) => Settled(d, calls[d], files')
        <5>1. CASE calls[d].key = call.key
          BY <5>1, <3>2, <2>4, <2>6 DEF Settled
        <5>2. CASE calls[d].key # call.key
          BY <5>2, <2>6 DEF Settled
        <5> QED BY <5>1, <5>2
      <4> QED BY <4>1, <4>2 DEF CallOK
    <3> QED BY <3>1, <3>2
  <2>11. ASSUME NEW k \in DOMAIN files'
         PROVE  k \in Key /\ files'[k] \in HookSettings /\ files'[k].key = k
    <3>1. CASE k = call.key
      BY <3>1, <2>4, <2>6, <1>2
    <3>2. CASE k # call.key
      BY <3>2, <2>6 DEF WiringInv, CallsInv
    <3> QED BY <3>1, <3>2
  <2>12. CallsInv'
    BY <2>8, <2>10, <2>11 DEF CallsInv
  <2>13. StoreInv'
    BY <1>1 DEF WiringInv, StoreInv
  <2> QED BY <2>12, <2>13 DEF WiringInv
<1> QED BY <1>4, <1>5

LEMMA ToolNames ==
  /\ InProcess = {"findings", "acquire", "codex"}
  /\ \A s \in InProcess : ToolOf[s] # SUBAGENT_TOOL /\ ToolOf[s] # SEND_MESSAGE_TOOL
  /\ SUBAGENT_TOOL # SEND_MESSAGE_TOOL
  /\ \A s \in InProcess : s \notin Server /\ ToolOf[s] \notin Tool \cup Server
  /\ SEND_MESSAGE_TOOL \notin Tool \cup Server
<1>1. /\ InProcess = {"findings", "acquire", "codex"}
      /\ \A s \in InProcess : ToolOf[s] # SUBAGENT_TOOL /\ ToolOf[s] # SEND_MESSAGE_TOOL
      /\ SUBAGENT_TOOL # SEND_MESSAGE_TOOL
  BY DEF InProcess, ToolOf, SUBAGENT_TOOL, SEND_MESSAGE_TOOL
<1>2. /\ \A s \in InProcess : s \notin Server /\ ToolOf[s] \notin Tool \cup Server
      /\ SEND_MESSAGE_TOOL \notin Tool \cup Server
  BY ReservedAssumption
<1> QED BY <1>1, <1>2

\* Mounting gives every agent of the run the same servers and their tools.
LEMMA MountedFacts ==
  ASSUME NEW options \in ClaudeAgentOptions, Unmounted(options), NEW codex \in BOOLEAN
  PROVE  /\ Mounted(options, codex) \in ClaudeAgentOptions
         /\ Mounted(options, codex).settings = options.settings
         /\ Reaches(Mounted(options, codex))
         /\ SEND_MESSAGE_TOOL \notin Mounted(options, codex).allowed
<1> DEFINE servers == {"findings", "acquire"} \cup (IF codex THEN {"codex"} ELSE {})
           tools   == {ToolOf[s] : s \in servers}
           with    == WithServers(options, servers)
           agents  == [k \in DOMAIN with.agents |-> GrantServers(with.agents[k], servers)]
           new     == Mounted(options, codex)
<1>1. /\ servers \subseteq InProcess /\ {"findings", "acquire"} \subseteq servers
      /\ tools \cap (Tool \cup Server) = {} /\ servers \cap Server = {}
      /\ SUBAGENT_TOOL \notin tools /\ SEND_MESSAGE_TOOL \notin tools
      /\ tools \subseteq Granted
  BY ToolNames DEF Granted, Reserved
<1>2. new = [with EXCEPT !.agents = agents]
  BY DEF Mounted
<1>3. with = [options EXCEPT !.servers = @ \cup servers, !.allowed = @ \cup tools]
  BY DEF WithServers
<1>4. /\ with.agents = options.agents /\ with.settings = options.settings
      /\ with.denied = options.denied
      /\ with.servers = servers /\ with.allowed = options.allowed \cup tools
      /\ with \in ClaudeAgentOptions
  <2> HIDE DEF servers, tools, with
  <2>1. options.servers = {}
    BY DEF Unmounted
  <2>2. /\ with.agents = options.agents /\ with.settings = options.settings
        /\ with.denied = options.denied
        /\ with.servers = servers /\ with.allowed = options.allowed \cup tools
    BY <1>3, <2>1 DEF ClaudeAgentOptions
  <2>3. with \in ClaudeAgentOptions
    BY <1>1, <1>3 DEF ClaudeAgentOptions
  <2> QED BY <2>2, <2>3
<1>5. PICK S \in SUBSET Key : options.agents \in [S -> AgentDefinition]
  BY DEF ClaudeAgentOptions
<1>6. ASSUME NEW k \in S
      PROVE  /\ GrantServers(options.agents[k], servers) \in AgentDefinition
             /\ GrantServers(options.agents[k], servers).servers \cap InProcess = servers
             /\ tools \subseteq GrantServers(options.agents[k], servers).tools
                                  \ GrantServers(options.agents[k], servers).denied
  <2> PICK old : old = options.agents[k]
    OBVIOUS
  <2>1. /\ old \in AgentDefinition /\ old.servers \subseteq Server
        /\ old.tools \subseteq Tool \cup Server
    BY <1>5 DEF Unmounted
  <2>2. GrantServers(old, servers)
          = [old EXCEPT !.servers = @ \cup servers, !.tools = @ \cup tools]
    BY DEF GrantServers
  <2> HIDE DEF servers, tools
  <2>3. /\ GrantServers(old, servers).servers = old.servers \cup servers
        /\ GrantServers(old, servers).tools = old.tools \cup tools
        /\ GrantServers(old, servers).denied = old.denied
        /\ GrantServers(old, servers) \in AgentDefinition
    BY <1>1, <2>1, <2>2 DEF AgentDefinition
  <2>4. old.denied \subseteq Tool
    BY <2>1 DEF AgentDefinition
  <2>5. old.servers \cap InProcess = {}
    BY <2>1, ToolNames
  <2> QED BY <2>1, <2>3, <2>4, <2>5, <1>1
<1>7. agents \in [S -> AgentDefinition] /\ \A k \in S : agents[k] = GrantServers(options.agents[k], servers)
  <2> HIDE DEF servers, tools, with
  <2> QED BY <1>4, <1>5, <1>6
<1> HIDE DEF servers, tools, with, agents, new
<1>8. /\ new \in ClaudeAgentOptions /\ new.agents = agents /\ new.settings = options.settings
      /\ new.servers = servers /\ new.allowed = options.allowed \cup tools
      /\ new.denied = options.denied
  <2>1. agents \in UNION {[T -> AgentDefinition] : T \in SUBSET Key}
    BY <1>7
  <2> QED BY <2>1, <1>2, <1>4 DEF ClaudeAgentOptions
<1>9. new.denied \subseteq Tool
  BY <1>8 DEF ClaudeAgentOptions
<1>10. DOMAIN new.agents = S /\ DOMAIN options.agents = S
  BY <1>5, <1>7, <1>8
<1>11. SUBAGENT_TOOL \in new.allowed <=> DOMAIN new.agents # {}
  BY <1>1, <1>8, <1>10 DEF Unmounted
<1>12. \A k \in DOMAIN new.agents : /\ new.agents[k].servers \cap InProcess = servers
                                    /\ tools \subseteq new.agents[k].tools \ new.agents[k].denied
  BY <1>6, <1>7, <1>8, <1>10
<1>13. {ToolOf[s] : s \in new.servers} = tools
  BY <1>8 DEF tools
<1>14. tools \subseteq new.allowed \ new.denied
  BY <1>1, <1>8, <1>9
<1>15. Reaches(new)
  BY <1>1, <1>8, <1>11, <1>12, <1>13, <1>14 DEF Reaches
<1>16. SEND_MESSAGE_TOOL \notin new.allowed
  <2>1. options.allowed \subseteq Tool \cup Server \cup {SUBAGENT_TOOL}
    BY DEF Unmounted
  <2> QED BY <2>1, <1>1, <1>8, ToolNames
<1> QED BY <1>8, <1>15, <1>16 DEF new

\* Granting SendMessage changes nothing else.
LEMMA ResumeFacts ==
  ASSUME NEW options \in ClaudeAgentOptions, Reaches(options)
  PROVE  /\ WithAgentResume(options) \in ClaudeAgentOptions
         /\ WithAgentResume(options).settings = options.settings
         /\ Reaches(WithAgentResume(options))
         /\ SEND_MESSAGE_TOOL \in WithAgentResume(options).allowed
<1> DEFINE new == WithAgentResume(options)
<1>1. new = [options EXCEPT !.allowed = @ \cup {SEND_MESSAGE_TOOL}]
  BY DEF WithAgentResume
<1> HIDE DEF new
<1>2. /\ new.allowed = options.allowed \cup {SEND_MESSAGE_TOOL} /\ new.denied = options.denied
      /\ new.agents = options.agents /\ new.servers = options.servers
      /\ new.settings = options.settings
      /\ new \in ClaudeAgentOptions
  BY <1>1 DEF ClaudeAgentOptions, Granted, Reserved
<1>3. Reaches(new)
  BY <1>2, ToolNames DEF Reaches
<1> QED BY <1>2, <1>3 DEF new

LEMMA MountStep ==
  ASSUME WiringInv, NEW c \in Caller, NEW codex \in BOOLEAN, NEW resume \in BOOLEAN,
         Mount(c, codex, resume)
  PROVE  WiringInv'
<1> PICK call : call = calls[c]
  OBVIOUS
<1> DEFINE mounted == Mounted(call.options, codex)
           options == IF resume THEN WithAgentResume(mounted) ELSE mounted
           new     == [call EXCEPT !.at = "query", !.resume = resume, !.options = options]
<1>1. /\ call \in Call /\ CallOK(c, call, files) /\ call.options \in ClaudeAgentOptions
      /\ call.at = "mount" /\ UNCHANGED <<specs, orders, saves, files>>
  BY CallFacts DEF Mount
<1>2. Unmounted(call.options) /\ Settled(c, call, files) /\ call.key \in Key
  BY <1>1 DEF CallOK
<1>3. Goes(c, new)
  BY DEF Mount
<1>4. /\ mounted \in ClaudeAgentOptions /\ mounted.settings = call.options.settings
      /\ Reaches(mounted) /\ SEND_MESSAGE_TOOL \notin mounted.allowed
  BY <1>1, <1>2, MountedFacts
<1> HIDE DEF mounted
<1>5. /\ options \in ClaudeAgentOptions /\ options.settings = call.options.settings
      /\ Reaches(options) /\ (SEND_MESSAGE_TOOL \in options.allowed <=> resume)
  BY <1>4, ResumeFacts
<1> HIDE DEF options
<1>6. /\ new \in Call /\ new.at = "query" /\ new.key = call.key /\ new.declared = call.declared
      /\ new.options = options /\ new.resume = resume
  BY <1>1, <1>5 DEF Call
<1> HIDE DEF new
<1>7. Settled(c, new, files)
  BY <1>2, <1>5, <1>6 DEF Settled
<1>8. CallOK(c, new, files)
  BY <1>2, <1>5, <1>6, <1>7 DEF CallOK
<1> QED BY <1>1, <1>3, <1>6, <1>8, GoesStep

LEMMA OpensStep ==
  ASSUME WiringInv, NEW c \in Caller, Opens(c)
  PROVE  WiringInv'
<1> PICK call : call = calls[c]
  OBVIOUS
<1> DEFINE loaded == IF call.options.settings = NoFile THEN Nothing
                     ELSE files[call.options.settings]
           new    == [Idle EXCEPT !.at = "live", !.key = call.key, !.declared = call.declared,
                                  !.loaded = loaded]
<1>1. /\ call \in Call /\ CallOK(c, call, files) /\ call.at = "query"
      /\ UNCHANGED <<specs, orders, saves, files>>
  BY CallFacts DEF Opens
<1>2. Settled(c, call, files) /\ call.key \in Key
  BY <1>1 DEF CallOK
<1>3. Goes(c, new)
  BY DEF Opens
<1>4. /\ loaded \in HookSettings
      /\ IF call.declared = {} THEN loaded = Nothing
         ELSE loaded.key = call.key /\ (loaded.by = c => loaded.hooks = call.declared)
  BY <1>2, OptionsFacts DEF Settled, WiringInv, CallsInv
<1> HIDE DEF loaded
<1>5. /\ new \in Call /\ new.at = "live" /\ new.key = call.key /\ new.declared = call.declared
      /\ new.loaded = loaded
  BY <1>1, <1>2, <1>4, OptionsFacts DEF Call
<1> HIDE DEF new
<1>6. CallOK(c, new, files)
  BY <1>2, <1>4, <1>5 DEF CallOK, Loads
<1> QED BY <1>1, <1>3, <1>5, <1>6, GoesStep

LEMMA EndsStep ==
  ASSUME WiringInv, NEW c \in Caller, Ends(c)
  PROVE  WiringInv'
<1>1. Goes(c, Idle) /\ UNCHANGED <<specs, orders, saves, files>>
  BY DEF Ends
<1>2. Idle \in Call /\ Idle.at = "idle"
  BY OptionsFacts DEF Idle
<1>3. CallOK(c, Idle, files)
  BY <1>2 DEF CallOK
<1> QED BY <1>1, <1>2, <1>3, GoesStep

-----------------------------------------------------------------------------
LEMMA WiringStarts == WiringInit => WiringInv
<1> SUFFICES ASSUME WiringInit PROVE WiringInv
  OBVIOUS
<1>1. StoreInv
  BY InputAssumption DEF WiringInit, StoreInv
<1>2. Idle \in Call /\ Idle.at = "idle"
  BY OptionsFacts DEF Idle
<1>3. \A c \in Caller : calls[c] = Idle
  BY DEF WiringInit
<1>4. \A c \in Caller : CallOK(c, calls[c], files)
  BY <1>2, <1>3 DEF CallOK
<1>5. calls \in [Caller -> Call]
  BY <1>2 DEF WiringInit
<1>6. DOMAIN files = {}
  BY DEF WiringInit
<1> QED BY <1>1, <1>4, <1>5, <1>6 DEF CallsInv, WiringInv

LEMMA WiringSteps == WiringInv /\ [WiringNext]_vars => WiringInv'
<1> SUFFICES ASSUME WiringInv, [WiringNext]_vars PROVE WiringInv'
  OBVIOUS
<1>1. ASSUME NEW k \in DOMAIN Requests, NEW ranking \in Rankings, NEW request \in Requests[k],
             CreateAgent(k, request, ranking)
      PROVE  WiringInv'
  BY <1>1, CreateStep
<1>2. ASSUME NEW k \in DOMAIN Specs, NEW spec \in Specs[k], StoreSpec(k, spec)
      PROVE  WiringInv'
  BY <1>2, StoreSpecStep
<1>3. ASSUME NEW k \in Key, NEW suffix \in Suffix, NEW slate \in Slates,
             AcquireCapability(k, suffix, slate)
      PROVE  WiringInv'
  BY <1>3, AcquireStep
<1>4. ASSUME NEW c \in Caller, NEW k \in Key, Lookup(c, k)
      PROVE  WiringInv'
  BY <1>4, LookupStep
<1>5. ASSUME NEW c \in Caller, NEW subs \in Subs, WireSubagents(c, subs)
      PROVE  WiringInv'
  BY <1>5, SubagentsStep
<1>6. ASSUME NEW c \in Caller, NEW extra \in {{}, Notify}, WithHooks(c, extra)
      PROVE  WiringInv'
  BY <1>6, HooksStep
<1>7. ASSUME NEW c \in Caller, NEW codex \in BOOLEAN, NEW resume \in BOOLEAN,
             Mount(c, codex, resume)
      PROVE  WiringInv'
  BY <1>7, MountStep
<1>8. ASSUME NEW c \in Caller, Opens(c) PROVE WiringInv'
  BY <1>8, OpensStep
<1>9. ASSUME NEW c \in Caller, Ends(c) PROVE WiringInv'
  BY <1>9, EndsStep
<1>10. CASE UNCHANGED vars
  BY <1>10 DEF vars, WiringInv, StoreInv, CallsInv
<1> QED BY <1>1, <1>2, <1>3, <1>4, <1>5, <1>6, <1>7, <1>8, <1>9, <1>10 DEF WiringNext

(***************************************************************************)
(* The inductive invariant of the wiring, for any number of calls and any  *)
(* interleaving of them with the changes of the stored specifications.     *)
(***************************************************************************)
THEOREM WiringInvariant == WiringSpec => []WiringInv
<1>1. WiringInit => WiringInv
  BY WiringStarts
<1>2. WiringInv /\ [WiringNext]_vars => WiringInv'
  BY WiringSteps
<1> QED BY <1>1, <1>2, PTL DEF WiringSpec

(***************************************************************************)
(* Types are preserved: every specification that is stored (assembled,     *)
(* proposed or acquired) is one, and the options of a call name keys,      *)
(* servers and hooks there are.                                            *)
(***************************************************************************)
THEOREM WiringTypeCorrect == WiringSpec => []WiringTypeOK
<1>1. WiringInv => WiringTypeOK
  <2> SUFFICES ASSUME WiringInv PROVE WiringTypeOK
    OBVIOUS
  <2>1. ASSUME NEW c \in Caller
        PROVE  /\ calls[c].at \in {"idle", "subagents", "hooks", "mount", "query", "live"}
               /\ DOMAIN calls[c].options.agents \subseteq Key
               /\ calls[c].options.servers \subseteq InProcess
               /\ calls[c].options.settings \in Key \cup {NoFile}
               /\ calls[c].declared \subseteq Hook
    <3>1. /\ calls[c] \in Call /\ calls[c].options \in ClaudeAgentOptions
          /\ calls[c].options.agents \in UNION {[S -> AgentDefinition] : S \in SUBSET Key}
      BY CallFacts
    <3>2. DOMAIN calls[c].options.agents \subseteq Key
      BY <3>1
    <3> QED BY <3>1, <3>2 DEF Call, ClaudeAgentOptions
  <2> QED BY <2>1 DEF WiringInv, StoreInv, CallsInv, WiringTypeOK
<1> QED BY <1>1, WiringInvariant, PTL

(***************************************************************************)
(* No run loads the hooks of another agent, however many calls share the   *)
(* directory, an entry or a display name (prepare_run,                     *)
(* dispatch.py:298-306; with_hooks, render.py:199-267).                    *)
(***************************************************************************)
THEOREM WiringRunsLoadTheirOwnHooks == WiringSpec => []RunsLoadTheirOwnHooks
<1>1. WiringInv => RunsLoadTheirOwnHooks
  BY DEF WiringInv, CallsInv, CallOK, Loads, RunsLoadTheirOwnHooks
<1> QED BY <1>1, WiringInvariant, PTL

(***************************************************************************)
(* Every agent of a run reaches every server the run mounts and can use    *)
(* its tool, whatever its specification withholds (prepare_run,            *)
(* dispatch.py:307-326).                                                   *)
(***************************************************************************)
THEOREM WiringEveryAgentReachesTheServers == WiringSpec => []EveryAgentReachesTheServers
<1>1. WiringInv => EveryAgentReachesTheServers
  BY DEF WiringInv, CallsInv, CallOK, Reaches, EveryAgentReachesTheServers
<1> QED BY <1>1, WiringInvariant, PTL

(***************************************************************************)
(* An acquired agent has a key of its own, of a length the pool accepts,   *)
(* but for a caller acquired for the same need whose key is of the         *)
(* greatest length or one short of it (acquired_agent_key,                 *)
(* acquire_tool.py:62-85).                                                 *)
(***************************************************************************)
THEOREM WiringAcquiredAgentIsAnother == WiringSpec => []AcquiredAgentIsAnother
<1>1. WiringInv => AcquiredAgentIsAnother
  <2> SUFFICES ASSUME WiringInv, NEW k \in DOMAIN specs, NEW suffix \in Suffix
               PROVE  /\ Len(DerivedKey(k, suffix)) <= KeyMax
                      /\ IsSuffix(suffix, DerivedKey(k, suffix))
                      /\ DerivedKey(k, suffix) # k \/ (Len(k) >= KeyMax - 1 /\ IsSuffix(suffix, k))
    BY DEF AcquiredAgentIsAnother
  <2>1. k \in Key
    BY DEF WiringInv, StoreInv
  <2> QED BY <2>1, DerivedIsAnother
<1> QED BY <1>1, WiringInvariant, PTL

(***************************************************************************)
(* An assembled agent is what was asked for, for any catalog, ranking and  *)
(* request (select, select.py:125-149; compose, compose.py:8-42).          *)
(***************************************************************************)
THEOREM WiringAgentIsWhatWasAskedFor == WiringSpec => []AgentIsWhatWasAskedFor
<1>1. WiringInv => AgentIsWhatWasAskedFor
  <2> SUFFICES ASSUME WiringInv, NEW k \in DOMAIN orders
      PROVE LET request    == orders[k].request
                found      == Recall(orders[k].ranking)
                candidates == {i \in DOMAIN found :
                                  i <= orders[k].ranking.relevant \/ found[i] \in request.pinned}
                refs(kind, end) ==
                    {found[i].ref : i \in {j \in candidates : j < end /\ found[j].kind = kind}}
                all        == Len(found) + 1
                chosen     == specs[k].skills
            IN  /\ Builtin \cup request.tools \subseteq specs[k].tools
                /\ specs[k].servers = refs("mcp", all)
                /\ IF ~request.auto THEN chosen = request.skills
                   ELSE /\ chosen \subseteq refs("skill", all)
                        /\ Cardinality(chosen) <= SkillBudget
                        /\ \A i \in candidates :
                              found[i].kind = "skill" /\ found[i].ref \notin chosen =>
                              /\ Cardinality(chosen) = SkillBudget
                              /\ chosen \subseteq refs("skill", i)
    BY DEF AgentIsWhatWasAskedFor
  <2> PICK ranking : ranking = orders[k].ranking
    OBVIOUS
  <2> PICK request : request = orders[k].request
    OBVIOUS
  <2>1. /\ ranking \in Ranking /\ request \in Request /\ ~SelectRaises(ranking, request)
        /\ specs[k] = Assemble(ranking, request)
    BY DEF WiringInv, StoreInv
  <2>2. /\ specs[k].tools = Builtin \cup request.tools
        /\ specs[k].servers = Select(ranking, request).servers
        /\ specs[k].skills = IF request.auto THEN Select(ranking, request).skills
                             ELSE request.skills
    BY <2>1, AssembleFacts
  <2> DEFINE found == Recall(ranking)
             n     == Len(found)
  <2>3. WalkInv(ranking, request, n, Select(ranking, request))
    BY <2>1, SelectFacts
  <2>4. /\ n \in Nat
        /\ \A i \in Considered(ranking, request) : i \in Nat /\ i <= n
    BY <2>1, RecallFacts
  <2>5. Considered(ranking, request)
          = {i \in DOMAIN found : i <= ranking.relevant \/ found[i] \in request.pinned}
    BY DEF Considered
  <2> QED BY <2>2, <2>3, <2>4, <2>5 DEF WalkInv, Refs
<1> QED BY <1>1, WiringInvariant, PTL

=============================================================================
