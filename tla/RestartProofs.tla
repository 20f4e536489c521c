----------------------------- MODULE RestartProofs -----------------------------
(***************************************************************************)
(* Restart sets are written by one domain of a group at a time, a set that *)
(* is named holds the network, and starting from a written set gives the   *)
(* network back: for any numbers of domains, of I/O groups, of nodes, of   *)
(* starts and of cycles, any block size and any types of output.           *)
(*                                                                         *)
(* The argument has three invariants.  IInv counts tokens: a domain has    *)
(* one for each type of output its predecessor has written and it has not  *)
(* begun, so the domains of a group write in order.  SInv says what a set  *)
(* holds at each point of an output, file by file: the lines of exactly    *)
(* the domains that have written.  ReadInv says where the lines of a set   *)
(* are while it is read: in memory or with a reader.                       *)
(***************************************************************************)
EXTENDS Restart, TLAPS, WellFoundedInduction, FiniteSetTheorems

-----------------------------------------------------------------------------
(* Quotients, and the ranges of I/O groups.                                *)

JobOK == job.domains \in Nat \ {0} /\ job.groups \in 1 .. job.domains

\* Quotient and remainder.
LEMMA Quotients ==
  ASSUME NEW a \in Nat, NEW b \in Nat \ {0}
  PROVE  /\ a \div b \in Nat /\ a % b \in 0 .. b - 1
         /\ a = b * (a \div b) + (a % b)
         /\ b * (a \div b) <= a /\ a < b * (a \div b) + b
  OBVIOUS

\* The quotient is the only number with these bounds.
LEMMA QuotientIs ==
  ASSUME NEW a \in Nat, NEW b \in Nat \ {0}, NEW q \in Nat,
         b * q <= a, a < b * q + b
  PROVE  a \div b = q
  OBVIOUS

\* The sizes of I/O groups: the first LargeCount have one domain more.
LEMMA GroupSizes ==
  ASSUME JobOK
  PROVE  /\ SmallGroup \in Nat \ {0} /\ LargeCount \in 0 .. job.groups - 1
         /\ LargeGroup \in {SmallGroup, SmallGroup + 1}
         /\ LargeCount > 0 => LargeGroup = SmallGroup + 1
         /\ job.domains = job.groups * SmallGroup + LargeCount
<1> DEFINE D == job.domains
           G == job.groups
<1>1. D \in Nat /\ G \in Nat \ {0} /\ G <= D
  BY DEF JobOK
<1>2. /\ D \div G \in Nat /\ D % G \in 0 .. G - 1
      /\ D = G * (D \div G) + (D % G)
  BY <1>1, Quotients
<1>3. D \div G # 0
  <2> SUFFICES ASSUME D \div G = 0 PROVE FALSE
    OBVIOUS
  <2>1. D = G * 0 + (D % G)
    BY <1>2
  <2> QED
    BY <2>1, <1>1, <1>2
<1> QED
  BY <1>1, <1>2, <1>3 DEF SmallGroup, LargeCount, LargeGroup

\* Products of numbers, as far as the shares and groups need them.
LEMMA Products ==
  ASSUME NEW a \in Nat, NEW b \in Nat, NEW c \in Nat
  PROVE  /\ a * c \in Nat /\ a * c = c * a
         /\ a < b => a * c + c <= b * c
         /\ a * c < b * c => a < b
<1>1. a * c \in Nat /\ b * c \in Nat /\ a * c = c * a
  OBVIOUS
<1>2. ASSUME a < b PROVE a * c + c <= b * c
  <2>1. PICK k \in Nat : b = a + 1 + k
    <3>1. b - a - 1 \in Nat /\ b = a + 1 + (b - a - 1)
      BY <1>2
    <3> QED BY <3>1
  <2>2. b * c = a * c + c + k * c /\ k * c \in Nat
    BY <2>1
  <2> QED BY <2>2, <1>1
<1>3. ASSUME a * c < b * c PROVE a < b
  <2> SUFFICES ASSUME b <= a PROVE FALSE
    OBVIOUS
  <2>1. PICK k \in Nat : a = b + k
    <3>1. a - b \in Nat /\ a = b + (a - b)
      OBVIOUS
    <3> QED BY <3>1
  <2>2. a * c = b * c + k * c /\ k * c \in Nat
    BY <2>1
  <2> QED BY <2>2, <1>1, <1>3
<1> QED BY <1>1, <1>2, <1>3

\* The number of domains in the larger groups, which come first.
LargeDomains == LargeCount * LargeGroup

\* The large groups and the small ones fill the domains.
LEMMA Boundary ==
  ASSUME JobOK
  PROVE  /\ LargeDomains \in Nat
         /\ (job.groups - LargeCount) * SmallGroup \in Nat
         /\ job.domains = LargeDomains + (job.groups - LargeCount) * SmallGroup
<1> DEFINE S == SmallGroup
           L == LargeCount
           G == job.groups
           LG == LargeGroup
<1>1. /\ S \in Nat \ {0} /\ L \in Nat /\ L < G /\ G \in Nat
      /\ LG \in {S, S + 1} /\ (L > 0 => LG = S + 1)
      /\ job.domains = G * S + L
  BY GroupSizes DEF JobOK
<1> HIDE DEF S, L, G, LG
<1>2. PICK k \in Nat : G = L + k
  <2>1. G - L \in Nat /\ G = L + (G - L)
    BY <1>1
  <2> QED BY <2>1
<1>3. G - L = k /\ k * S \in Nat /\ L * S \in Nat /\ G * S = L * S + k * S
  BY <1>1, <1>2
<1>4. L * LG \in Nat /\ L * LG = L * S + L
  <2>1. CASE L = 0
    BY <2>1, <1>1
  <2>2. CASE L > 0
    <3>1. LG = S + 1
      BY <2>2, <1>1
    <3>2. L * (S + 1) = L * S + L /\ L * (S + 1) \in Nat
      BY <1>1
    <3> QED BY <3>1, <3>2
  <2> QED BY <2>1, <2>2, <1>1
<1>5. job.domains = L * LG + k * S
  <2> DEFINE x == L * S
             y == k * S
             z == G * S
             w == L * LG
  <2>1. x \in Nat /\ y \in Nat /\ z = x + y /\ w = x + L /\ L \in Nat
        /\ job.domains = z + L
    BY <1>1, <1>3, <1>4
  <2> HIDE DEF x, y, z, w
  <2>2. job.domains = w + y
    BY <2>1
  <2> QED BY <2>2 DEF w, y
<1>6. L * LG \in Nat /\ (G - L) * S \in Nat /\ job.domains = L * LG + (G - L) * S
  BY <1>3, <1>4, <1>5
<1> QED BY <1>6 DEF S, L, G, LG, LargeDomains

\* Where a group begins and how many domains it has.
Start(g) == IF g < LargeCount THEN g * LargeGroup
            ELSE LargeDomains + (g - LargeCount) * SmallGroup
Width(g) == IF g < LargeCount THEN LargeGroup ELSE SmallGroup

\* Every group is a range of domains, the large groups come first.
LEMMA Starts ==
  ASSUME JobOK, NEW g \in 0 .. job.groups - 1
  PROVE  /\ Start(g) \in Nat /\ Width(g) \in Nat \ {0}
         /\ Start(g) + Width(g) <= job.domains
         /\ g < LargeCount => Start(g) + Width(g) <= LargeDomains
         /\ g >= LargeCount => LargeDomains <= Start(g)
<1> DEFINE S == SmallGroup
           L == LargeCount
           G == job.groups
           LG == LargeGroup
<1>1. /\ S \in Nat \ {0} /\ L \in Nat /\ L < G /\ G \in Nat
      /\ LG \in Nat \ {0} /\ g \in Nat /\ g < G
      /\ L * LG \in Nat /\ (G - L) * S \in Nat
      /\ job.domains = L * LG + (G - L) * S
  BY GroupSizes, Boundary DEF JobOK, LargeDomains
<1> HIDE DEF S, L, G, LG
<1>2. CASE g < L
  <2>1. g * LG \in Nat /\ g * LG + LG <= L * LG
    BY <1>1, <1>2, Products
  <2>2. Start(g) = g * LG /\ Width(g) = LG
    BY <1>2 DEF Start, Width, L, LG
  <2>3. LargeDomains = L * LG
    BY DEF LargeDomains, L, LG
  <2>4. g * LG + LG <= job.domains
    BY <2>1, <1>1
  <2> QED BY <1>1, <1>2, <2>1, <2>2, <2>3, <2>4 DEF L
<1>3. CASE ~(g < L)
  <2>1. g - L \in Nat /\ G - L \in Nat /\ g - L < G - L
    BY <1>1, <1>3
  <2>2. (g - L) * S \in Nat /\ (g - L) * S + S <= (G - L) * S
    BY <1>1, <2>1, Products
  <2>3. Start(g) = L * LG + (g - L) * S /\ Width(g) = S /\ LargeDomains = L * LG
    BY <1>3 DEF Start, Width, L, LG, S, LargeDomains
  <2>4. L * LG + (g - L) * S + S <= job.domains
    BY <2>2, <1>1
  <2> QED BY <1>1, <1>3, <2>2, <2>3, <2>4 DEF L
<1> QED BY <1>2, <1>3

\* A domain lies in the range of its group, FirstIn and LastIn are its ends.
LEMMA GroupOf ==
  ASSUME JobOK, NEW d \in Domain
  PROVE  /\ Group(d) \in 0 .. job.groups - 1
         /\ FirstIn(d) = Start(Group(d))
         /\ LastIn(d) = Start(Group(d)) + Width(Group(d)) - 1
         /\ FirstIn(d) <= d /\ d <= LastIn(d)
<1> DEFINE S == SmallGroup
           L == LargeCount
           G == job.groups
           LG == LargeGroup
           B == LargeDomains
<1>1. /\ S \in Nat \ {0} /\ L \in Nat /\ L < G /\ G \in Nat
      /\ LG \in Nat \ {0} /\ d \in Nat /\ d < job.domains
      /\ B \in Nat /\ (G - L) * S \in Nat
      /\ job.domains = B + (G - L) * S
  BY GroupSizes, Boundary DEF JobOK, Domain
<1>2. B = L * LG
  BY DEF LargeDomains
<1>3. /\ InLarge(d) <=> d < B
      /\ InLarge(d) => Group(d) = d \div LG
      /\ ~InLarge(d) => Group(d) = L + (d - B) \div S
      /\ InLarge(d) => FirstIn(d) = Group(d) * LG
      /\ ~InLarge(d) => FirstIn(d) = B + (Group(d) - L) * S
      /\ LastIn(d) = FirstIn(d) + (IF InLarge(d) THEN LG ELSE S) - 1
      /\ Group(d) < L => Start(Group(d)) = Group(d) * LG /\ Width(Group(d)) = LG
      /\ ~(Group(d) < L) => /\ Start(Group(d)) = B + (Group(d) - L) * S
                            /\ Width(Group(d)) = S
  BY <1>2 DEF InLarge, Group, FirstIn, LastIn, Start, Width
<1> HIDE DEF S, L, G, LG, B
<1>4. CASE d < B
  <2> DEFINE q == d \div LG
  <2>1. q \in Nat /\ LG * q <= d /\ d < LG * q + LG
    BY <1>1, Quotients
  <2> HIDE DEF q
  <2>2. LG * q = q * LG /\ q * LG \in Nat
    BY <1>1, <2>1, Products
  <2>3. q < L
    <3>1. q * LG < L * LG
      BY <1>1, <1>2, <1>4, <2>1, <2>2
    <3> QED BY <3>1, <1>1, <2>1, Products
  <2>4. Group(d) = q /\ FirstIn(d) = q * LG /\ LastIn(d) = q * LG + LG - 1
        /\ Start(Group(d)) = q * LG /\ Width(Group(d)) = LG
    BY <1>3, <1>4, <2>3 DEF q
  <2>5. q \in 0 .. G - 1
    BY <2>1, <2>3, <1>1
  <2> QED BY <1>1, <2>1, <2>2, <2>4, <2>5 DEF G
<1>5. CASE ~(d < B)
  <2> DEFINE q == (d - B) \div S
  <2>0. d - B \in Nat
    BY <1>1, <1>5
  <2>1. q \in Nat /\ S * q <= d - B /\ d - B < S * q + S
    BY <1>1, <2>0, Quotients
  <2> HIDE DEF q
  <2>2. S * q = q * S /\ q * S \in Nat
    BY <1>1, <2>1, Products
  <2>3. q < G - L
    <3>1. q * S < (G - L) * S
      BY <1>1, <1>5, <2>0, <2>1, <2>2
    <3>2. G - L \in Nat
      BY <1>1
    <3> QED BY <3>1, <3>2, <1>1, <2>1, Products
  <2>4. Group(d) = L + q /\ ~InLarge(d)
    BY <1>3, <1>5 DEF q
  <2>5. Group(d) - L = q /\ ~(Group(d) < L) /\ Group(d) \in 0 .. G - 1
    BY <1>1, <2>1, <2>3, <2>4
  <2>6. FirstIn(d) = B + q * S /\ LastIn(d) = B + q * S + S - 1
        /\ Start(Group(d)) = B + q * S /\ Width(Group(d)) = S
    BY <1>3, <2>4, <2>5
  <2> QED BY <1>1, <2>0, <2>1, <2>2, <2>5, <2>6 DEF G
<1> QED BY <1>4, <1>5

\* A domain in the range of a group has that group.
LEMMA GroupIs ==
  ASSUME JobOK, NEW g \in 0 .. job.groups - 1, NEW d \in Int,
         Start(g) <= d, d < Start(g) + Width(g)
  PROVE  d \in Domain /\ Group(d) = g
<1> DEFINE S == SmallGroup
           L == LargeCount
           G == job.groups
           LG == LargeGroup
           B == LargeDomains
<1>1. /\ S \in Nat \ {0} /\ L \in Nat /\ L < G /\ G \in Nat
      /\ LG \in Nat \ {0} /\ B \in Nat /\ job.domains \in Nat
      /\ Start(g) \in Nat /\ Start(g) + Width(g) <= job.domains
      /\ Width(g) \in Nat /\ g \in Nat
  BY GroupSizes, Boundary, Starts DEF JobOK
<1>2. d \in Domain /\ d \in Nat
  BY <1>1 DEF Domain
<1>3. /\ InLarge(d) <=> d < B
      /\ InLarge(d) => Group(d) = d \div LG
      /\ ~InLarge(d) => Group(d) = L + (d - B) \div S
      /\ g < L => Start(g) = g * LG /\ Width(g) = LG
      /\ ~(g < L) => Start(g) = B + (g - L) * S /\ Width(g) = S
  BY DEF InLarge, Group, Start, Width, LargeDomains
<1>4. (g < L => Start(g) + Width(g) <= B) /\ (g >= L => B <= Start(g))
  BY Starts
<1> HIDE DEF S, L, G, LG, B
<1>5. CASE g < L
  <2>1. Start(g) = g * LG /\ Width(g) = LG /\ d < B
    BY <1>1, <1>2, <1>3, <1>4, <1>5
  <2>2. LG * g <= d /\ d < LG * g + LG
    BY <1>1, <2>1, Products
  <2>3. d \div LG = g
    BY <1>1, <1>2, <2>2, QuotientIs
  <2> QED BY <1>2, <1>3, <2>1, <2>3
<1>6. CASE ~(g < L)
  <2>1. Start(g) = B + (g - L) * S /\ Width(g) = S /\ B <= Start(g)
    BY <1>1, <1>3, <1>4, <1>6
  <2>2. g - L \in Nat /\ d - B \in Nat /\ ~(d < B)
    BY <1>1, <1>2, <1>6, <2>1
  <2>3. (g - L) * S \in Nat /\ (g - L) * S = S * (g - L)
    BY <1>1, <2>2, Products
  <2>4. S * (g - L) <= d - B /\ d - B < S * (g - L) + S
    BY <1>1, <1>2, <2>1, <2>2, <2>3
  <2>5. (d - B) \div S = g - L
    BY <1>1, <2>2, <2>4, QuotientIs
  <2>6. L + (g - L) = g
    BY <1>1
  <2> QED BY <1>2, <1>3, <2>2, <2>5, <2>6
<1> QED BY <1>5, <1>6

\* The token goes to the next domain of the group, which waits for it.
LEMMA Neighbours ==
  ASSUME JobOK, NEW d \in Domain
  PROVE  /\ NeedsToken(d) => /\ d - 1 \in Domain /\ SendsToken(d - 1)
                            /\ Group(d - 1) = Group(d)
         /\ SendsToken(d) => /\ d + 1 \in Domain /\ NeedsToken(d + 1)
                            /\ Group(d + 1) = Group(d)
<1>1. /\ Group(d) \in 0 .. job.groups - 1
      /\ FirstIn(d) = Start(Group(d))
      /\ LastIn(d) = Start(Group(d)) + Width(Group(d)) - 1
      /\ FirstIn(d) <= d /\ d <= LastIn(d)
  BY GroupOf
<1>2. Start(Group(d)) \in Nat /\ Width(Group(d)) \in Nat /\ d \in Nat
  BY <1>1, Starts DEF Domain, JobOK
<1>3. ASSUME NeedsToken(d)
      PROVE  /\ d - 1 \in Domain /\ SendsToken(d - 1)
             /\ Group(d - 1) = Group(d)
  <2>1. Start(Group(d)) <= d - 1 /\ d - 1 < Start(Group(d)) + Width(Group(d))
    BY <1>1, <1>2, <1>3 DEF NeedsToken
  <2>2. d - 1 \in Domain /\ Group(d - 1) = Group(d)
    BY <1>1, <1>2, <2>1, GroupIs
  <2>3. LastIn(d - 1) = LastIn(d)
    BY <1>1, <2>2, GroupOf
  <2> QED BY <1>1, <1>2, <2>2, <2>3 DEF SendsToken
<1>4. ASSUME SendsToken(d)
      PROVE  /\ d + 1 \in Domain /\ NeedsToken(d + 1)
             /\ Group(d + 1) = Group(d)
  <2>1. Start(Group(d)) <= d + 1 /\ d + 1 < Start(Group(d)) + Width(Group(d))
    BY <1>1, <1>2, <1>4 DEF SendsToken
  <2>2. d + 1 \in Domain /\ Group(d + 1) = Group(d)
    BY <1>1, <1>2, <2>1, GroupIs
  <2>3. FirstIn(d + 1) = FirstIn(d)
    BY <1>1, <2>2, GroupOf
  <2> QED BY <1>1, <1>2, <2>2, <2>3 DEF NeedsToken
<1> QED BY <1>3, <1>4

\* The domains between two of a group are of that group.
LEMMA SameGroup ==
  ASSUME JobOK, NEW d \in Domain, NEW e \in Domain, Group(d) = Group(e)
  PROVE  /\ FirstIn(d) = FirstIn(e) /\ LastIn(d) = LastIn(e)
         /\ d < e => NeedsToken(e)
         /\ \A f \in Int : d <= f /\ f <= e => f \in Domain /\ Group(f) = Group(d)
<1>1. /\ Group(d) \in 0 .. job.groups - 1
      /\ FirstIn(d) = Start(Group(d)) /\ FirstIn(e) = Start(Group(d))
      /\ LastIn(d) = Start(Group(d)) + Width(Group(d)) - 1
      /\ LastIn(e) = Start(Group(d)) + Width(Group(d)) - 1
      /\ FirstIn(d) <= d /\ d <= LastIn(d)
      /\ FirstIn(e) <= e /\ e <= LastIn(e)
  BY GroupOf
<1>2. Start(Group(d)) \in Nat /\ Width(Group(d)) \in Nat /\ d \in Nat /\ e \in Nat
  BY <1>1, Starts DEF Domain, JobOK
<1>3. d < e => NeedsToken(e)
  BY <1>1, <1>2 DEF NeedsToken
<1>4. ASSUME NEW f \in Int, d <= f, f <= e
      PROVE  f \in Domain /\ Group(f) = Group(d)
  <2>1. Start(Group(d)) <= f /\ f < Start(Group(d)) + Width(Group(d))
    BY <1>1, <1>2, <1>4
  <2> QED BY <1>1, <2>1, GroupIs
<1> QED BY <1>1, <1>3, <1>4

-----------------------------------------------------------------------------
(* Sequences.                                                              *)

\* A non-empty set of numbers has a least one: what is proved by induction
\* in this module takes the least number that fails.
LEMMA LeastNumber ==
  ASSUME NEW S, S \subseteq Nat, S # {}
  PROVE  \E n \in S : \A m \in S : n <= m
<1> DEFINE R == OpToRel(<, Nat)
<1>1. IsWellFoundedOn(R, Nat)
  BY NatLessThanWellFounded
<1>2. \A m \in Nat : \A k \in Nat : m < k => <<m, k>> \in R
  BY DEF OpToRel
<1> HIDE DEF R
<1>3. PICK n \in S : \A m \in S : ~(<<m, n>> \in R)
  BY <1>1, WFMin
<1>4. ASSUME NEW m \in S PROVE n <= m
  <2>1. m \in Nat /\ n \in Nat /\ ~(<<m, n>> \in R)
    BY <1>3
  <2>2. ~(m < n)
    BY <1>2, <2>1
  <2> QED BY <2>1, <2>2
<1> QED BY <1>4

\* The part of a flattening up to and with its i-th sequence.
Flattening(s, n, f) ==
  f = [i \in 1 .. n |-> IF i = 1 THEN s[i] ELSE f[i - 1] \o s[i]]

\* FlattenSeq is defined by a recursive function: there is one.
LEMMA FlattenExists ==
  ASSUME NEW s, NEW N \in Nat
  PROVE  \E f : Flattening(s, N, f)
<1> DEFINE Bad == {k \in Nat : ~\E f : Flattening(s, k, f)}
<1>1. \E f : Flattening(s, 0, f)
  <2>1. Flattening(s, 0, [i \in 1 .. 0 |-> s])
    BY DEF Flattening
  <2> QED BY <2>1
<1>2. ASSUME NEW k \in Nat, \E f : Flattening(s, k, f)
      PROVE  \E f : Flattening(s, k + 1, f)
  <2>1. PICK f : f = [i \in 1 .. k |-> IF i = 1 THEN s[i] ELSE f[i - 1] \o s[i]]
    BY <1>2 DEF Flattening
  <2> DEFINE g == [i \in 1 .. k + 1 |->
                     IF i \in 1 .. k THEN f[i]
                     ELSE IF i = 1 THEN s[i] ELSE f[i - 1] \o s[i]]
  <2>2. ASSUME NEW i \in 1 .. k + 1
        PROVE  g[i] = IF i = 1 THEN s[i] ELSE g[i - 1] \o s[i]
    <3>1. i # 1 => i - 1 \in 1 .. k
      BY <2>2
    <3>2. i # 1 => g[i - 1] = f[i - 1]
      BY <3>1
    <3>3. CASE i \in 1 .. k
      <4>1. g[i] = f[i] /\ f[i] = IF i = 1 THEN s[i] ELSE f[i - 1] \o s[i]
        BY <2>1, <3>3
      <4> QED BY <4>1, <3>2
    <3>4. CASE ~(i \in 1 .. k)
      <4>1. g[i] = IF i = 1 THEN s[i] ELSE f[i - 1] \o s[i]
        BY <3>4
      <4> QED BY <4>1, <3>2
    <3> QED BY <3>3, <3>4
  <2>3. g = [i \in 1 .. k + 1 |-> g[i]]
    OBVIOUS
  <2> HIDE DEF g
  <2>4. g = [i \in 1 .. k + 1 |-> IF i = 1 THEN s[i] ELSE g[i - 1] \o s[i]]
    BY <2>2, <2>3
  <2> QED BY <2>4 DEF Flattening
<1>3. Bad = {}
  <2> SUFFICES ASSUME Bad # {} PROVE FALSE
    OBVIOUS
  <2>0. Bad \subseteq Nat
    OBVIOUS
  <2>1. PICK k \in Bad : \A m \in Bad : k <= m
    <3> HIDE DEF Bad
    <3> QED BY <2>0, LeastNumber
  <2>2. k \in Nat /\ k # 0 /\ ~\E f : Flattening(s, k, f)
    BY <1>1
  <2>3. k - 1 \in Nat /\ ~(k - 1 \in Bad)
    BY <2>1, <2>2
  <2>4. \E f : Flattening(s, k - 1, f)
    BY <2>3
  <2>5. \E f : Flattening(s, k - 1 + 1, f)
    BY <1>2, <2>3, <2>4
  <2>6. k - 1 + 1 = k
    BY <2>2
  <2> QED BY <2>2, <2>5, <2>6
<1> QED BY <1>3

\* ... and the flattened sequence is its last value.
LEMMA FlattenIs ==
  ASSUME NEW T, NEW s \in Seq(Seq(T)), s # <<>>
  PROVE  \E f : Flattening(s, Len(s), f) /\ FlattenSeq(s) = f[Len(s)]
<1>1. Len(s) \in Nat \ {0}
  OBVIOUS
<1> DEFINE f == CHOOSE g : g = [i \in 1 .. Len(s) |-> IF i = 1 THEN s[i] ELSE g[i - 1] \o s[i]]
<1>2. FlattenSeq(s) = f[Len(s)]
  BY <1>1 DEF FlattenSeq
<1>3. f = [i \in 1 .. Len(s) |-> IF i = 1 THEN s[i] ELSE f[i - 1] \o s[i]]
  BY <1>1, FlattenExists DEF Flattening
<1> HIDE DEF f
<1> QED BY <1>2, <1>3 DEF Flattening

\* What a concatenation holds, and that it holds nothing twice.
LEMMA Concatenation ==
  ASSUME NEW T, NEW a \in Seq(T), NEW b \in Seq(T)
  PROVE  /\ a \o b \in Seq(T)
         /\ Len(a \o b) = Len(a) + Len(b)
         /\ \A x : x \in ToSet(a \o b) <=> x \in ToSet(a) \/ x \in ToSet(b)
         /\ IsInjective(a) /\ IsInjective(b) /\ ToSet(a) \cap ToSet(b) = {}
              => IsInjective(a \o b)
<1> DEFINE c == a \o b
<1>1. c \in Seq(T) /\ Len(c) = Len(a) + Len(b)
      /\ Len(a) \in Nat /\ Len(b) \in Nat
  OBVIOUS
<1>2. DOMAIN c = 1 .. Len(a) + Len(b) /\ DOMAIN a = 1 .. Len(a)
      /\ DOMAIN b = 1 .. Len(b)
  BY <1>1
<1>3. /\ \A i \in 1 .. Len(a) : c[i] = a[i]
      /\ \A i \in 1 .. Len(a) + Len(b) : i > Len(a) => c[i] = b[i - Len(a)]
  BY <1>1
<1>4. \A i \in 1 .. Len(b) : c[Len(a) + i] = b[i]
  <2> TAKE i \in 1 .. Len(b)
  <2>1. Len(a) + i \in 1 .. Len(a) + Len(b) /\ Len(a) + i > Len(a)
        /\ Len(a) + i - Len(a) = i
    BY <1>1
  <2> QED BY <1>3, <2>1
<1> HIDE DEF c
<1>5. ASSUME NEW x PROVE x \in ToSet(c) <=> x \in ToSet(a) \/ x \in ToSet(b)
  <2>1. ASSUME x \in ToSet(c) PROVE x \in ToSet(a) \/ x \in ToSet(b)
    <3>1. PICK i \in 1 .. Len(a) + Len(b) : x = c[i]
      BY <1>2, <2>1 DEF ToSet
    <3>2. CASE i <= Len(a)
      <4>1. i \in 1 .. Len(a)
        BY <1>1, <3>2
      <4> QED BY <1>2, <1>3, <3>1, <4>1 DEF ToSet
    <3>3. CASE i > Len(a)
      <4>1. i - Len(a) \in 1 .. Len(b)
        BY <1>1, <3>3
      <4> QED BY <1>2, <1>3, <3>1, <3>3, <4>1 DEF ToSet
    <3> QED BY <1>1, <3>2, <3>3
  <2>2. ASSUME x \in ToSet(a) PROVE x \in ToSet(c)
    <3>1. PICK i \in 1 .. Len(a) : x = a[i]
      BY <1>2, <2>2 DEF ToSet
    <3>2. i \in 1 .. Len(a) + Len(b) /\ c[i] = a[i]
      BY <1>1, <1>3
    <3> QED BY <1>2, <3>1, <3>2 DEF ToSet
  <2>3. ASSUME x \in ToSet(b) PROVE x \in ToSet(c)
    <3>1. PICK i \in 1 .. Len(b) : x = b[i]
      BY <1>2, <2>3 DEF ToSet
    <3>2. Len(a) + i \in 1 .. Len(a) + Len(b) /\ c[Len(a) + i] = b[i]
      BY <1>1, <1>4
    <3> QED BY <1>2, <3>1, <3>2 DEF ToSet
  <2> QED BY <2>1, <2>2, <2>3
<1>6. ASSUME IsInjective(a), IsInjective(b), ToSet(a) \cap ToSet(b) = {}
      PROVE  IsInjective(c)
  <2> SUFFICES ASSUME NEW i \in 1 .. Len(a) + Len(b),
                      NEW j \in 1 .. Len(a) + Len(b), c[i] = c[j]
               PROVE  i = j
    BY <1>2 DEF IsInjective
  <2>1. /\ \A k, l \in 1 .. Len(a) : a[k] = a[l] => k = l
        /\ \A k, l \in 1 .. Len(b) : b[k] = b[l] => k = l
    BY <1>2, <1>6 DEF IsInjective
  <2>2. \A k \in 1 .. Len(a), l \in 1 .. Len(b) : a[k] # b[l]
    BY <1>2, <1>6 DEF ToSet
  <2>3. /\ i <= Len(a) => i \in 1 .. Len(a) /\ c[i] = a[i]
        /\ j <= Len(a) => j \in 1 .. Len(a) /\ c[j] = a[j]
    BY <1>1, <1>3
  <2>4. /\ i > Len(a) => i - Len(a) \in 1 .. Len(b) /\ c[i] = b[i - Len(a)]
        /\ j > Len(a) => j - Len(a) \in 1 .. Len(b) /\ c[j] = b[j - Len(a)]
    BY <1>1, <1>3
  <2>5. CASE i <= Len(a) /\ j <= Len(a)
    BY <2>1, <2>3, <2>5
  <2>6. CASE i > Len(a) /\ j > Len(a)
    <3>1. i - Len(a) = j - Len(a)
      BY <2>1, <2>4, <2>6
    <3> QED BY <1>1, <3>1
  <2>7. CASE i <= Len(a) /\ j > Len(a)
    BY <2>2, <2>3, <2>4, <2>7
  <2>8. CASE i > Len(a) /\ j <= Len(a)
    <3>1. c[i] = b[i - Len(a)] /\ c[j] = a[j] /\ i - Len(a) \in 1 .. Len(b)
          /\ j \in 1 .. Len(a)
      BY <2>3, <2>4, <2>8
    <3> QED BY <2>2, <3>1
  <2> QED BY <1>1, <2>5, <2>6, <2>7, <2>8
<1> QED BY <1>1, <1>5, <1>6 DEF c

\* What the flattening of a sequence of sequences holds, and when it holds
\* nothing twice.
LEMMA Flattened ==
  ASSUME NEW T, NEW s \in Seq(Seq(T))
  PROVE  /\ FlattenSeq(s) \in Seq(T)
         /\ \A x : x \in ToSet(FlattenSeq(s)) <=>
                     \E i \in 1 .. Len(s) : x \in ToSet(s[i])
         /\ /\ \A i \in 1 .. Len(s) : IsInjective(s[i])
            /\ \A i, j \in 1 .. Len(s) :
                 i # j => ToSet(s[i]) \cap ToSet(s[j]) = {}
            => IsInjective(FlattenSeq(s))
<1> DEFINE Apart == /\ \A i \in 1 .. Len(s) : IsInjective(s[i])
                    /\ \A i, j \in 1 .. Len(s) :
                         i # j => ToSet(s[i]) \cap ToSet(s[j]) = {}
<1>1. CASE s = <<>>
  <2>1. FlattenSeq(s) = <<>> /\ Len(s) = 0
    BY <1>1 DEF FlattenSeq
  <2>2. <<>> \in Seq(T) /\ DOMAIN <<>> = {}
    OBVIOUS
  <2>3. ToSet(<<>>) = {} /\ IsInjective(<<>>)
    BY <2>2 DEF ToSet, IsInjective
  <2> QED BY <2>1, <2>2, <2>3
<1>2. CASE s # <<>>
  <2>1. PICK f : Flattening(s, Len(s), f) /\ FlattenSeq(s) = f[Len(s)]
    BY <1>2, FlattenIs
  <2>2. Len(s) \in Nat \ {0} /\ \A i \in 1 .. Len(s) : s[i] \in Seq(T)
    BY <1>2
  <2>3. \A i \in 1 .. Len(s) : f[i] = IF i = 1 THEN s[i] ELSE f[i - 1] \o s[i]
    <3>1. f = [i \in 1 .. Len(s) |-> IF i = 1 THEN s[i] ELSE f[i - 1] \o s[i]]
      BY <2>1 DEF Flattening
    <3> QED BY <3>1
  <2> DEFINE Good(k) ==
        /\ f[k] \in Seq(T)
        /\ \A x : x \in ToSet(f[k]) <=> \E i \in 1 .. k : x \in ToSet(s[i])
        /\ Apart => IsInjective(f[k])
  <2>4. Good(1)
    <3>1. f[1] = s[1] /\ s[1] \in Seq(T) /\ 1 .. 1 = {1} /\ 1 \in 1 .. Len(s)
      BY <2>2, <2>3
    <3> QED BY <3>1
  <2>5. ASSUME NEW k \in 2 .. Len(s), Good(k - 1) PROVE Good(k)
    <3>1. k - 1 \in 1 .. Len(s) /\ k \in 1 .. Len(s) /\ k # 1
      BY <2>2
    <3>2. f[k] = f[k - 1] \o s[k] /\ s[k] \in Seq(T) /\ f[k - 1] \in Seq(T)
      BY <2>2, <2>3, <2>5, <3>1
    <3>3. f[k] \in Seq(T)
      BY <3>2, Concatenation
    <3>4. ASSUME NEW x
          PROVE  x \in ToSet(f[k]) <=> \E i \in 1 .. k : x \in ToSet(s[i])
      <4>1. x \in ToSet(f[k]) <=> x \in ToSet(f[k - 1]) \/ x \in ToSet(s[k])
        BY <3>2, Concatenation
      <4>2. 1 .. k = (1 .. k - 1) \cup {k}
        BY <3>1
      <4> QED BY <2>5, <4>1, <4>2
    <3>5. ASSUME Apart PROVE IsInjective(f[k])
      <4>1. IsInjective(f[k - 1]) /\ IsInjective(s[k])
        BY <2>5, <3>1, <3>5
      <4>2. ASSUME NEW x \in ToSet(f[k - 1]) PROVE x \notin ToSet(s[k])
        <5>1. PICK i \in 1 .. k - 1 : x \in ToSet(s[i])
          BY <2>5, <4>2
        <5>2. i \in 1 .. Len(s) /\ i # k
          BY <3>1, <2>2
        <5> QED BY <3>1, <3>5, <5>1, <5>2
      <4> QED BY <3>2, <4>1, <4>2, Concatenation
    <3> QED BY <3>3, <3>4, <3>5
  <2> DEFINE Bad == {k \in Nat : k \in 1 .. Len(s) /\ ~Good(k)}
  <2>6. Bad = {}
    <3> HIDE DEF Good
    <3> SUFFICES ASSUME Bad # {} PROVE FALSE
      OBVIOUS
    <3>0. Bad \subseteq Nat
      OBVIOUS
    <3>1. PICK k \in Bad : \A m \in Bad : k <= m
      <4> HIDE DEF Bad
      <4> QED BY <3>0, LeastNumber
    <3>2. k \in 1 .. Len(s) /\ ~Good(k)
      OBVIOUS
    <3>3. k # 1
      BY <2>4, <3>2
    <3>4. k \in 2 .. Len(s) /\ k - 1 \in 1 .. Len(s) /\ k - 1 \in Nat
      BY <2>2, <3>2, <3>3
    <3>5. ~(k - 1 \in Bad)
      BY <3>1, <3>2
    <3>6. Good(k - 1)
      BY <3>4, <3>5
    <3>7. Good(k)
      BY <2>5, <3>4, <3>6
    <3> QED BY <3>2, <3>7
  <2>7. Good(Len(s))
    <3>1. Len(s) \in Nat /\ Len(s) \in 1 .. Len(s)
      BY <2>2
    <3> HIDE DEF Good
    <3> QED BY <2>6, <3>1
  <2> QED BY <2>1, <2>7
<1> QED BY <1>1, <1>2

\* The sequence of the elements of a finite set.
LEMMA SetAsSequence ==
  ASSUME NEW S, IsFiniteSet(S)
  PROVE  /\ SetToSeq(S) \in Seq(S)
         /\ ToSet(SetToSeq(S)) = S
         /\ IsInjective(SetToSeq(S))
         /\ Len(SetToSeq(S)) = Cardinality(S)
<1> DEFINE n == Cardinality(S)
<1>1. n \in Nat /\ ExistsBijection(1 .. n, S)
  BY FS_CardinalityType
<1>2. PICK g : g \in [1 .. n -> S] /\ IsInjective(g) /\ \A x \in S : \E i \in 1 .. n : g[i] = x
  BY <1>1 DEF ExistsBijection, Bijection, Injection, Surjection, IsInjective
<1>3. /\ SetToSeq(S) \in [1 .. n -> S] /\ IsInjective(SetToSeq(S))
  BY <1>2 DEF SetToSeq
<1> DEFINE q == SetToSeq(S)
<1> HIDE DEF q
<1>4. q \in [1 .. n -> S] /\ IsInjective(q)
  BY <1>3 DEF q
<1>5. q \in Injection(1 .. n, S)
  BY <1>4 DEF Injection, IsInjective
<1>6. Cardinality(1 .. n) = n
  BY <1>1, FS_Interval
<1>7. q \in Surjection(1 .. n, S)
  BY <1>5, <1>6, FS_Injection
<1>8. \A x \in S : \E i \in 1 .. n : q[i] = x
  BY <1>7 DEF Surjection
<1>9. q \in Seq(S) /\ Len(q) = n
  BY <1>1, <1>4
<1>10. ToSet(q) = S
  BY <1>4, <1>8 DEF ToSet
<1> QED BY <1>4, <1>9, <1>10 DEF q

\* A sequence that holds nothing twice is as long as the set it holds.
LEMMA LengthOfInjective ==
  ASSUME NEW T, NEW s \in Seq(T), IsInjective(s)
  PROVE  IsFiniteSet(ToSet(s)) /\ Cardinality(ToSet(s)) = Len(s)
<1>1. Len(s) \in Nat /\ DOMAIN s = 1 .. Len(s)
  OBVIOUS
<1>2. s \in [1 .. Len(s) -> ToSet(s)]
  BY <1>1 DEF ToSet
<1>3. s \in Bijection(1 .. Len(s), ToSet(s))
  BY <1>1, <1>2 DEF Bijection, Injection, Surjection, IsInjective, ToSet
<1>4. IsFiniteSet(1 .. Len(s)) /\ Cardinality(1 .. Len(s)) = Len(s)
  BY <1>1, FS_Interval
<1> QED BY <1>3, <1>4, FS_Bijection DEF ExistsBijection

-----------------------------------------------------------------------------
(* The turns.                                                              *)

\* The numbers of a job, and of what its control and data files say.
RunInv ==
  /\ job.groups <= job.domains
  /\ counter <= cycle
  /\ phase = "read" => origin \in Name
  /\ \A s \in Name : ctrl[s].counter <= ctrl[s].cycle
  /\ \A s \in Name, g \in Segments :
       data[s][g].head.count \in Nat => data[s][g].head.segments # 0

\* No more nodes in memory than there are, for the node count is checked.
CountInv == phase \in {"loop", "output"} => NodeCount <= Cardinality(Node)

\* A domain writes while it has types left, then waits or is done; outside
\* of an output, and outside of the job, all are done.
Busy(d) == pc[d] = "turn" \/ Writing(d)
TurnInv ==
  /\ \A d \in AllDomains : phase # "output" \/ d \notin Domain => pc[d] = "done"
  /\ \A d \in AllDomains : pc[d] \in {"latest", "name"} => d = 0
  /\ phase = "output" =>
       /\ outs # <<>>
       /\ \A i \in DOMAIN outs : (outs[i] = "restart") => i = 1
       /\ \A d \in Domain :
            /\ turn[d] \in 1 .. Len(outs) + 1
            /\ Busy(d) <=> turn[d] <= Len(outs)

\* The tokens a domain has: one for each type its predecessor has written
\* and itself has not begun.
Due(e) ==
  IF phase = "output" /\ e \in Domain /\ NeedsToken(e)
  THEN turn[e - 1] - turn[e] - (IF Writing(e) THEN 1 ELSE 0)
  ELSE 0
TokenInv == \A e \in AllDomains : tokens[e] = Due(e)

IInv == /\ FilesTyped /\ StateTyped /\ RunInv /\ CountInv
        /\ TurnInv /\ TokenInv

\* The domains there can be.
LEMMA Sizes ==
  /\ MaxDomains \in Nat \ {0}
  /\ \A j \in Jobs : /\ j.domains \in 1 .. MaxDomains
                     /\ j.groups \in 1 .. MaxDomains /\ j.groups <= j.domains
                     /\ j \in [domains : 1 .. MaxDomains, groups : 1 .. MaxDomains]
  /\ AllDomains = 0 .. MaxDomains - 1
<1>1. PICK j \in Jobs : \A k \in Jobs : k.domains <= j.domains
  BY JobsAssumption
<1>2. \E n \in {k.domains : k \in Jobs} : \A k \in Jobs : k.domains <= n
  BY <1>1
<1>3. /\ MaxDomains \in {k.domains : k \in Jobs}
      /\ \A k \in Jobs : k.domains <= MaxDomains
  BY <1>2 DEF MaxDomains
<1>4. \A k \in Jobs : /\ k \in [domains : Nat \ {0}, groups : Nat \ {0}]
                      /\ k.groups <= k.domains
  BY JobsAssumption
<1>5. MaxDomains \in Nat \ {0}
  BY <1>3, <1>4
<1>6. ASSUME NEW k \in Jobs
      PROVE  /\ k.domains \in 1 .. MaxDomains
             /\ k.groups \in 1 .. MaxDomains /\ k.groups <= k.domains
             /\ k \in [domains : 1 .. MaxDomains, groups : 1 .. MaxDomains]
  <2>1. /\ k \in [domains : Nat \ {0}, groups : Nat \ {0}]
        /\ k.groups <= k.domains /\ k.domains <= MaxDomains
    BY <1>3, <1>4
  <2> QED BY <1>5, <2>1
<1> QED BY <1>5, <1>6 DEF AllDomains

\* The domains there are.
LEMMA Domains ==
  ASSUME StateTyped, RunInv
  PROVE  /\ JobOK
         /\ job.domains \in 1 .. MaxDomains /\ job.groups \in 1 .. MaxDomains
         /\ job.groups <= job.domains
         /\ Domain \subseteq AllDomains /\ 0 \in Domain /\ 0 \in AllDomains
         /\ \A d \in Domain : MyFile(d) \in Segments
<1>1. /\ job.domains \in 1 .. MaxDomains /\ job.groups \in 1 .. MaxDomains
      /\ job.groups <= job.domains
  BY DEF StateTyped, RunInv
<1>2. MaxDomains \in Nat /\ AllDomains = 0 .. MaxDomains - 1
  BY Sizes
<1>3. JobOK /\ Domain \subseteq AllDomains /\ 0 \in Domain /\ 0 \in AllDomains
  BY <1>1, <1>2 DEF JobOK, Domain
<1>4. ASSUME NEW d \in Domain PROVE MyFile(d) \in Segments
  <2>1. Group(d) \in 0 .. job.groups - 1
    BY <1>3, GroupOf
  <2>2. Group(d) \in AllDomains
    BY <1>1, <1>2, <2>1
  <2> QED BY <2>2 DEF MyFile, File, Segments
<1> QED BY <1>1, <1>3, <1>4

\* There are finitely many lines.
LEMMA LinesFinite ==
  /\ IsFiniteSet(Line)
  /\ \A S \in SUBSET Line : IsFiniteSet(S)
<1>1. IsFiniteSet(0 .. MaxCycle)
  BY BoundsAssumption, FS_Interval
<1>2. IsFiniteSet(Line)
  BY <1>1, NodesAssumption, FS_Product DEF Line
<1> QED BY <1>2, FS_Subset

\* A domain writes what it holds, every line once.
LEMMA LinesOf ==
  ASSUME StateTyped, NEW d \in AllDomains
  PROVE  /\ Lines(d) \in Seq(Line) /\ ToSet(Lines(d)) = net[d]
         /\ IsInjective(Lines(d))
<1>1. net[d] \in SUBSET Line
  BY DEF StateTyped
<1>2. IsFiniteSet(net[d])
  BY <1>1, LinesFinite
<1>3. Lines(d) \in Seq(net[d])
  BY <1>2, SetAsSequence DEF Lines
<1>4. Lines(d) \in Seq(Line)
  BY <1>1, <1>3
<1> QED BY <1>2, <1>4, SetAsSequence DEF Lines

\* The count of nodes is a number.
LEMMA Counted ==
  ASSUME StateTyped, RunInv
  PROVE  /\ UNION {net[d] : d \in Domain} \in SUBSET Line
         /\ NodeCount \in Nat
<1>1. \A d \in Domain : net[d] \in SUBSET Line
  BY Domains DEF StateTyped
<1>2. UNION {net[d] : d \in Domain} \in SUBSET Line
  BY <1>1
<1>3. IsFiniteSet(UNION {net[d] : d \in Domain})
  BY <1>2, LinesFinite
<1> QED BY <1>2, <1>3, FS_CardinalityType DEF NodeCount

\* A network that a step leaves: as many lines as nodes, no node in two
\* domains.
LEMMA Distributed ==
  ASSUME NEW w \in Networks, NEW n \in Nat \ {0}, NEW c \in 0 .. MaxCycle
  PROVE  /\ Distribute(w, n, c) \in [AllDomains -> SUBSET Line]
         /\ \A d \in AllDomains : \A l \in Distribute(w, n, c)[d] :
              /\ l[1] \in w.nodes /\ l[2] = c /\ w.place[l[1]] % n = d
<1>1. w.nodes \subseteq Node
  BY NodesAssumption
<1>2. ASSUME NEW d \in AllDomains, NEW l \in Distribute(w, n, c)[d]
      PROVE  /\ l \in Line /\ l[1] \in w.nodes /\ l[2] = c
             /\ w.place[l[1]] % n = d
  <2>1. PICK m \in w.nodes : w.place[m] % n = d /\ l = <<m, c>>
    BY <1>2 DEF Distribute
  <2> QED BY <1>1, <2>1 DEF Line
<1>3. DOMAIN Distribute(w, n, c) = AllDomains
  BY DEF Distribute
<1>4. Distribute(w, n, c) =
        [d \in AllDomains |-> {<<k, c>> : k \in {m \in w.nodes : w.place[m] % n = d}}]
  BY DEF Distribute
<1>5. \A d \in AllDomains : Distribute(w, n, c)[d] \in SUBSET Line
  BY <1>2
<1> HIDE DEF Distribute
<1> QED BY <1>2, <1>4, <1>5

\* A step leaves at most as many lines as there are nodes.
LEMMA DistributedCount ==
  ASSUME NEW w \in Networks, NEW n \in Nat \ {0}, NEW c \in 0 .. MaxCycle,
         NEW D \in SUBSET AllDomains
  PROVE  Cardinality(UNION {Distribute(w, n, c)[d] : d \in D}) <= Cardinality(Node)
<1> DEFINE U == UNION {Distribute(w, n, c)[d] : d \in D}
           f == [l \in U |-> l[1]]
<1>1. ASSUME NEW l \in U
      PROVE  l \in Line /\ l[1] \in Node /\ l = <<l[1], c>>
  <2>1. PICK d \in AllDomains : l \in Distribute(w, n, c)[d]
    BY <1>1
  <2>2. l \in Line /\ l[1] \in w.nodes /\ l[2] = c
    BY <2>1, Distributed
  <2> QED BY <2>2 DEF Line
<1>2. \A k, l \in U : k[1] = l[1] => k = l
  BY <1>1
<1> HIDE DEF U
<1>3. f \in [U -> Node]
  BY <1>1
<1>4. f \in Injection(U, Node)
  BY <1>2, <1>3 DEF Injection, IsInjective
<1> HIDE DEF f
<1>5. Cardinality(U) <= Cardinality(Node)
  BY <1>4, NodesAssumption, FS_Injection
<1> QED BY <1>5 DEF U

\* The inductive invariant holds before the first start, with no file there.
LEMMA InitInv == Init => IInv
<1> SUFFICES ASSUME Init PROVE IInv
  OBVIOUS
<1> USE Sizes, BoundsAssumption DEF Init
<1>0. Name \subseteq Int /\ AllDomains \subseteq Nat
  BY DEF Name, Number, Final
<1>1. FilesTyped
  <2>1. ctrl \in [Name -> [state : Name \cup {None, Torn}, cycle : 0 .. MaxCycle,
                           counter : 0 .. MaxCycle, groups : 1 .. MaxDomains]]
    OBVIOUS
  <2>2. Missing \in FileType
    <3>1. <<>> \in Seq(Line)
      OBVIOUS
    <3> QED BY <3>1 DEF Missing, FileType, Prologue
  <2>3. data \in [Name -> [Segments -> FileType]]
    BY <2>2
  <2> QED BY <2>1, <2>3 DEF FilesTyped
<1>2. StateTyped
  <2>1. <<>> \in Seq(STRING) /\ <<>> \in Seq(Line)
    OBVIOUS
  <2>2. 0 \in 0 .. MaxStarts /\ 0 \in 0 .. MaxCycle
    OBVIOUS
  <2> QED BY <2>1, <2>2 DEF StateTyped
<1>3. RunInv
  <2>1. \A s \in Name, g \in Segments : data[s][g].head.count = None
    BY DEF Missing, Prologue
  <2> QED BY <2>1 DEF RunInv, None
<1>4. CountInv /\ TurnInv /\ TokenInv
  BY DEF CountInv, TurnInv, TokenInv, Due
<1> QED BY <1>1, <1>2, <1>3, <1>4 DEF IInv

\* The end of a job leaves the files as they are.
LEMMA DownStep ==
  ASSUME IInv, Down, UNCHANGED <<files, starts>>
  PROVE  IInv'
<1> USE Sizes, BoundsAssumption DEF Down, IInv, files
<1>1. FilesTyped'
  BY DEF FilesTyped
<1>2. StateTyped'
  <2>1. <<>> \in Seq(STRING) /\ <<>> \in Seq(Line)
    OBVIOUS
  <2>2. 0 \in 0 .. MaxCycle
    OBVIOUS
  <2> QED BY <2>1, <2>2 DEF StateTyped
<1>3. RunInv'
  BY DEF RunInv
<1>4. CountInv' /\ TurnInv' /\ TokenInv'
  BY DEF CountInv, TurnInv, TokenInv, Due
<1> QED BY <1>1, <1>2, <1>3, <1>4

\* The first start.
LEMMA BeginStep == ASSUME IInv, Begin PROVE IInv'
<1> USE Sizes, BoundsAssumption DEF Begin, IInv
<1>1. PICK j \in Jobs, w \in Networks :
        job' = j /\ net' = Distribute(w, j.domains, 0)
  OBVIOUS
<1>2. j.domains \in Nat \ {0} /\ 0 \in 0 .. MaxCycle /\ Domain' \subseteq AllDomains
  BY <1>1 DEF Domain
<1>3. FilesTyped'
  BY DEF FilesTyped, files
<1>4. StateTyped'
  <2>1. net' \in [AllDomains -> SUBSET Line]
    BY <1>1, <1>2, Distributed
  <2>2. starts' \in 0 .. MaxStarts
    BY DEF StateTyped
  <2> QED BY <1>1, <2>1, <2>2 DEF StateTyped, io, input
<1>5. RunInv'
  BY <1>1 DEF RunInv, files, input
<1>6. CountInv'
  <2>1. NodeCount' = Cardinality(UNION {Distribute(w, j.domains, 0)[d] : d \in Domain'})
    BY <1>1 DEF NodeCount
  <2> QED BY <1>2, <2>1, DistributedCount DEF CountInv
<1>7. TurnInv' /\ TokenInv'
  BY DEF TurnInv, TokenInv, Due, io
<1> QED BY <1>3, <1>4, <1>5, <1>6, <1>7

\* The readers there are, and how many segments each has: enough for all.
LEMMA Shares ==
  ASSUME NEW doms \in Nat \ {0}, NEW segs \in Nat \ {0}
  PROVE  /\ ReadTasks(doms, segs) \in 1 .. doms
         /\ SegsPerReader(segs, ReadTasks(doms, segs)) \in Nat \ {0}
         /\ segs <= SegsPerReader(segs, ReadTasks(doms, segs)) * doms
<1> DEFINE t == ReadTasks(doms, segs)
           p == SegsPerReader(segs, t)
<1>1. t \in 1 .. doms
  <2>1. CASE doms >= segs
    <3>1. t = segs
      BY <2>1 DEF ReadTasks
    <3> QED BY <2>1, <3>1
  <2>2. CASE ~(doms >= segs)
    <3> DEFINE a == segs + doms - 1
               n == a \div doms
    <3>1. a \in Nat /\ a >= doms
      OBVIOUS
    <3>2. n \in Nat /\ doms * n <= a /\ a < doms * n + doms
      <4> HIDE DEF a
      <4> QED BY <3>1, Quotients
    <3>3. t = IF n < doms THEN n ELSE doms
      BY <2>2 DEF ReadTasks
    <3>4. n # 0
      <4> HIDE DEF n
      <4>1. ASSUME n = 0 PROVE FALSE
        <5>1. doms * n = 0
          BY <4>1
        <5> QED BY <5>1, <3>1, <3>2
      <4> QED BY <4>1
    <3> HIDE DEF n
    <3> QED BY <3>2, <3>3, <3>4
  <2> QED BY <2>1, <2>2
<1> HIDE DEF t
<1> DEFINE b == segs + t - 1
<1>2. b \in Nat /\ b >= t /\ b >= segs
  BY <1>1
<1>3. p = b \div t
  BY DEF SegsPerReader
<1>4. p \in Nat /\ t * p <= b /\ b < t * p + t
  <2> HIDE DEF b, p
  <2> QED BY <1>1, <1>2, <1>3, Quotients
<1> HIDE DEF p
<1>5. t * p \in Nat /\ t * p >= segs
  BY <1>1, <1>4
<1>6. p # 0
  <2>1. ASSUME p = 0 PROVE FALSE
    <3>1. t * p = 0
      BY <1>1, <2>1
    <3> QED BY <3>1, <1>5
  <2> QED BY <2>1
<1>7. t * p <= p * doms
  <2>1. CASE t = doms
    <3>1. t * p = p * doms
      BY <1>1, <1>4, <2>1
    <3> QED BY <3>1, <1>5
  <2>2. CASE t < doms
    <3>1. t * p + p <= doms * p /\ doms * p = p * doms /\ doms * p \in Nat
      BY <1>1, <1>4, <2>2, Products
    <3> QED BY <3>1, <1>4, <1>5
  <2> QED BY <1>1, <2>1, <2>2
<1> QED
  <2>1. p * doms \in Nat
    BY <1>4
  <2> QED BY <1>1, <1>4, <1>5, <1>6, <1>7, <2>1 DEF t, p

\* The segments that domain d is to read.
Per(s, doms) == SegsPerReader(data[s][Opened(s)].head.segments,
                              ReadTasks(doms, data[s][Opened(s)].head.segments))
InShare(s, d, doms) ==
  {g \in AllDomains : /\ g < data[s][Opened(s)].head.segments
                      /\ d * Per(s, doms) <= g /\ g < d * Per(s, doms) + Per(s, doms)}

\* What domain 0 opens of a set is one of its files.
LEMMA OpenedIs ==
  ASSUME FilesTyped, NEW s \in Name
  PROVE  Opened(s) \in {Whole, 0} /\ Opened(s) \in Segments
BY Sizes DEF Opened, Segments

\* What a domain is to read of a set: its share of the segments.
LEMMA ToReadIs ==
  ASSUME FilesTyped, NEW s \in Name, NEW doms \in 1 .. MaxDomains,
         NEW d \in 0 .. doms - 1,
         data[s][Opened(s)].head.segments # 0
  PROVE  /\ ToRead(s, d, doms) \in Seq(Line)
         /\ Opened(s) = Whole =>
              \A x : x \in ToSet(ToRead(s, d, doms)) <=>
                       d = 0 /\ x \in ToSet(data[s][Whole].body)
         /\ Opened(s) # Whole =>
              \A x : x \in ToSet(ToRead(s, d, doms)) <=>
                       \E g \in InShare(s, d, doms) : x \in ToSet(data[s][g].body)
<1> DEFINE segs == data[s][Opened(s)].head.segments
           per  == Per(s, doms)
           last == IF d * per + per - 1 < segs THEN d * per + per - 1
                   ELSE segs - 1
           q == [i \in 1 .. last - d * per + 1 |-> data[s][d * per + i - 1].body]
<1>0. MaxDomains \in Nat \ {0} /\ AllDomains = 0 .. MaxDomains - 1
  BY Sizes
<1>1. segs \in 1 .. MaxDomains
  BY <1>0, OpenedIs DEF FilesTyped, FileType
<1>2. per \in Nat \ {0}
  <2>1. segs \in Nat \ {0} /\ doms \in Nat \ {0}
    BY <1>0, <1>1
  <2>2. per = SegsPerReader(segs, ReadTasks(doms, segs))
    BY DEF Per
  <2> HIDE DEF segs, per
  <2> QED BY <2>1, <2>2, Shares
<1>3. ToRead(s, d, doms) = IF Opened(s) = Whole
                           THEN IF d = 0 THEN data[s][Whole].body ELSE <<>>
                           ELSE FlattenSeq(q)
  BY DEF ToRead, Per
<1>4. \A g \in Segments : data[s][g].body \in Seq(Line)
  BY DEF FilesTyped, FileType
<1> HIDE DEF segs, per
<1>5. CASE Opened(s) = Whole
  <2>1. Whole \in Segments /\ <<>> \in Seq(Line)
    BY DEF Segments
  <2>2. \A x : x \notin ToSet(<<>>)
    BY DEF ToSet
  <2>3. CASE d = 0
    BY <1>3, <1>4, <1>5, <2>1, <2>3
  <2>4. CASE d # 0
    BY <1>3, <1>5, <2>1, <2>2, <2>4
  <2> QED BY <2>3, <2>4
<1>6. CASE Opened(s) # Whole
  <2> DEFINE f == d * per
             k == last - f + 1
  <2>1. f \in Nat
    BY <1>0, <1>2
  <2> HIDE DEF f
  <2>2. k \in Int /\ k <= per /\ f + k <= segs
    <3>1. last = IF f + per - 1 < segs THEN f + per - 1 ELSE segs - 1
      BY DEF f
    <3> HIDE DEF last
    <3> QED BY <1>1, <1>2, <2>1, <3>1
  <2>3. \A i \in Int : 1 <= i /\ i <= k => /\ f + i - 1 \in AllDomains
                                   /\ f + i - 1 < segs /\ f + i - 1 < f + per
    BY <1>0, <1>1, <1>2, <2>1, <2>2
  <2>4. InShare(s, d, doms) = {f + i - 1 : i \in 1 .. k}
    <3>1. InShare(s, d, doms) = {g \in AllDomains : g < segs /\ f <= g /\ g < f + per}
      BY DEF InShare, f, per, segs
    <3>2. \A i \in 1 .. k : f + i - 1 \in InShare(s, d, doms)
      BY <2>1, <2>3, <3>1
    <3>3. ASSUME NEW g \in InShare(s, d, doms)
          PROVE  g \in {f + i - 1 : i \in 1 .. k}
      <4>1. g \in Nat /\ g < segs /\ f <= g /\ g < f + per
        BY <1>0, <3>1
      <4>2. g - f + 1 \in 1 .. k /\ g = f + (g - f + 1) - 1
        BY <1>1, <1>2, <2>1, <4>1 DEF f
      <4> QED BY <4>2
    <3> QED BY <3>2, <3>3
  <2>5. q = [i \in 1 .. k |-> data[s][f + i - 1].body]
    BY DEF f
  <2>6. \A i \in 1 .. k : data[s][f + i - 1].body \in Seq(Line)
    BY <1>4, <2>3 DEF Segments
  <2> HIDE DEF k, q
  <2>7. q \in Seq(Seq(Line)) /\ \A i : i \in 1 .. Len(q) <=> i \in 1 .. k
    <3>1. CASE k >= 0
      <4>1. k \in Nat
        BY <2>2, <3>1
      <4>2. q \in [1 .. k -> Seq(Line)]
        BY <2>5, <2>6
      <4> QED BY <4>1, <4>2
    <3>2. CASE k < 0
      <4>1. 1 .. k = {} /\ 1 .. 0 = {}
        BY <2>2, <3>2
      <4>2. q = <<>>
        BY <2>5, <4>1
      <4> QED BY <4>1, <4>2
    <3> QED BY <2>2, <3>1, <3>2
  <2>8. FlattenSeq(q) \in Seq(Line)
        /\ \A x : x \in ToSet(FlattenSeq(q)) <=> \E i \in 1 .. Len(q) : x \in ToSet(q[i])
    BY <2>7, Flattened
  <2>9. \A x : x \in ToSet(FlattenSeq(q)) <=>
                 \E g \in InShare(s, d, doms) : x \in ToSet(data[s][g].body)
    BY <2>4, <2>5, <2>7, <2>8
  <2> QED BY <1>3, <1>6, <2>8, <2>9
<1> QED BY <1>5, <1>6

\* A start from the set that is named.
LEMMA StartAgainStep == ASSUME IInv, StartAgain PROVE IInv'
<1> USE Sizes, BoundsAssumption DEF IInv
<1> DEFINE head == data[latest][Opened(latest)].head
           reads == ctrl[latest].state # Torn /\ head.count >= 0
<1>0. PICK j \in Jobs, pl \in Placements :
        /\ job' = j /\ place' = pl
        /\ phase' = IF reads THEN "read" ELSE "fatal"
        /\ unread' = [d \in AllDomains |->
                        IF reads /\ d < j.domains THEN ToRead(latest, d, j.domains)
                        ELSE <<>>]
  BY DEF StartAgain
<1>1. /\ phase = "down" /\ latest \in Name /\ starts < MaxStarts
      /\ starts' = starts + 1 /\ origin' = latest
      /\ cycle' = ctrl[latest].cycle /\ counter' = ctrl[latest].counter
      /\ UNCHANGED <<files, stage, outs, net, io>>
  BY DEF StartAgain, SavedCounter
<1>2. FilesTyped'
  BY <1>1 DEF FilesTyped, files
<1>3. StateTyped'
  <2>1. ASSUME NEW d \in AllDomains, reads, d < j.domains
        PROVE  ToRead(latest, d, j.domains) \in Seq(Line)
    <3>1. Opened(latest) \in Segments
      BY <1>1, OpenedIs
    <3>2. head.count \in Nat
      BY <1>1, <2>1, <3>1 DEF FilesTyped, FileType, None, Torn
    <3>3. head.segments # 0
      BY <1>1, <3>1, <3>2 DEF RunInv
    <3>4. j.domains \in 1 .. MaxDomains /\ d \in 0 .. j.domains - 1
      BY <2>1
    <3> QED BY <1>1, <3>3, <3>4, ToReadIs
  <2>2. <<>> \in Seq(Line)
    OBVIOUS
  <2>3. unread' \in [AllDomains -> Seq(Line)]
    <3> HIDE DEF reads
    <3> QED BY <1>0, <2>1, <2>2
  <2>4. place' \in [Node -> Nat] /\ job' \in [domains : 1 .. MaxDomains, groups : 1 .. MaxDomains]
    BY <1>0, NodesAssumption
  <2>5. phase' \in {"read", "fatal"} /\ starts' \in 0 .. MaxStarts
    BY <1>0, <1>1 DEF StateTyped
  <2>6. cycle' \in 0 .. MaxCycle /\ counter' \in 0 .. MaxCycle
        /\ origin' \in Name
    BY <1>1 DEF FilesTyped
  <2> HIDE DEF reads
  <2> QED BY <1>1, <2>3, <2>4, <2>5, <2>6 DEF StateTyped, io
<1>4. RunInv'
  BY <1>0, <1>1 DEF RunInv, files
<1>5. phase' \in {"read", "fatal"}
  BY <1>0
<1>6. CountInv' /\ TurnInv' /\ TokenInv'
  BY <1>1, <1>5 DEF CountInv, TurnInv, TokenInv, Due, io
<1> QED BY <1>2, <1>3, <1>4, <1>6

\* A turn of the reading loop.
LEMMA ReadBlockStep == ASSUME IInv, ReadBlock PROVE IInv'
<1> USE Sizes, BoundsAssumption DEF IInv
<1>1. phase = "read" /\ UNCHANGED <<files, run, cycle, counter, phase, stage, outs,
                                    place, origin, io>>
  BY DEF ReadBlock
<1>2. FilesTyped' /\ RunInv'
  BY <1>1 DEF FilesTyped, RunInv, files, run
<1>3. StateTyped'
  <2>1. \A e \in AllDomains : /\ unread[e] \in Seq(Line) /\ Block(e) \in Nat
                              /\ Block(e) <= Len(unread[e])
    BY DEF StateTyped, Block
  <2>2. unread' \in [AllDomains -> Seq(Line)]
    <3>1. \A d \in AllDomains : SubSeq(unread[d], Block(d) + 1, Len(unread[d])) \in Seq(Line)
      BY <2>1
    <3>2. unread' = [d \in AllDomains |-> SubSeq(unread[d], Block(d) + 1, Len(unread[d]))]
      BY DEF ReadBlock
    <3> QED BY <3>1, <3>2
  <2>3. net' \in [AllDomains -> SUBSET Line]
    <3> DEFINE Sent(e, d) == {unread[e][i] : i \in {k \in 1 .. Block(e) :
                                place[unread[e][k][1]] % job.domains = d}}
    <3>1. net' = [d \in AllDomains |-> net[d] \cup UNION {Sent(e, d) : e \in Domain}]
      BY DEF ReadBlock
    <3>2. \A e \in Domain : e \in AllDomains
      BY Domains
    <3>3. \A e \in Domain, d \in AllDomains : Sent(e, d) \subseteq Line
      BY <2>1, <3>2
    <3> HIDE DEF Sent
    <3>4. \A d \in AllDomains : net[d] \cup UNION {Sent(e, d) : e \in Domain} \in SUBSET Line
      BY <3>3 DEF StateTyped
    <3> QED BY <3>1, <3>4
  <2> QED BY <1>1, <2>2, <2>3 DEF StateTyped, run, io
<1>4. CountInv' /\ TurnInv' /\ TokenInv'
  BY <1>1 DEF CountInv, TurnInv, TokenInv, Due, Busy, Writing, io, run
<1> QED BY <1>2, <1>3, <1>4

\* The check of the count keeps the number of nodes in memory bounded.
LEMMA ReadDoneStep == ASSUME IInv, ReadDone PROVE IInv'
<1> USE Sizes, BoundsAssumption DEF IInv
<1>1. /\ phase = "read" /\ phase' \in {"loop", "fatal"}
      /\ phase' = "loop" => NodeCount = data[origin][Opened(origin)].head.count
      /\ UNCHANGED <<files, run, cycle, counter, stage, outs, net, input, io>>
  BY DEF ReadDone
<1>2. FilesTyped' /\ RunInv' /\ StateTyped'
  BY <1>1 DEF FilesTyped, RunInv, StateTyped, files, run, input, io
<1>3. CountInv'
  <2>1. NodeCount' = NodeCount
    BY <1>1 DEF NodeCount, Domain, run
  <2>2. NodeCount \in Nat
    BY Counted
  <2>3. data[origin][Opened(origin)].head.count \in {None, Torn} \cup 0 .. Cardinality(Node)
    BY <1>1, OpenedIs DEF FilesTyped, FileType, RunInv
  <2>4. Cardinality(Node) \in Nat
    BY NodesAssumption, FS_CardinalityType
  <2> QED BY <1>1, <2>1, <2>2, <2>3, <2>4 DEF CountInv, None, Torn
<1>4. TurnInv' /\ TokenInv'
  BY <1>1 DEF TurnInv, TokenInv, Due, Busy, Writing, io, run
<1> QED BY <1>2, <1>3, <1>4

\* All domains begin the types of output together, without a token.
LEMMA EnterStep ==
  ASSUME IInv, phase = "loop", NEW types \in Outputs, types # <<>>, Enter(types),
         UNCHANGED run
  PROVE  /\ phase' = "output" /\ outs' \in Seq(STRING)
         /\ pc' \in [AllDomains -> {"turn", "done"}]
         /\ turn' \in [AllDomains -> Nat] /\ tokens' = tokens
         /\ TurnInv' /\ TokenInv'
<1> USE Sizes DEF IInv, run
<1>1. /\ phase' = "output" /\ outs' = types
      /\ turn' = [d \in AllDomains |-> 1]
      /\ pc' = [d \in AllDomains |-> IF d \in Domain THEN "turn" ELSE "done"]
      /\ tokens' = tokens /\ job' = job
  BY DEF Enter
<1>2. Domain' = Domain
  BY DEF Domain
<1>3. types \in Seq(STRING) /\ \A i \in DOMAIN types : (types[i] = "restart") => i = 1
  BY OutputsAssumption
<1>4. Len(types) \in Nat \ {0}
  BY <1>3
<1>5. \A d \in AllDomains : pc'[d] = (IF d \in Domain THEN "turn" ELSE "done")
                            /\ turn'[d] = 1
  BY <1>1
<1>6. TurnInv'
  <2>1. \A d \in Domain' : turn'[d] = 1 /\ pc'[d] = "turn" /\ d \in AllDomains
    BY <1>2, <1>5, Domains
  <2>2. \A d \in Domain' : turn'[d] \in 1 .. Len(outs') + 1
                           /\ (Busy(d)' <=> turn'[d] <= Len(outs'))
    <3> SUFFICES ASSUME NEW d \in Domain'
                 PROVE  /\ turn'[d] \in 1 .. Len(outs') + 1
                        /\ Busy(d)' <=> turn'[d] <= Len(outs')
      OBVIOUS
    <3>1. turn'[d] = 1 /\ Len(outs') \in Nat \ {0}
      BY <1>1, <1>4, <2>1
    <3>2. Busy(d)'
      BY <2>1 DEF Busy
    <3> QED BY <3>1, <3>2
  <2> QED BY <1>1, <1>2, <1>3, <1>5, <2>2 DEF TurnInv
<1>7. TokenInv'
  <2> SUFFICES ASSUME NEW e \in AllDomains PROVE tokens'[e] = Due(e)'
    BY DEF TokenInv
  <2>1. tokens[e] = 0
    BY DEF TokenInv, Due
  <2>2. CASE e \in Domain' /\ NeedsToken(e)'
    <3>1. e - 1 \in Domain'
      BY <1>1, <1>2, <2>2, Domains, Neighbours DEF NeedsToken, FirstIn, InLarge, Group, SmallGroup, LargeGroup, LargeCount
    <3>2. e - 1 \in AllDomains
      BY <1>2, <3>1, Domains
    <3>3. turn'[e - 1] = 1 /\ turn'[e] = 1 /\ ~Writing(e)'
      BY <1>5, <3>2 DEF Writing
    <3> QED BY <1>1, <2>1, <2>2, <3>3 DEF Due
  <2>3. CASE ~(e \in Domain' /\ NeedsToken(e)')
    BY <1>1, <2>1, <2>3 DEF Due
  <2> QED BY <2>2, <2>3
<1> QED BY <1>1, <1>3, <1>6, <1>7

\* A cycle, with or without output at its end.
LEMMA DislocStepStep == ASSUME IInv, DislocStep PROVE IInv'
<1> USE Sizes, BoundsAssumption DEF IInv
<1>1. /\ phase = "loop" /\ cycle < MaxCycle /\ cycle' = cycle + 1
      /\ origin' = None /\ stage' = "cycle"
      /\ UNCHANGED <<files, run, place, unread>>
  BY DEF DislocStep
<1>2. PICK w \in Networks : net' = Distribute(w, job.domains, cycle')
  BY DEF DislocStep
<1>3. PICK types \in Outputs :
        /\ counter' = IF WithRestart(types) THEN counter + 1 ELSE counter
        /\ IF types # <<>> THEN Enter(types) ELSE UNCHANGED <<phase, outs, io>>
  BY DEF DislocStep
<1>4. cycle' \in 0 .. MaxCycle /\ job.domains \in Nat \ {0} /\ Domain \in SUBSET AllDomains
      /\ Domain' = Domain
  <2>1. cycle' \in 0 .. MaxCycle
    BY <1>1 DEF StateTyped
  <2>2. job.domains \in Nat \ {0} /\ Domain \in SUBSET AllDomains
    BY Domains
  <2>3. Domain' = Domain
    BY <1>1 DEF Domain, run
  <2> QED BY <2>1, <2>2, <2>3
<1>5. FilesTyped'
  BY <1>1 DEF FilesTyped, files
<1>6. net' \in [AllDomains -> SUBSET Line]
  BY <1>2, <1>4, Distributed
<1>7. CountInv'
  <2>1. NodeCount' = Cardinality(UNION {Distribute(w, job.domains, cycle')[d] : d \in Domain})
    BY <1>2, <1>4 DEF NodeCount
  <2> QED BY <1>4, <2>1, DistributedCount DEF CountInv
<1>8. counter' \in 0 .. MaxCycle /\ counter' <= cycle'
  <2>1. counter \in Nat /\ cycle \in Nat /\ counter <= cycle
    BY DEF StateTyped, RunInv
  <2> QED BY <1>1, <1>3, <1>4, <2>1
<1>9. phase' \in {"loop", "output"}
  BY <1>1, <1>3 DEF Enter
<1>10. RunInv'
  BY <1>1, <1>8, <1>9 DEF RunInv, files, run
<1>11. StateTyped' /\ TurnInv' /\ TokenInv'
  <2>1. CASE types # <<>>
    <3>1. Enter(types) /\ UNCHANGED run
      BY <1>1, <1>3, <2>1
    <3>2. /\ phase' = "output" /\ outs' \in Seq(STRING)
          /\ pc' \in [AllDomains -> {"turn", "done"}]
          /\ turn' \in [AllDomains -> Nat] /\ tokens' = tokens
          /\ TurnInv' /\ TokenInv'
      BY <1>1, <2>1, <3>1, EnterStep
    <3> QED BY <1>1, <1>4, <1>6, <1>8, <3>2 DEF StateTyped, run
  <2>2. CASE types = <<>>
    <3>1. UNCHANGED <<phase, outs, io>>
      BY <1>3, <2>2
    <3>2. StateTyped'
      BY <1>1, <1>4, <1>6, <1>8, <3>1 DEF StateTyped, run, io
    <3> QED BY <1>1, <3>1, <3>2 DEF TurnInv, TokenInv, Due, io
  <2> QED BY <2>1, <2>2
<1> QED BY <1>5, <1>7, <1>10, <1>11

\* The last output.
LEMMA FinishStep == ASSUME IInv, Finish PROVE IInv'
<1> USE Sizes, BoundsAssumption DEF IInv
<1>1. /\ phase = "loop" /\ stage' = "term" /\ origin' = None
      /\ UNCHANGED <<files, run, cycle, counter, net, place, unread>>
  BY DEF Finish
<1>2. PICK types \in Outputs : WithRestart(types) /\ Enter(types)
  BY DEF Finish
<1>3. types # <<>>
  BY <1>2 DEF WithRestart, ToSet
<1>4. /\ phase' = "output" /\ outs' \in Seq(STRING)
      /\ pc' \in [AllDomains -> {"turn", "done"}]
      /\ turn' \in [AllDomains -> Nat] /\ tokens' = tokens
      /\ TurnInv' /\ TokenInv'
  BY <1>1, <1>2, <1>3, EnterStep
<1>5. FilesTyped' /\ RunInv'
  BY <1>1, <1>4 DEF FilesTyped, RunInv, files, run
<1>6. StateTyped'
  BY <1>1, <1>4 DEF StateTyped, run
<1>7. CountInv'
  BY <1>1 DEF CountInv, NodeCount, Domain, run
<1> QED BY <1>4, <1>5, <1>6, <1>7

\* A crash.
LEMMA CrashStep == ASSUME IInv, Crash PROVE IInv'
BY DownStep DEF Crash

\* What the steps of an output leave alone.
LEMMA Frame ==
  ASSUME IInv, UNCHANGED same, phase = "output"
  PROVE  /\ Domain' = Domain /\ CountInv' /\ phase' = "output"
         /\ \A e \in AllDomains : (NeedsToken(e)' <=> NeedsToken(e))
         /\ /\ pc' \in [AllDomains -> {"turn", "ctrl", "params", "data", "write",
                                       "barrier", "latest", "name", "done"}]
            /\ turn' \in [AllDomains -> Nat] /\ tokens' \in [AllDomains -> Nat]
            => StateTyped'
<1> USE DEF same, run, input
<1>1. Domain' = Domain /\ phase' = "output" /\ job' = job /\ net' = net
  BY DEF Domain
<1>2. CountInv'
  BY <1>1 DEF CountInv, NodeCount, IInv
<1>3. \A e \in AllDomains : (NeedsToken(e)' <=> NeedsToken(e))
  BY <1>1 DEF NeedsToken, FirstIn, InLarge, Group, SmallGroup, LargeGroup, LargeCount
<1>4. ASSUME pc' \in [AllDomains -> {"turn", "ctrl", "params", "data", "write",
                                     "barrier", "latest", "name", "done"}],
             turn' \in [AllDomains -> Nat], tokens' \in [AllDomains -> Nat]
      PROVE  StateTyped'
  BY <1>4 DEF StateTyped, IInv
<1> QED BY <1>1, <1>2, <1>3, <1>4

\* What holds in an output, domain by domain.
LEMMA OutputFacts ==
  ASSUME IInv, phase = "output"
  PROVE  /\ Len(outs) \in Nat \ {0} /\ OutputName \in Name
         /\ Domain \subseteq AllDomains /\ AllDomains \subseteq Nat
         /\ pc \in [AllDomains -> {"turn", "ctrl", "params", "data", "write",
                                   "barrier", "latest", "name", "done"}]
         /\ turn \in [AllDomains -> Nat] /\ tokens \in [AllDomains -> Nat]
         /\ \A d \in AllDomains : pc[d] # "done" => d \in Domain
         /\ \A d \in Domain : /\ turn[d] \in 1 .. Len(outs) + 1
                              /\ Busy(d) <=> turn[d] <= Len(outs)
                              /\ MyFile(d) \in Segments
         /\ \A e \in Domain : NeedsToken(e) =>
              /\ e - 1 \in Domain
              /\ tokens[e] = turn[e - 1] - turn[e] - (IF Writing(e) THEN 1 ELSE 0)
<1> USE Sizes DEF IInv
<1>1. Len(outs) \in Nat \ {0}
  BY DEF TurnInv, StateTyped
<1>2. OutputName \in Name
  BY BoundsAssumption DEF StateTyped, OutputName, Name, Number, Final
<1>3. /\ pc \in [AllDomains -> {"turn", "ctrl", "params", "data", "write",
                                "barrier", "latest", "name", "done"}]
      /\ turn \in [AllDomains -> Nat] /\ tokens \in [AllDomains -> Nat]
  BY DEF StateTyped
<1>4. \A d \in AllDomains : pc[d] # "done" => d \in Domain
  BY DEF TurnInv
<1>5. \A d \in Domain : /\ turn[d] \in 1 .. Len(outs) + 1
                        /\ Busy(d) <=> turn[d] <= Len(outs)
  BY DEF TurnInv
<1>6. \A d \in Domain : MyFile(d) \in Segments
  BY Domains
<1>7. ASSUME NEW e \in Domain, NeedsToken(e)
      PROVE  /\ e - 1 \in Domain
             /\ tokens[e] = turn[e - 1] - turn[e] - (IF Writing(e) THEN 1 ELSE 0)
  <2>1. e - 1 \in Domain /\ e \in AllDomains
    BY <1>7, Domains, Neighbours
  <2>2. tokens[e] = Due(e)
    BY <2>1 DEF TokenInv
  <2> QED BY <1>7, <2>1, <2>2 DEF Due
<1>8. Domain \subseteq AllDomains
  BY Domains
<1> QED BY <1>1, <1>2, <1>3, <1>4, <1>5, <1>6, <1>7, <1>8

\* A step of one domain within a type of output: it stays at the same type.
LEMMA InTypeStep ==
  ASSUME IInv, phase = "output", NEW d \in Domain, Writing(d),
         NEW a \in {"params", "data", "write"}, pc' = [pc EXCEPT ![d] = a],
         UNCHANGED <<turn, tokens, same>>
  PROVE  StateTyped' /\ CountInv' /\ TurnInv' /\ TokenInv'
<1> USE OutputFacts
<1>1. /\ Domain' = Domain /\ CountInv' /\ phase' = "output"
      /\ \A e \in AllDomains : (NeedsToken(e)' <=> NeedsToken(e))
  BY Frame
<1>2. StateTyped'
  <2>1. pc' \in [AllDomains -> {"turn", "ctrl", "params", "data", "write",
                                "barrier", "latest", "name", "done"}]
    OBVIOUS
  <2> QED BY <2>1, Frame
<1>3. outs' = outs /\ turn' = turn /\ tokens' = tokens
  BY DEF same
<1>4. \A e \in AllDomains : pc'[e] = (IF e = d THEN a ELSE pc[e])
  OBVIOUS
<1>5. \A e \in AllDomains : (Writing(e)' <=> Writing(e)) /\ (Busy(e)' <=> Busy(e))
  BY <1>4 DEF Writing, Busy
<1>6. TurnInv'
  <2>1. \A e \in AllDomains : e \notin Domain' => pc'[e] = "done"
    BY <1>1, <1>4 DEF TurnInv, IInv
  <2>2. \A e \in AllDomains : pc'[e] \in {"latest", "name"} => e = 0
    BY <1>4 DEF TurnInv, IInv
  <2>3. \A e \in Domain' : turn'[e] \in 1 .. Len(outs') + 1
                           /\ (Busy(e)' <=> turn'[e] <= Len(outs'))
    BY <1>1, <1>3, <1>5
  <2> QED BY <1>1, <1>3, <2>1, <2>2, <2>3 DEF TurnInv, IInv
<1>7. TokenInv'
  <2> SUFFICES ASSUME NEW e \in AllDomains PROVE tokens'[e] = Due(e)'
    BY DEF TokenInv
  <2>1. Due(e)' = Due(e)
    BY <1>1, <1>3, <1>5 DEF Due
  <2> QED BY <1>3, <2>1 DEF TokenInv, IInv
<1> QED BY <1>1, <1>2, <1>6, <1>7

\* A domain takes its turn, and the token it waited for.
LEMMA TakeTurnStep ==
  ASSUME IInv, NEW d \in AllDomains, TakeTurn(d) PROVE IInv'
<1> USE Sizes DEF At
<1>0. phase = "output" /\ pc[d] = "turn" /\ (NeedsToken(d) => tokens[d] > 0)
      /\ tokens' = (IF NeedsToken(d) THEN [tokens EXCEPT ![d] = @ - 1] ELSE tokens)
      /\ turn' = turn /\ UNCHANGED <<files, same>>
  BY DEF TakeTurn
<1>1. PICK a \in {"write", "ctrl", "data"} : pc' = [pc EXCEPT ![d] = a]
  BY DEF TakeTurn
<1>2. d \in Domain
  BY <1>0, OutputFacts
<1>3. /\ Domain' = Domain /\ CountInv' /\ phase' = "output" /\ outs' = outs
      /\ \A e \in AllDomains : (NeedsToken(e)' <=> NeedsToken(e))
  BY <1>0, Frame DEF same
<1>4. \A e \in AllDomains : pc'[e] = (IF e = d THEN a ELSE pc[e])
  BY <1>0, <1>1, OutputFacts
<1>5. \A e \in AllDomains :
         tokens'[e] = (IF e = d /\ NeedsToken(d) THEN tokens[e] - 1 ELSE tokens[e])
  BY <1>0, OutputFacts
<1>6. FilesTyped' /\ RunInv'
  BY <1>0, <1>3 DEF FilesTyped, RunInv, IInv, files, same, run
<1>7. StateTyped'
  <2>1. pc' \in [AllDomains -> {"turn", "ctrl", "params", "data", "write",
                                "barrier", "latest", "name", "done"}]
    BY <1>0, <1>1, OutputFacts
  <2>2. tokens' \in [AllDomains -> Nat]
    <3>1. CASE NeedsToken(d)
      <4>1. tokens[d] - 1 \in Nat
        BY <1>0, <3>1, OutputFacts
      <4> QED BY <1>0, <3>1, <4>1, OutputFacts
    <3>2. CASE ~NeedsToken(d)
      BY <1>0, <3>2, OutputFacts
    <3> QED BY <3>1, <3>2
  <2> QED BY <1>0, <2>1, <2>2, OutputFacts, Frame
<1>8. \A e \in AllDomains : /\ Busy(e)' <=> Busy(e)
                            /\ Writing(e)' <=> (Writing(e) \/ e = d)
  BY <1>0, <1>4 DEF Writing, Busy
<1>9. TurnInv'
  <2>1. \A e \in AllDomains : e \notin Domain' => pc'[e] = "done"
    BY <1>2, <1>3, <1>4 DEF TurnInv, IInv
  <2>2. \A e \in AllDomains : pc'[e] \in {"latest", "name"} => e = 0
    BY <1>4 DEF TurnInv, IInv
  <2>3. \A e \in Domain' : turn'[e] \in 1 .. Len(outs') + 1
                           /\ (Busy(e)' <=> turn'[e] <= Len(outs'))
    BY <1>0, <1>3, <1>8, OutputFacts
  <2> QED BY <1>0, <1>3, <2>1, <2>2, <2>3 DEF TurnInv, IInv
<1>10. TokenInv'
  <2> SUFFICES ASSUME NEW e \in AllDomains PROVE tokens'[e] = Due(e)'
    BY DEF TokenInv
  <2>1. tokens[e] = Due(e)
    BY DEF TokenInv, IInv
  <2>2. CASE e \in Domain /\ NeedsToken(e)
    <3>1. /\ Due(e) = turn[e - 1] - turn[e] - (IF Writing(e) THEN 1 ELSE 0)
          /\ Due(e)' = turn[e - 1] - turn[e] - (IF Writing(e)' THEN 1 ELSE 0)
      BY <1>0, <1>3, <2>2 DEF Due
    <3>2. turn[e - 1] \in Int /\ turn[e] \in Int /\ tokens[e] \in Int
      BY <1>0, <2>2, OutputFacts
    <3>3. CASE e = d
      <4>1. ~Writing(d) /\ Writing(d)'
        BY <1>0, <1>8 DEF Writing
      <4>2. tokens'[e] = tokens[e] - 1
        BY <1>5, <2>2, <3>3
      <4> QED BY <2>1, <3>1, <3>2, <3>3, <4>1, <4>2
    <3>4. CASE e # d
      <4>1. (Writing(e)' <=> Writing(e)) /\ tokens'[e] = tokens[e]
        BY <1>5, <1>8, <3>4
      <4> QED BY <2>1, <3>1, <4>1
    <3> QED BY <3>3, <3>4
  <2>3. CASE ~(e \in Domain /\ NeedsToken(e))
    <3>1. Due(e) = 0 /\ Due(e)' = 0
      BY <1>3, <2>3 DEF Due
    <3>2. tokens'[e] = tokens[e]
      BY <1>2, <1>5, <2>3
    <3> QED BY <2>1, <3>1, <3>2
  <2> QED BY <2>2, <2>3
<1> QED BY <1>3, <1>6, <1>7, <1>9, <1>10 DEF IInv

\* Domain 0 opens the control file.
LEMMA OpenCtrlStep ==
  ASSUME IInv, NEW d \in AllDomains, OpenCtrl(d) PROVE IInv'
<1>0. /\ phase = "output" /\ pc[d] = "ctrl"
      /\ ctrl' = [ctrl EXCEPT ![OutputName].state = Torn]
      /\ pc' = [pc EXCEPT ![d] = "params"]
      /\ UNCHANGED <<data, latest, turn, tokens, same>>
  BY DEF OpenCtrl, At
<1>1. d \in Domain /\ Writing(d) /\ OutputName \in Name
  BY <1>0, OutputFacts DEF Writing
<1>2. StateTyped' /\ CountInv' /\ TurnInv' /\ TokenInv'
  BY <1>0, <1>1, InTypeStep
<1>3. FilesTyped'
  BY <1>0, <1>1 DEF FilesTyped, IInv
<1>4. \A s \in Name : ctrl'[s].cycle = ctrl[s].cycle /\ ctrl'[s].counter = ctrl[s].counter
  BY <1>0, <1>1 DEF FilesTyped, IInv
<1>5. RunInv'
  BY <1>0, <1>4 DEF RunInv, IInv, same, run, input
<1> QED BY <1>2, <1>3, <1>5 DEF IInv

\* Domain 0 writes the control file.
LEMMA WriteCtrlStep ==
  ASSUME IInv, NEW d \in AllDomains, WriteCtrl(d) PROVE IInv'
<1>0. /\ phase = "output" /\ pc[d] = "params"
      /\ ctrl' = [ctrl EXCEPT ![OutputName] =
                    [state |-> OutputName, cycle |-> cycle, counter |-> counter,
                     groups |-> job.groups]]
      /\ pc' = [pc EXCEPT ![d] = "data"]
      /\ UNCHANGED <<data, latest, turn, tokens, same>>
  BY DEF WriteCtrl, At
<1>1. d \in Domain /\ Writing(d) /\ OutputName \in Name
  BY <1>0, OutputFacts DEF Writing
<1>2. StateTyped' /\ CountInv' /\ TurnInv' /\ TokenInv'
  BY <1>0, <1>1, InTypeStep
<1>3. [state |-> OutputName, cycle |-> cycle, counter |-> counter, groups |-> job.groups]
        \in [state : Name \cup {None, Torn}, cycle : 0 .. MaxCycle,
             counter : 0 .. MaxCycle, groups : 1 .. MaxDomains]
  BY <1>1 DEF StateTyped, IInv
<1>4. FilesTyped'
  BY <1>0, <1>1, <1>3 DEF FilesTyped, IInv
<1>5. \A s \in Name : /\ s # OutputName => ctrl'[s] = ctrl[s]
                      /\ s = OutputName => ctrl'[s].cycle = cycle /\ ctrl'[s].counter = counter
  BY <1>0, <1>1 DEF FilesTyped, IInv
<1>6. RunInv'
  BY <1>0, <1>5 DEF RunInv, IInv, same, run, input
<1> QED BY <1>2, <1>4, <1>6 DEF IInv

\* The file f of the set being written becomes v, the others stay.
LEMMA DataStep ==
  ASSUME IInv, phase = "output", NEW f \in Segments, NEW v \in FileType,
         v.head.count \in Nat => v.head.segments # 0,
         data' = [data EXCEPT ![OutputName][f] = v],
         UNCHANGED <<ctrl, latest, same>>
  PROVE  /\ FilesTyped' /\ RunInv'
         /\ \A s \in Name, g \in Segments :
              data'[s][g] = (IF s = OutputName /\ g = f THEN v ELSE data[s][g])
<1>1. OutputName \in Name
  BY OutputFacts
<1>2. data \in [Name -> [Segments -> FileType]]
  BY DEF FilesTyped, IInv
<1>3. /\ data' \in [Name -> [Segments -> FileType]]
      /\ \A s \in Name, g \in Segments :
           data'[s][g] = (IF s = OutputName /\ g = f THEN v ELSE data[s][g])
  BY <1>1, <1>2
<1>4. FilesTyped'
  BY <1>3 DEF FilesTyped, IInv
<1>5. RunInv'
  BY <1>3 DEF RunInv, IInv, same, run, input
<1> QED BY <1>3, <1>4, <1>5

\* The first domain of a group empties the file of the group.
LEMMA OpenDataStep ==
  ASSUME IInv, NEW d \in AllDomains, OpenData(d)
  PROVE  /\ IInv'
         /\ \A s \in Name, g \in Segments :
              data'[s][g] = (IF s = OutputName /\ g = MyFile(d) THEN NewFile
                             ELSE data[s][g])
<1>0. /\ phase = "output" /\ pc[d] = "data"
      /\ data' = [data EXCEPT ![OutputName][MyFile(d)] = NewFile]
      /\ pc' = [pc EXCEPT ![d] = "write"]
      /\ UNCHANGED <<ctrl, latest, turn, tokens, same>>
  BY DEF OpenData, At
<1>1. d \in Domain /\ Writing(d) /\ MyFile(d) \in Segments
  BY <1>0, OutputFacts DEF Writing
<1>2. StateTyped' /\ CountInv' /\ TurnInv' /\ TokenInv'
  BY <1>0, <1>1, InTypeStep
<1>3. NewFile \in FileType /\ ~(NewFile.head.count \in Nat)
  <2>1. <<>> \in Seq(Line) /\ 0 \in 0 .. MaxDomains
    BY Sizes
  <2> QED BY <2>1 DEF NewFile, FileType, Prologue, Torn
<1>4. /\ FilesTyped' /\ RunInv'
      /\ \A s \in Name, g \in Segments :
           data'[s][g] = (IF s = OutputName /\ g = MyFile(d) THEN NewFile
                          ELSE data[s][g])
  BY <1>0, <1>1, <1>3, DataStep
<1> QED BY <1>2, <1>4 DEF IInv

\* What a domain leaves in its file.
Appended(d) ==
  [head |-> IF d = 0 THEN Prologue(NodeCount, job.groups)
            ELSE data[OutputName][MyFile(d)].head,
   body |-> data[OutputName][MyFile(d)].body \o Lines(d)]

\* A domain adds its lines to the file of its group, and nothing else.
LEMMA WriteTypeFiles ==
  ASSUME IInv, NEW d \in AllDomains, WriteType(d)
  PROVE  /\ FilesTyped' /\ RunInv'
         /\ \A s \in Name, g \in Segments :
              data'[s][g] = (IF Type(d) = "restart" /\ s = OutputName /\ g = MyFile(d)
                             THEN Appended(d) ELSE data[s][g])
<1>0. /\ phase = "output" /\ pc[d] = "write" /\ UNCHANGED <<ctrl, latest, same>>
      /\ data' = IF Type(d) # "restart" THEN data
                 ELSE [data EXCEPT ![OutputName][MyFile(d)] =
                         [head |-> IF d = 0
                                   THEN Prologue(NodeCount, job.groups)
                                   ELSE @.head,
                          body |-> @.body \o Lines(d)]]
  BY DEF WriteType, At
<1>1. d \in Domain /\ MyFile(d) \in Segments /\ OutputName \in Name
  BY <1>0, OutputFacts
<1>2. CASE Type(d) # "restart"
  <2>1. data' = data
    BY <1>0, <1>2
  <2>2. FilesTyped' /\ RunInv'
    BY <1>0, <2>1 DEF FilesTyped, RunInv, IInv, same, run, input
  <2> QED BY <1>2, <2>1, <2>2
<1>3. CASE Type(d) = "restart"
  <2>1. data' = [data EXCEPT ![OutputName][MyFile(d)] = Appended(d)]
    BY <1>0, <1>1, <1>3 DEF Appended, FilesTyped, IInv
  <2>2. data[OutputName][MyFile(d)] \in FileType
    BY <1>1 DEF FilesTyped, IInv
  <2>3. Prologue(NodeCount, job.groups) \in [count : {None, Torn} \cup 0 .. Cardinality(Node),
                                             segments : 0 .. MaxDomains]
        /\ Prologue(NodeCount, job.groups).segments # 0
    <3>1. NodeCount \in Nat /\ NodeCount <= Cardinality(Node)
      BY <1>0, Counted DEF IInv, CountInv
    <3>2. Cardinality(Node) \in Nat
      BY NodesAssumption, FS_CardinalityType
    <3>3. job.groups \in 1 .. MaxDomains
      BY Domains DEF IInv
    <3> QED BY <3>1, <3>2, <3>3, Sizes DEF Prologue
  <2>4. Lines(d) \in Seq(Line)
    BY LinesOf DEF IInv
  <2>5. data[OutputName][MyFile(d)].body \o Lines(d) \in Seq(Line)
    BY <2>2, <2>4, Concatenation DEF FileType
  <2>6. Appended(d) \in FileType
    BY <2>2, <2>3, <2>5 DEF Appended, FileType
  <2>7. Appended(d).head.count \in Nat => Appended(d).head.segments # 0
    BY <1>1, <2>3 DEF Appended, RunInv, IInv
  <2>8. /\ FilesTyped' /\ RunInv'
        /\ \A s \in Name, g \in Segments :
             data'[s][g] = (IF s = OutputName /\ g = MyFile(d) THEN Appended(d)
                            ELSE data[s][g])
    BY <1>0, <1>1, <2>1, <2>6, <2>7, DataStep
  <2> QED BY <1>3, <2>8
<1> QED BY <1>2, <1>3

\* A domain writes and hands the token on.
LEMMA WriteTypeStep ==
  ASSUME IInv, NEW d \in AllDomains, WriteType(d) PROVE IInv'
<1> USE Sizes
<1>0. /\ phase = "output" /\ pc[d] = "write" /\ UNCHANGED same
      /\ tokens' = [e \in AllDomains |->
                      IF e \in TokenTo(d) THEN tokens[e] + 1 ELSE tokens[e]]
      /\ turn' = [turn EXCEPT ![d] = @ + 1]
      /\ pc' = [pc EXCEPT ![d] = IF turn[d] < Len(outs) THEN "turn" ELSE AfterTypes]
  BY DEF WriteType, At
<1>1. d \in Domain /\ Writing(d) /\ Busy(d) /\ turn[d] \in 1 .. Len(outs)
      /\ Len(outs) \in Nat
  BY <1>0, OutputFacts DEF Writing, Busy
<1>2. /\ Domain' = Domain /\ CountInv' /\ phase' = "output" /\ outs' = outs
      /\ \A e \in AllDomains : (NeedsToken(e)' <=> NeedsToken(e))
  BY <1>0, Frame DEF same
<1>3. FilesTyped' /\ RunInv'
  BY WriteTypeFiles
<1>4. PICK a \in {"turn", "barrier", "done"} :
        /\ a = "turn" <=> turn[d] < Len(outs)
        /\ \A e \in AllDomains : pc'[e] = (IF e = d THEN a ELSE pc[e])
        /\ pc' = [pc EXCEPT ![d] = a]
  <2> DEFINE a == IF turn[d] < Len(outs) THEN "turn" ELSE AfterTypes
  <2>1. a \in {"turn", "barrier", "done"} /\ (a = "turn" <=> turn[d] < Len(outs))
    BY DEF AfterTypes
  <2> HIDE DEF a
  <2>2. pc' = [pc EXCEPT ![d] = a]
    BY <1>0 DEF a
  <2>3. \A e \in AllDomains : pc'[e] = (IF e = d THEN a ELSE pc[e])
    BY <1>0, <2>2, OutputFacts
  <2> QED BY <2>1, <2>2, <2>3
<1>5. \A e \in AllDomains : turn'[e] = (IF e = d THEN turn[e] + 1 ELSE turn[e])
  BY <1>0, OutputFacts
<1>6. /\ \A e \in AllDomains \ {d} : (Busy(e)' <=> Busy(e)) /\ (Writing(e)' <=> Writing(e))
      /\ ~Writing(d)' /\ (Busy(d)' <=> turn[d] < Len(outs))
  BY <1>4 DEF Busy, Writing
<1>7. StateTyped'
  <2>1. pc' \in [AllDomains -> {"turn", "ctrl", "params", "data", "write",
                                "barrier", "latest", "name", "done"}]
    BY <1>0, <1>4, OutputFacts
  <2>2. turn' \in [AllDomains -> Nat]
    BY <1>0, OutputFacts
  <2>3. tokens' \in [AllDomains -> Nat]
    BY <1>0, OutputFacts
  <2> QED BY <1>0, <2>1, <2>2, <2>3, Frame
<1>8. TurnInv'
  <2>1. \A e \in AllDomains : e \notin Domain' => pc'[e] = "done"
    BY <1>1, <1>2, <1>4 DEF TurnInv, IInv
  <2>2. \A e \in AllDomains : pc'[e] \in {"latest", "name"} => e = 0
    BY <1>4 DEF TurnInv, IInv
  <2>3. ASSUME NEW e \in Domain'
        PROVE  turn'[e] \in 1 .. Len(outs') + 1 /\ (Busy(e)' <=> turn'[e] <= Len(outs'))
    <3>1. e \in Domain /\ e \in AllDomains
      BY <1>0, <1>2, OutputFacts
    <3>2. CASE e = d
      BY <1>1, <1>2, <1>5, <1>6, <3>1, <3>2
    <3>3. CASE e # d
      BY <1>0, <1>2, <1>5, <1>6, <3>1, <3>3, OutputFacts
    <3> QED BY <3>2, <3>3
  <2> QED BY <1>0, <1>2, <2>1, <2>2, <2>3 DEF TurnInv, IInv
<1>9. TokenInv'
  <2> SUFFICES ASSUME NEW e \in AllDomains PROVE tokens'[e] = Due(e)'
    BY DEF TokenInv
  <2>1. tokens[e] = Due(e)
    BY DEF TokenInv, IInv
  <2>2. tokens'[e] = IF e \in TokenTo(d) THEN tokens[e] + 1 ELSE tokens[e]
    BY <1>0
  <2>3. d \in Nat /\ e \in Nat
    OBVIOUS
  <2>4. CASE e \in Domain /\ NeedsToken(e)
    <3>1. /\ Due(e) = turn[e - 1] - turn[e] - (IF Writing(e) THEN 1 ELSE 0)
          /\ Due(e)' = turn'[e - 1] - turn'[e] - (IF Writing(e)' THEN 1 ELSE 0)
      BY <1>0, <1>2, <2>4 DEF Due
    <3>2. turn[e - 1] \in Int /\ turn[e] \in Int /\ tokens[e] \in Int
          /\ e - 1 \in Domain /\ e - 1 \in AllDomains
      BY <1>0, <2>4, OutputFacts
    <3>3. e \in TokenTo(d) <=> e - 1 = d
      <4>1. SendsToken(e - 1)
        BY <2>4, Domains, Neighbours DEF IInv
      <4> QED BY <2>3, <4>1 DEF TokenTo
    <3>4. turn'[e - 1] = (IF e - 1 = d THEN turn[e - 1] + 1 ELSE turn[e - 1])
      BY <1>5, <3>2
    <3>5. CASE e = d
      <4>1. Writing(e) /\ ~Writing(e)' /\ turn'[e] = turn[e] + 1 /\ e - 1 # d
        BY <1>1, <1>5, <1>6, <2>3, <3>5
      <4> QED BY <2>1, <2>2, <3>1, <3>2, <3>3, <3>4, <4>1
    <3>6. CASE e # d
      <4>1. (Writing(e)' <=> Writing(e)) /\ turn'[e] = turn[e]
        BY <1>5, <1>6, <3>6
      <4> QED BY <2>1, <2>2, <3>1, <3>2, <3>3, <3>4, <4>1
    <3> QED BY <3>5, <3>6
  <2>5. CASE ~(e \in Domain /\ NeedsToken(e))
    <3>1. Due(e) = 0 /\ Due(e)' = 0
      BY <1>2, <2>5 DEF Due
    <3>2. e \notin TokenTo(d)
      <4>1. SendsToken(d) => d + 1 \in Domain /\ NeedsToken(d + 1)
        BY <1>1, Domains, Neighbours DEF IInv
      <4> QED BY <2>5, <4>1 DEF TokenTo
    <3> QED BY <2>1, <2>2, <3>1, <3>2
  <2> QED BY <2>4, <2>5
<1> QED BY <1>2, <1>3, <1>7, <1>8, <1>9 DEF IInv

\* The end of an output: no domain has a type left, no token is on its way.
LEMMA EndStep ==
  ASSUME IInv, phase = "output", UNCHANGED <<turn, tokens, same>>,
         FilesTyped', RunInv',
         pc' \in [AllDomains -> {"turn", "ctrl", "params", "data", "write",
                                 "barrier", "latest", "name", "done"}],
         \A e \in AllDomains : /\ Busy(e)' <=> Busy(e)
                               /\ Writing(e)' <=> Writing(e)
                               /\ pc[e] = "done" => pc'[e] = "done"
                               /\ pc'[e] \in {"latest", "name"} => e = 0
  PROVE  IInv'
<1>1. /\ Domain' = Domain /\ CountInv' /\ phase' = "output" /\ outs' = outs
      /\ \A e \in AllDomains : (NeedsToken(e)' <=> NeedsToken(e))
  BY Frame DEF same
<1>2. StateTyped'
  BY Frame, OutputFacts
<1>3. TurnInv'
  <2>1. \A e \in AllDomains : e \notin Domain' => pc'[e] = "done"
    BY <1>1 DEF TurnInv, IInv
  <2>2. \A e \in Domain' : turn'[e] \in 1 .. Len(outs') + 1
                           /\ (Busy(e)' <=> turn'[e] <= Len(outs'))
    BY <1>1, OutputFacts
  <2> QED BY <1>1, <2>1, <2>2 DEF TurnInv, IInv
<1>4. TokenInv'
  <2> SUFFICES ASSUME NEW e \in AllDomains PROVE tokens'[e] = Due(e)'
    BY DEF TokenInv
  <2>1. Due(e)' = Due(e)
    BY <1>1 DEF Due
  <2> QED BY <2>1 DEF TokenInv, IInv
<1> QED BY <1>1, <1>2, <1>3, <1>4 DEF IInv

\* The barrier.
LEMMA BarrierStep == ASSUME IInv, Barrier PROVE IInv'
<1> USE Sizes
<1>0. /\ phase = "output" /\ pc[0] = "barrier"
      /\ pc' = [d \in AllDomains |-> IF d = 0 THEN "latest" ELSE
                   IF pc[d] = "barrier" THEN "done" ELSE pc[d]]
      /\ UNCHANGED <<files, turn, tokens, same>>
  BY DEF Barrier
<1>1. FilesTyped' /\ RunInv'
  BY <1>0 DEF FilesTyped, RunInv, IInv, files, same, run, input
<1>2. pc' \in [AllDomains -> {"turn", "ctrl", "params", "data", "write",
                              "barrier", "latest", "name", "done"}]
  BY <1>0, OutputFacts
<1>3. ASSUME NEW e \in AllDomains
      PROVE  /\ Busy(e)' <=> Busy(e)
             /\ Writing(e)' <=> Writing(e)
             /\ pc[e] = "done" => pc'[e] = "done"
             /\ pc'[e] \in {"latest", "name"} => e = 0
  <2>1. pc'[e] = IF e = 0 THEN "latest" ELSE IF pc[e] = "barrier" THEN "done" ELSE pc[e]
    BY <1>0
  <2>2. pc[e] \in {"latest", "name"} => e = 0
    BY DEF TurnInv, IInv
  <2> QED BY <1>0, <2>1, <2>2 DEF Busy, Writing
<1> QED BY <1>0, <1>1, <1>2, <1>3, EndStep

\* The name of the set is written.
LEMMA SetLatestStep == ASSUME IInv, SetLatestRestart PROVE IInv'
<1> USE Sizes
<1>0. /\ phase = "output" /\ pc[0] \in {"latest", "name"}
      /\ latest' \in {Torn, OutputName}
      /\ UNCHANGED <<ctrl, data, turn, tokens, same>>
  BY DEF SetLatestRestart
<1>1. PICK a \in {"name", "done"} : pc' = [pc EXCEPT ![0] = a]
  BY DEF SetLatestRestart
<1>2. FilesTyped' /\ RunInv'
  BY <1>0, OutputFacts DEF FilesTyped, RunInv, IInv, same, run, input
<1>3. pc' \in [AllDomains -> {"turn", "ctrl", "params", "data", "write",
                              "barrier", "latest", "name", "done"}]
  BY <1>0, <1>1, OutputFacts
<1>4. ASSUME NEW e \in AllDomains
      PROVE  /\ Busy(e)' <=> Busy(e)
             /\ Writing(e)' <=> Writing(e)
             /\ pc[e] = "done" => pc'[e] = "done"
             /\ pc'[e] \in {"latest", "name"} => e = 0
  <2>1. pc'[e] = IF e = 0 THEN a ELSE pc[e]
    BY <1>0, <1>1, OutputFacts
  <2>2. pc[e] \in {"latest", "name"} => e = 0
    BY DEF TurnInv, IInv
  <2> QED BY <1>0, <2>1, <2>2 DEF Busy, Writing
<1> QED BY <1>0, <1>2, <1>3, <1>4, EndStep

\* The end of an output.
LEMMA OutputDoneStep == ASSUME IInv, OutputDone PROVE IInv'
<1> USE Sizes DEF IInv
<1>0. phase = "output" /\ \A d \in Domain : pc[d] = "done"
  BY DEF OutputDone
<1>1. CASE stage = "term"
  BY <1>1, DownStep DEF OutputDone
<1>2. CASE stage # "term"
  <2>1. phase' = "loop" /\ UNCHANGED <<files, run, cycle, counter, stage, outs, net,
                                       input, io>>
    BY <1>2 DEF OutputDone
  <2>2. FilesTyped' /\ RunInv' /\ StateTyped'
    BY <1>0, <2>1 DEF FilesTyped, RunInv, StateTyped, files, run, input, io
  <2>3. CountInv'
    BY <1>0, <2>1 DEF CountInv, NodeCount, Domain, run
  <2>4. \A d \in AllDomains : pc[d] = "done"
    BY <1>0, OutputFacts
  <2>5. TurnInv'
    BY <2>1, <2>4 DEF TurnInv, io
  <2>6. TokenInv'
    <3> SUFFICES ASSUME NEW e \in AllDomains PROVE tokens[e] = 0
      BY <2>1 DEF TokenInv, Due, io
    <3>1. \A d \in Domain : turn[d] = Len(outs) + 1 /\ ~Writing(d) /\ Len(outs) \in Nat
      BY <1>0, OutputFacts DEF Busy, Writing
    <3>2. CASE e \in Domain /\ NeedsToken(e)
      <4>1. e - 1 \in Domain /\ tokens[e] = turn[e - 1] - turn[e] - 0
        BY <1>0, <3>1, <3>2, OutputFacts
      <4>2. turn[e - 1] = Len(outs) + 1 /\ turn[e] = Len(outs) + 1 /\ Len(outs) \in Nat
        BY <3>1, <3>2, <4>1
      <4> QED BY <4>1, <4>2
    <3>3. CASE ~(e \in Domain /\ NeedsToken(e))
      BY <3>3 DEF TokenInv, Due
    <3> QED BY <3>2, <3>3
  <2> QED BY <2>2, <2>3, <2>5, <2>6
<1> QED BY <1>1, <1>2

\* Stuttering.
LEMMA StutterStep == ASSUME IInv, UNCHANGED vars PROVE IInv'
<1> USE DEF vars, files, run, input, io
<1>1. FilesTyped' /\ StateTyped' /\ RunInv'
  BY DEF IInv, FilesTyped, StateTyped, RunInv
<1>2. CountInv' /\ TurnInv' /\ TokenInv'
  BY DEF IInv, CountInv, NodeCount, Domain, TurnInv, Busy, Writing, TokenInv, Due,
         NeedsToken, FirstIn, InLarge, Group, SmallGroup, LargeGroup, LargeCount
<1> QED BY <1>1, <1>2 DEF IInv

\* Every step keeps the inductive invariant.
LEMMA NextInv == IInv /\ [Next]_vars => IInv'
<1> SUFFICES ASSUME IInv, [Next]_vars PROVE IInv'
  OBVIOUS
<1>1. ASSUME NEW d \in AllDomains, DomainStep(d) PROVE IInv'
  BY <1>1, TakeTurnStep, OpenCtrlStep, WriteCtrlStep, OpenDataStep, WriteTypeStep
     DEF DomainStep
<1>2. CASE Progress
  BY <1>1, <1>2, ReadBlockStep, ReadDoneStep, BarrierStep, SetLatestStep, OutputDoneStep
     DEF Progress
<1> QED BY <1>2, BeginStep, StartAgainStep, DislocStepStep, FinishStep, CrashStep,
           StutterStep DEF Next

\* The inductive invariant holds in every reachable state.
LEMMA Invariance == Spec => []IInv
<1> QED BY InitInv, NextInv, PTL DEF Spec

\* The inductive invariant bounds the tokens.
LEMMA TokensBounded == IInv => TypeOK
<1> SUFFICES ASSUME IInv, NEW d \in AllDomains
             PROVE  tokens[d] <= IF pc[d] = "turn" THEN Len(outs) - turn[d] + 1
                                 ELSE IF pc[d] \in {"ctrl", "params", "data", "write"}
                                 THEN Len(outs) - turn[d] ELSE 0
  BY DEF TypeOK, IInv
<1>1. tokens[d] = Due(d) /\ tokens[d] \in Nat
  BY DEF IInv, TokenInv, StateTyped
<1>2. CASE phase # "output" \/ d \notin Domain
  <2>1. pc[d] = "done" /\ Due(d) = 0
    BY <1>2 DEF IInv, TurnInv, Due
  <2> QED BY <1>1, <2>1
<1>3. CASE phase = "output" /\ d \in Domain
  <2>1. /\ turn[d] \in 1 .. Len(outs) + 1 /\ Len(outs) \in Nat
        /\ Busy(d) <=> turn[d] <= Len(outs)
    BY <1>3, OutputFacts
  <2>2. CASE NeedsToken(d)
    <3>1. d - 1 \in Domain /\ turn[d - 1] \in 1 .. Len(outs) + 1
          /\ tokens[d] = turn[d - 1] - turn[d] - (IF Writing(d) THEN 1 ELSE 0)
      BY <1>3, <2>2, OutputFacts
    <3>2. CASE Writing(d)
      BY <2>1, <3>1, <3>2 DEF Writing
    <3>3. CASE pc[d] = "turn"
      BY <2>1, <3>1, <3>3 DEF Writing
    <3>4. CASE ~Busy(d)
      BY <1>1, <2>1, <3>1, <3>4 DEF Writing, Busy
    <3> QED BY <3>2, <3>3, <3>4 DEF Busy
  <2>3. CASE ~NeedsToken(d)
    <3>1. tokens[d] = 0
      BY <1>1, <2>3 DEF Due
    <3> QED BY <2>1, <3>1 DEF Busy, Writing
  <2> QED BY <2>2, <2>3
<1> QED BY <1>2, <1>3

\* The types, and the tokens at hand, in every reachable state.
THEOREM RestartTyped == Spec => []TypeOK
BY Invariance, TokensBounded, PTL

\* The counts of tokens keep the domains of a group in order: were some
\* domain ahead of an earlier one, the first such would be ahead of its
\* predecessor, and have fewer than no tokens.
LEMMA InTurnHolds == IInv => InTurn
<1> SUFFICES ASSUME IInv, phase = "output", NEW d \in Domain, NEW e \in Domain,
                    d < e, Group(d) = Group(e)
             PROVE  turn[e] <= turn[d] /\ (Writing(e) => turn[e] < turn[d])
  BY DEF InTurn
<1>0. JobOK /\ \A f \in Domain : f \in Nat /\ f \in AllDomains /\ turn[f] \in Nat
  BY Domains, OutputFacts DEF IInv, Domain
<1>1. ASSUME NEW f \in Domain, NeedsToken(f)
      PROVE  /\ f - 1 \in Domain /\ turn[f] <= turn[f - 1]
             /\ Writing(f) => turn[f] < turn[f - 1]
  <2>1. f - 1 \in Domain
        /\ tokens[f] = turn[f - 1] - turn[f] - (IF Writing(f) THEN 1 ELSE 0)
    BY <1>1, OutputFacts
  <2>2. tokens[f] \in Nat /\ turn[f] \in Nat /\ turn[f - 1] \in Nat
    BY <1>0, <2>1, OutputFacts
  <2> QED BY <2>1, <2>2
<1> DEFINE Bad == {f \in Nat : f \in Domain /\ d < f /\ Group(f) = Group(d) /\ turn[d] < turn[f]}
<1>2. Bad = {}
  <2> SUFFICES ASSUME Bad # {} PROVE FALSE
    OBVIOUS
  <2>0. Bad \subseteq Nat
    OBVIOUS
  <2>1. PICK f \in Bad : \A m \in Bad : f <= m
    <3> HIDE DEF Bad
    <3> QED BY <2>0, LeastNumber
  <2>2. f \in Domain /\ d < f /\ Group(f) = Group(d) /\ turn[d] < turn[f]
    OBVIOUS
  <2>3. NeedsToken(f) /\ Group(f - 1) = Group(d) /\ f - 1 \in Domain /\ d <= f - 1
    <3>1. NeedsToken(f)
      BY <1>0, <2>2, SameGroup
    <3> QED BY <1>0, <2>2, <3>1, Neighbours
  <2>4. turn[f] <= turn[f - 1] /\ f - 1 \in Nat
    BY <1>0, <1>1, <2>2, <2>3
  <2>5. turn[d] < turn[f - 1]
    BY <1>0, <2>2, <2>3, <2>4
  <2>6. f - 1 # d
    BY <1>0, <2>5
  <2>7. f - 1 \in Bad
    BY <1>0, <2>3, <2>4, <2>5, <2>6
  <2> QED BY <1>0, <2>1, <2>2, <2>7
<1>3. NeedsToken(e) /\ Group(e - 1) = Group(d) /\ e - 1 \in Domain /\ d <= e - 1
  <2>1. NeedsToken(e)
    BY <1>0, SameGroup
  <2> QED BY <1>0, <2>1, Neighbours
<1>4. turn[e - 1] <= turn[d]
  <2>1. CASE e - 1 = d
    BY <1>0, <2>1
  <2>2. CASE e - 1 # d
    <3>1. d < e - 1 /\ e - 1 \in Nat
      BY <1>0, <1>3, <2>2
    <3>2. ~(turn[d] < turn[e - 1])
      BY <1>2, <1>3, <3>1
    <3> QED BY <1>0, <1>3, <3>2
  <2> QED BY <2>1, <2>2
<1>5. turn[e] <= turn[e - 1] /\ (Writing(e) => turn[e] < turn[e - 1])
  BY <1>1, <1>3
<1> QED BY <1>0, <1>3, <1>4, <1>5

\* The domains of a group write their file one at a time and in order, for
\* every type of output, however many domains, groups and types there are.
THEOREM WritersTakeTurns == Spec => []InTurn
BY Invariance, InTurnHolds, PTL

-----------------------------------------------------------------------------
(* What a set holds.                                                       *)

\* Each node in the domain its place gives; so no line is in two domains.
PlaceInv ==
  /\ phase = "down" => \A d \in AllDomains : net[d] = {}
  /\ phase = "read" =>
       \A d \in AllDomains : \A l \in net[d] : place[l[1]] % job.domains = d
  /\ phase \in {"loop", "output"} =>
       \A d, e \in AllDomains : d # e => net[d] \cap net[e] = {}

\* Who is where in an output, and what it may rely on.
OutputInv ==
  phase = "output" =>
    /\ \A d \in Domain :
         /\ pc[d] \in {"ctrl", "params"} => d = 0 /\ turn[d] = 1
         /\ pc[d] = "data" => d = FirstIn(d) /\ turn[d] = 1
         /\ pc[d] \in {"ctrl", "params", "data", "barrier", "latest", "name"}
              => WithRestart(outs)
    /\ pc[0] \in {"latest", "name"} => \A d \in Domain : ~Busy(d)

\* A file has been emptied, and then holds what its domains have written.
Emptied(f) == turn[f] > 1 \/ pc[f] = "write"
FileHolds(d) ==
  LET body == data[OutputName][MyFile(d)].body
  IN /\ IsInjective(body)
     /\ \A l \in Line : l \in ToSet(body) <=>
                 \E e \in Domain : /\ Group(e) = Group(d) /\ turn[e] > 1
                                   /\ l \in net[e]
CtrlHolds ==
  ctrl[OutputName] = [state |-> OutputName, cycle |-> cycle,
                      counter |-> counter, groups |-> job.groups]
SaveInv ==
  phase = "output" /\ WithRestart(outs) =>
    /\ turn[0] > 1 \/ pc[0] \in {"data", "write"} => CtrlHolds
    /\ turn[0] > 1 => data[OutputName][MyFile(0)].head =
                        Prologue(NodeCount, job.groups)
    /\ \A d \in Domain : Emptied(FirstIn(d)) => FileHolds(d)

\* The numbered set that is named is an earlier one than the one written.
NamedInv ==
  /\ starts = 0 => phase = "down" /\ latest = None
  /\ latest \in Number =>
       /\ ctrl[latest].counter = latest
       /\ phase # "down" => latest <= counter
       /\ phase = "output" /\ WithRestart(outs) /\ (\E d \in Domain : Busy(d))
            => latest # OutputName

SInv == PlaceInv /\ OutputInv /\ SaveInv /\ NamedInv

\* The first domain of a group is in the group.
LEMMA FirstOf ==
  ASSUME JobOK, NEW d \in Domain
  PROVE  /\ FirstIn(d) \in Domain /\ Group(FirstIn(d)) = Group(d)
         /\ FirstIn(FirstIn(d)) = FirstIn(d) /\ FirstIn(d) <= d
         /\ d = 0 => FirstIn(d) = 0
<1>1. /\ Group(d) \in 0 .. job.groups - 1
      /\ FirstIn(d) = Start(Group(d)) /\ FirstIn(d) <= d
  BY GroupOf
<1>2. Start(Group(d)) \in Nat /\ Width(Group(d)) \in Nat \ {0}
  BY <1>1, Starts
<1>3. FirstIn(d) \in Domain /\ Group(FirstIn(d)) = Group(d)
  BY <1>1, <1>2, GroupIs
<1>4. FirstIn(FirstIn(d)) = FirstIn(d)
  BY <1>3, SameGroup
<1> QED BY <1>1, <1>2, <1>3, <1>4

\* Every group has a file of its own.
LEMMA OneFileEach ==
  ASSUME JobOK, NEW d \in Domain, NEW e \in Domain
  PROVE  /\ MyFile(d) = MyFile(e) <=> Group(d) = Group(e)
         /\ Group(d) = Group(e) => FirstIn(d) = FirstIn(e)
         /\ FirstIn(d) = FirstIn(e) => Group(d) = Group(e)
<1>1. Group(d) \in 0 .. job.groups - 1 /\ Group(e) \in 0 .. job.groups - 1
      /\ job.groups \in Nat
  BY GroupOf DEF JobOK
<1>2. MyFile(d) = MyFile(e) <=> Group(d) = Group(e)
  BY <1>1 DEF MyFile, File
<1> QED BY <1>2, SameGroup, FirstOf

\* What the definitions say does not change within an output.
LEMMA Alike ==
  ASSUME UNCHANGED same
  PROVE  /\ Domain' = Domain /\ OutputName' = OutputName /\ NodeCount' = NodeCount
         /\ outs' = outs /\ net' = net /\ job' = job /\ cycle' = cycle
         /\ counter' = counter /\ phase' = phase /\ place' = place
         /\ WithRestart(outs)' = WithRestart(outs)
         /\ \A d : /\ MyFile(d)' = MyFile(d) /\ Group(d)' = Group(d)
                   /\ FirstIn(d)' = FirstIn(d) /\ Lines(d)' = Lines(d)
<1> USE DEF same, run, input
<1>1. /\ Domain' = Domain /\ OutputName' = OutputName /\ NodeCount' = NodeCount
      /\ outs' = outs /\ net' = net /\ job' = job /\ cycle' = cycle
      /\ counter' = counter /\ phase' = phase /\ place' = place
      /\ WithRestart(outs)' = WithRestart(outs)
  BY DEF Domain, OutputName, NodeCount, WithRestart
<1>2. ASSUME NEW d
      PROVE  /\ Group(d)' = Group(d) /\ FirstIn(d)' = FirstIn(d)
             /\ Lines(d)' = Lines(d)
  BY DEF Group, FirstIn, Lines, InLarge, SmallGroup, LargeGroup, LargeCount
<1>3. ASSUME NEW d PROVE MyFile(d)' = MyFile(d)
  BY <1>2 DEF MyFile
<1> QED BY <1>1, <1>2, <1>3

\* Where the lines are, through every step.
LEMMA PlaceStep == IInv /\ PlaceInv /\ [Next]_vars => PlaceInv'
<1> SUFFICES ASSUME IInv, PlaceInv, [Next]_vars PROVE PlaceInv'
  OBVIOUS
<1> DEFINE Apart(n) == \A d, e \in AllDomains : d # e => n[d] \cap n[e] = {}
<1>1. ASSUME NEW w \in Networks, NEW n \in Nat \ {0}, NEW c \in 0 .. MaxCycle
      PROVE  Apart(Distribute(w, n, c))
  <2> SUFFICES ASSUME NEW d \in AllDomains, NEW e \in AllDomains, d # e,
                      NEW l \in Distribute(w, n, c)[d], l \in Distribute(w, n, c)[e]
               PROVE  FALSE
    OBVIOUS
  <2>1. w.place[l[1]] % n = d /\ w.place[l[1]] % n = e
    BY Distributed
  <2> QED BY <2>1
<1>2. CASE UNCHANGED vars
  BY <1>2 DEF PlaceInv, vars, run, input
<1>3. CASE Begin
  <2>1. PICK j \in Jobs, w \in Networks : net' = Distribute(w, j.domains, 0)
    BY <1>3 DEF Begin
  <2>2. phase' = "loop" /\ j.domains \in Nat \ {0} /\ 0 \in 0 .. MaxCycle
    BY <1>3, Sizes, BoundsAssumption DEF Begin
  <2>3. Apart(net')
    BY <1>1, <2>1, <2>2
  <2> QED BY <2>2, <2>3 DEF PlaceInv
<1>4. CASE StartAgain
  <2>1. phase = "down" /\ net' = net /\ phase' \in {"read", "fatal"}
    BY <1>4 DEF StartAgain
  <2> QED BY <2>1 DEF PlaceInv
<1>5. CASE DislocStep
  <2>1. PICK w \in Networks : net' = Distribute(w, job.domains, cycle')
    BY <1>5 DEF DislocStep
  <2>2. phase' \in {"loop", "output"}
    BY <1>5 DEF DislocStep, Enter
  <2>3. cycle' \in 0 .. MaxCycle
    BY <1>5, BoundsAssumption DEF DislocStep, IInv, StateTyped
  <2>4. job.domains \in Nat \ {0}
    BY Sizes, Domains DEF IInv
  <2>5. Apart(net')
    BY <1>1, <2>1, <2>3, <2>4
  <2> QED BY <2>2, <2>5 DEF PlaceInv
<1>6. CASE Finish
  <2>1. phase = "loop" /\ net' = net /\ phase' = "output"
    BY <1>6 DEF Finish, Enter
  <2> QED BY <2>1 DEF PlaceInv
<1>7. ASSUME Down PROVE PlaceInv'
  BY <1>7 DEF PlaceInv, Down
<1>8. CASE ReadBlock
  <2>1. phase = "read" /\ phase' = "read" /\ place' = place /\ job' = job
    BY <1>8 DEF ReadBlock, run
  <2>2. ASSUME NEW d \in AllDomains, NEW l \in net'[d]
        PROVE  place[l[1]] % job.domains = d
    <3> DEFINE Sent(e) == {unread[e][i] : i \in {k \in 1 .. Block(e) :
                             place[unread[e][k][1]] % job.domains = d}}
    <3>1. net'[d] = net[d] \cup UNION {Sent(e) : e \in Domain}
      BY <1>8 DEF ReadBlock
    <3>2. CASE l \in net[d]
      BY <2>1, <3>2 DEF PlaceInv
    <3>3. CASE \E e \in Domain : l \in Sent(e)
      BY <3>3
    <3> QED BY <2>2, <3>1, <3>2, <3>3
  <2> QED BY <2>1, <2>2 DEF PlaceInv
<1>9. CASE ReadDone
  <2>1. phase = "read" /\ phase' \in {"loop", "fatal"} /\ net' = net
    BY <1>9 DEF ReadDone
  <2>2. Apart(net)
    BY <2>1 DEF PlaceInv
  <2> QED BY <2>1, <2>2 DEF PlaceInv
<1>10. ASSUME phase = "output", UNCHANGED same PROVE PlaceInv'
  BY <1>10 DEF PlaceInv, same, run, input
<1>11. ASSUME NEW d \in AllDomains, DomainStep(d) PROVE PlaceInv'
  BY <1>10, <1>11 DEF DomainStep, TakeTurn, OpenCtrl, WriteCtrl, OpenData, WriteType, At
<1>12. CASE Barrier \/ SetLatestRestart
  BY <1>10, <1>12 DEF Barrier, SetLatestRestart
<1>13. CASE OutputDone
  <2>1. CASE stage = "term"
    BY <1>7, <1>13, <2>1 DEF OutputDone
  <2>2. CASE stage # "term"
    <3>1. phase = "output" /\ phase' = "loop" /\ net' = net
      BY <1>13, <2>2 DEF OutputDone
    <3> QED BY <3>1 DEF PlaceInv
  <2> QED BY <2>1, <2>2
<1>14. CASE Crash
  BY <1>7, <1>14 DEF Crash
<1> QED BY <1>2, <1>3, <1>4, <1>5, <1>6, <1>8, <1>9, <1>11, <1>12, <1>13, <1>14
        DEF Next, Progress

\* Steps that do not end in an output leave no set half written.
LEMMA AwayStep ==
  ASSUME IInv, SInv, phase' # "output", files' = files, starts' # 0,
         \/ phase' = "down"
         \/ counter' = counter /\ phase # "down"
         \/ origin' = latest /\ latest \in Name /\ counter' = ctrl[latest].counter
         \/ latest = None
  PROVE  OutputInv' /\ SaveInv' /\ NamedInv'
<1>1. OutputInv' /\ SaveInv'
  BY DEF OutputInv, SaveInv
<1>2. ctrl' = ctrl /\ latest' = latest
  BY DEF files
<1>3. Number \subseteq Nat /\ (latest = None => latest \notin Number)
  BY DEF Number, None
<1>4. latest \in Number => ctrl[latest].counter = latest /\ (phase # "down" => latest <= counter)
  BY DEF SInv, NamedInv
<1>5. NamedInv'
  <2>1. ASSUME latest \in Number, phase' # "down"
        PROVE  ctrl[latest].counter = latest /\ latest <= counter'
    <3>1. latest \in Nat /\ latest # None
      BY <1>3, <2>1
    <3> QED BY <1>4, <2>1, <3>1
  <2>2. latest \in Number => ctrl[latest].counter = latest
    BY <1>4
  <2> QED BY <1>2, <2>1, <2>2 DEF NamedInv
<1> QED BY <1>1, <1>5

\* A call begins with all domains before their first type.
LEMMA EnterSave ==
  ASSUME IInv, SInv, phase = "loop", NEW types \in Outputs, types # <<>>, Enter(types),
         UNCHANGED <<files, run>>,
         counter' = (IF WithRestart(types) /\ stage' = "cycle" THEN counter + 1 ELSE counter),
         stage' \in {"cycle", "term"}
  PROVE  OutputInv' /\ SaveInv' /\ NamedInv'
<1>1. /\ phase' = "output" /\ outs' = types
      /\ turn' = [d \in AllDomains |-> 1]
      /\ pc' = [d \in AllDomains |-> IF d \in Domain THEN "turn" ELSE "done"]
      /\ job' = job /\ Domain' = Domain
  BY DEF Enter, run, Domain
<1>2. Domain \subseteq AllDomains /\ 0 \in Domain
  BY Domains DEF IInv
<1>3. \A d \in Domain : pc'[d] = "turn" /\ turn'[d] = 1
  BY <1>1, <1>2
<1>4. OutputInv'
  BY <1>1, <1>2, <1>3 DEF OutputInv
<1>5. SaveInv'
  <2>1. JobOK' /\ \A d \in Domain' : FirstIn(d)' \in Domain'
    <3>1. JobOK'
      BY <1>1, Domains DEF IInv, JobOK
    <3>2. \A d \in Domain : FirstIn(d) \in Domain
      BY Domains, FirstOf DEF IInv
    <3>3. \A d : FirstIn(d)' = FirstIn(d)
      BY <1>1 DEF FirstIn, InLarge, Group, SmallGroup, LargeGroup, LargeCount
    <3> QED BY <1>1, <3>1, <3>2, <3>3
  <2>2. \A d \in Domain' : ~Emptied(FirstIn(d))'
    <3> SUFFICES ASSUME NEW d \in Domain' PROVE ~Emptied(FirstIn(d))'
      OBVIOUS
    <3>1. FirstIn(d)' \in Domain
      BY <1>1, <2>1
    <3>2. pc'[FirstIn(d)'] = "turn" /\ turn'[FirstIn(d)'] = 1
      BY <1>3, <3>1
    <3> QED BY <3>2 DEF Emptied
  <2>3. turn'[0] = 1 /\ pc'[0] = "turn"
    BY <1>2, <1>3
  <2> QED BY <2>2, <2>3 DEF SaveInv
<1>6. NamedInv'
  <2>1. ctrl' = ctrl /\ latest' = latest
    BY DEF files
  <2>2. ASSUME latest \in Number
        PROVE  /\ ctrl[latest].counter = latest /\ latest <= counter'
               /\ WithRestart(types) => latest # OutputName'
    <3>1. latest \in Nat /\ latest # Final
      BY <2>2, BoundsAssumption DEF Number, Final
    <3>2. ctrl[latest].counter = latest /\ latest <= counter /\ counter \in Nat
      BY <2>2 DEF SInv, NamedInv, IInv, StateTyped
    <3> QED BY <3>1, <3>2 DEF OutputName
  <2>3. starts' # 0
    BY DEF SInv, NamedInv, run
  <2> QED BY <1>1, <2>1, <2>2, <2>3 DEF NamedInv
<1> QED BY <1>4, <1>5, <1>6

\* The steps that no domain takes within an output.
LEMMA OutsideStep ==
  ASSUME IInv, SInv,
         \/ Begin \/ StartAgain \/ DislocStep \/ Finish \/ Crash
         \/ ReadBlock \/ ReadDone \/ OutputDone
  PROVE  OutputInv' /\ SaveInv' /\ NamedInv'
<1>0. /\ starts \in Nat
      /\ phase # "down" => starts # 0
  BY DEF IInv, StateTyped, SInv, NamedInv
<1>1. CASE Begin
  <2>1. phase' = "loop" /\ files' = files /\ starts = 0 /\ starts' = 1
    BY <1>1 DEF Begin
  <2>2. latest = None
    BY <2>1 DEF SInv, NamedInv
  <2> QED BY <2>1, <2>2, AwayStep
<1>2. CASE StartAgain
  <2>1. starts' = starts + 1
    BY <1>2 DEF StartAgain
  <2> QED BY <1>0, <1>2, <2>1, AwayStep DEF StartAgain, SavedCounter
<1>3. CASE DislocStep
  <2>1. PICK types \in Outputs :
          /\ counter' = IF WithRestart(types) THEN counter + 1 ELSE counter
          /\ IF types # <<>> THEN Enter(types) ELSE UNCHANGED <<phase, outs, io>>
    BY <1>3 DEF DislocStep
  <2>2. phase = "loop" /\ stage' = "cycle" /\ UNCHANGED <<files, run>>
    BY <1>3 DEF DislocStep
  <2>3. CASE types # <<>>
    BY <2>1, <2>2, <2>3, EnterSave
  <2>4. CASE types = <<>>
    <3>1. ~WithRestart(types)
      BY <2>4 DEF WithRestart, ToSet
    <3> QED BY <1>0, <2>1, <2>2, <2>4, <3>1, AwayStep DEF run
  <2> QED BY <2>3, <2>4
<1>4. CASE Finish
  <2>1. PICK types \in Outputs : WithRestart(types) /\ Enter(types)
    BY <1>4 DEF Finish
  <2>2. types # <<>>
    BY <2>1 DEF WithRestart, ToSet
  <2>3. phase = "loop" /\ stage' = "term" /\ UNCHANGED <<files, run>> /\ counter' = counter
    BY <1>4 DEF Finish
  <2> QED BY <2>1, <2>2, <2>3, EnterSave
<1>5. CASE Crash
  BY <1>0, <1>5, AwayStep DEF Crash, Down
<1>6. CASE ReadBlock \/ ReadDone
  BY <1>0, <1>6, AwayStep DEF ReadBlock, ReadDone, run
<1>7. CASE OutputDone
  BY <1>0, <1>7, AwayStep DEF OutputDone, Down, run
<1> QED BY <1>1, <1>2, <1>3, <1>4, <1>5, <1>6, <1>7

\* Restart data is the first type of a call that has it, and no other.
LEMMA RestartFirst ==
  ASSUME IInv, phase = "output", NEW d \in Domain, Busy(d)
  PROVE  /\ Type(d) = "restart" => turn[d] = 1 /\ WithRestart(outs)
         /\ WithRestart(outs) => (Type(d) = "restart" <=> turn[d] = 1)
<1>1. turn[d] \in DOMAIN outs
  <2>1. outs \in Seq(STRING)
    BY DEF IInv, StateTyped
  <2> QED BY <2>1, OutputFacts
<1>2. \A i \in DOMAIN outs : (outs[i] = "restart") => i = 1
  BY DEF IInv, TurnInv
<1> QED BY <1>1, <1>2 DEF Type, WithRestart, ToSet

\* A file holds what it held, when no domain of its group writes.
LEMMA FileKept ==
  ASSUME UNCHANGED same, NEW d \in Domain, FileHolds(d),
         data'[OutputName][MyFile(d)] = data[OutputName][MyFile(d)],
         \A e \in Domain : Group(e) = Group(d) => (turn'[e] > 1 <=> turn[e] > 1)
  PROVE  FileHolds(d)'
<1>1. /\ Domain' = Domain /\ OutputName' = OutputName /\ net' = net
      /\ \A e : MyFile(e)' = MyFile(e) /\ Group(e)' = Group(e)
  BY Alike
<1> DEFINE body == data[OutputName][MyFile(d)].body
<1>2. body' = body
  BY <1>1
<1>3. /\ IsInjective(body)
      /\ \A l \in Line : l \in ToSet(body) <=>
           \E e \in Domain : Group(e) = Group(d) /\ turn[e] > 1 /\ l \in net[e]
  BY DEF FileHolds
<1> HIDE DEF body
<1>4. \A l \in Line : (\E e \in Domain' : Group(e)' = Group(d)' /\ turn'[e] > 1 /\ l \in net'[e])
         <=> (\E e \in Domain : Group(e) = Group(d) /\ turn[e] > 1 /\ l \in net[e])
  BY <1>1
<1>5. /\ IsInjective(body')
      /\ \A l \in Line : l \in ToSet(body') <=>
           \E e \in Domain' : Group(e)' = Group(d)' /\ turn'[e] > 1 /\ l \in net'[e]
  BY <1>2, <1>3, <1>4
<1> QED BY <1>5 DEF FileHolds, body

\* A step of a domain that leaves the data files and the turns alone.
LEMMA KeptStep ==
  ASSUME IInv, SInv, phase = "output", UNCHANGED <<data, turn, same>>,
         WithRestart(outs) /\ (turn[0] > 1 \/ pc'[0] \in {"data", "write"}) => CtrlHolds',
         \A f \in Domain : WithRestart(outs) /\ f = FirstIn(f) /\ Emptied(f)'
                            => Emptied(f)
  PROVE  SaveInv'
<1>0. JobOK /\ 0 \in Domain
  BY Domains DEF IInv
<1>1. /\ Domain' = Domain /\ OutputName' = OutputName /\ NodeCount' = NodeCount
      /\ outs' = outs /\ job' = job /\ phase' = phase
      /\ \A e : MyFile(e)' = MyFile(e) /\ FirstIn(e)' = FirstIn(e)
      /\ WithRestart(outs)' = WithRestart(outs)
  BY Alike
<1>2. ASSUME WithRestart(outs), NEW d \in Domain, Emptied(FirstIn(d))'
      PROVE  FileHolds(d)'
  <2>1. FirstIn(d) \in Domain /\ FirstIn(FirstIn(d)) = FirstIn(d)
    BY <1>0, FirstOf
  <2>2. \A f : f = FirstIn(d) => Emptied(f)'
    BY <1>1, <1>2 DEF Emptied
  <2>3. Emptied(FirstIn(d))
    BY <1>2, <2>1, <2>2
  <2>4. FileHolds(d)
    BY <1>2, <2>3 DEF SInv, SaveInv
  <2> QED BY <2>4, FileKept
<1>3. WithRestart(outs) /\ turn[0] > 1 =>
        data[OutputName][MyFile(0)].head = Prologue(NodeCount, job.groups)
  BY DEF SInv, SaveInv
<1>4. WithRestart(outs) /\ turn'[0] > 1 =>
        data'[OutputName'][MyFile(0)'].head = Prologue(NodeCount', job'.groups)
  BY <1>1, <1>3
<1>5. Prologue(NodeCount, job.groups)' = Prologue(NodeCount', job'.groups)
  BY DEF Prologue
<1>6. WithRestart(outs)' /\ turn'[0] > 1 =>
        (data[OutputName][MyFile(0)].head = Prologue(NodeCount, job.groups))'
  BY <1>1, <1>4, <1>5
<1>7. WithRestart(outs)' => \A d \in Domain' : Emptied(FirstIn(d))' => FileHolds(d)'
  BY <1>1, <1>2
<1>8. WithRestart(outs)' => (turn'[0] > 1 \/ pc'[0] \in {"data", "write"} => CtrlHolds')
  BY <1>1
<1> QED BY <1>6, <1>7, <1>8 DEF SaveInv

\* The set that is named, when the domains go on and other sets are written.
LEMMA NamedKept ==
  ASSUME IInv, SInv, phase = "output", UNCHANGED <<latest, same>>,
         latest \in Number => ctrl'[latest].counter = ctrl[latest].counter,
         \A d \in Domain : WithRestart(outs) /\ Busy(d)' => Busy(d)
  PROVE  NamedInv'
<1>1. /\ Domain' = Domain /\ OutputName' = OutputName /\ outs' = outs
      /\ phase' = phase /\ counter' = counter
      /\ WithRestart(outs)' = WithRestart(outs)
  BY Alike
<1>2. starts' = starts
  BY DEF same, run
<1>3. ASSUME latest \in Number, WithRestart(outs), NEW d \in Domain, Busy(d)'
      PROVE  latest # OutputName
  BY <1>3 DEF SInv, NamedInv
<1> QED BY <1>1, <1>2, <1>3 DEF SInv, NamedInv

\* A domain takes its turn: the file it has not emptied is not looked at.
LEMMA TakeTurnSave ==
  ASSUME IInv, SInv, NEW d \in AllDomains, TakeTurn(d)
  PROVE  OutputInv' /\ SaveInv' /\ NamedInv'
<1>0. /\ phase = "output" /\ pc[d] = "turn" /\ turn' = turn /\ files' = files
      /\ UNCHANGED same /\ ctrl' = ctrl /\ data' = data /\ latest' = latest
      /\ pc' = [pc EXCEPT ![d] = IF Type(d) # "restart" THEN "write"
                                 ELSE IF d = 0 THEN "ctrl"
                                 ELSE IF Empties(d) THEN "data" ELSE "write"]
  BY DEF TakeTurn, At, files
<1>1. /\ d \in Domain /\ Busy(d) /\ JobOK /\ 0 \in Domain /\ 0 \in AllDomains
  BY <1>0, OutputFacts, Domains DEF Busy, IInv
<1>2. /\ Domain' = Domain /\ outs' = outs /\ phase' = phase
      /\ WithRestart(outs)' = WithRestart(outs)
      /\ \A e : FirstIn(e)' = FirstIn(e)
  BY <1>0, Alike
<1>3. PICK a \in {"write", "ctrl", "data"} :
        /\ \A e \in AllDomains : pc'[e] = (IF e = d THEN a ELSE pc[e])
        /\ a = "ctrl" => Type(d) = "restart" /\ d = 0
        /\ a = "data" => Type(d) = "restart" /\ d # 0 /\ d = FirstIn(d)
        /\ a = "write" => Type(d) # "restart" \/ (d # 0 /\ d # FirstIn(d))
  BY <1>0, OutputFacts DEF Empties
<1>4. \A e \in AllDomains : Busy(e)' <=> Busy(e)
  BY <1>0, <1>3 DEF Busy, Writing
<1>5. /\ Type(d) = "restart" => turn[d] = 1 /\ WithRestart(outs)
      /\ WithRestart(outs) => (Type(d) = "restart" <=> turn[d] = 1)
  BY <1>0, <1>1, RestartFirst
<1>6. OutputInv'
  <2>1. ASSUME NEW e \in Domain
        PROVE  /\ pc'[e] \in {"ctrl", "params"} => e = 0 /\ turn'[e] = 1
               /\ pc'[e] = "data" => e = FirstIn(e) /\ turn'[e] = 1
               /\ pc'[e] \in {"ctrl", "params", "data", "barrier", "latest", "name"}
                    => WithRestart(outs)
    <3>1. CASE e = d
      BY <1>0, <1>1, <1>3, <1>5, <3>1
    <3>2. CASE e # d
      <4>1. pc'[e] = pc[e]
        BY <1>0, <1>3, <3>2, OutputFacts
      <4> QED BY <1>0, <4>1 DEF SInv, OutputInv
    <3> QED BY <3>1, <3>2
  <2>2. pc'[0] \in {"latest", "name"} => \A e \in Domain : ~Busy(e)'
    <3>1. pc'[0] \in {"latest", "name"} => pc[0] \in {"latest", "name"}
      BY <1>1, <1>3
    <3> QED BY <1>0, <1>4, <3>1, OutputFacts DEF SInv, OutputInv
  <2> QED BY <1>0, <1>2, <2>1, <2>2 DEF OutputInv
<1>7. ASSUME NEW f \in Domain, WithRestart(outs), f = FirstIn(f), Emptied(f)'
      PROVE  Emptied(f)
  <2>1. CASE f # d
    <3>1. pc'[f] = pc[f]
      BY <1>0, <1>3, <2>1, OutputFacts
    <3> QED BY <1>0, <1>7, <3>1 DEF Emptied
  <2>2. CASE f = d /\ turn[d] = 1 /\ a = "write"
    BY <1>3, <1>5, <1>7, <2>2
  <2>3. CASE f = d /\ turn[d] # 1
    BY <1>0, <1>1, <2>3, OutputFacts DEF Emptied
  <2>4. CASE f = d /\ turn[d] = 1 /\ a # "write"
    BY <1>0, <1>1, <1>3, <1>7, <2>4, OutputFacts DEF Emptied
  <2> QED BY <2>1, <2>2, <2>3, <2>4
<1>8. ASSUME WithRestart(outs), turn[0] > 1 \/ pc'[0] \in {"data", "write"}
      PROVE  CtrlHolds'
  <2>1. turn[0] > 1 \/ pc[0] \in {"data", "write"}
    <3>1. CASE d = 0
      <4>1. pc'[0] = a /\ turn[0] \in 1 .. Len(outs) + 1 /\ Len(outs) \in Nat
        BY <1>0, <1>1, <1>3, <3>1, OutputFacts
      <4> QED BY <1>3, <1>5, <1>8, <3>1, <4>1
    <3>2. CASE d # 0
      <4>1. pc'[0] = pc[0]
        BY <1>1, <1>3, <3>2
      <4> QED BY <1>8, <4>1
    <3> QED BY <3>1, <3>2
  <2>2. CtrlHolds
    BY <1>0, <1>8, <2>1 DEF SInv, SaveInv
  <2> QED BY <1>0, <2>2, Alike DEF CtrlHolds
<1>9. SaveInv'
  BY <1>0, <1>7, <1>8, KeptStep
<1>10. NamedInv'
  <2>1. \A e \in Domain : WithRestart(outs) /\ Busy(e)' => Busy(e)
    BY <1>0, <1>4, OutputFacts
  <2> QED BY <1>0, <2>1, NamedKept
<1> QED BY <1>6, <1>9, <1>10

\* Steps of one domain within its type, not the writing itself.
LEMMA InTypeOutput ==
  ASSUME IInv, SInv, phase = "output", NEW d \in Domain, Writing(d),
         NEW a \in {"params", "data", "write"}, pc' = [pc EXCEPT ![d] = a],
         UNCHANGED <<turn, same>>,
         a = "params" => d = 0 /\ turn[d] = 1,
         a = "data" => d = FirstIn(d) /\ turn[d] = 1,
         a \in {"params", "data"} => WithRestart(outs)
  PROVE  /\ OutputInv'
         /\ \A e \in AllDomains : Busy(e)' <=> Busy(e)
<1>1. /\ Domain' = Domain /\ outs' = outs /\ phase' = phase
      /\ WithRestart(outs)' = WithRestart(outs)
      /\ \A e : FirstIn(e)' = FirstIn(e)
  BY Alike
<1>2. \A e \in AllDomains : pc'[e] = (IF e = d THEN a ELSE pc[e])
  BY OutputFacts
<1>3. \A e \in AllDomains : Busy(e)' <=> Busy(e)
  BY <1>2 DEF Busy, Writing
<1>4. ASSUME NEW e \in Domain
      PROVE  /\ pc'[e] \in {"ctrl", "params"} => e = 0 /\ turn'[e] = 1
             /\ pc'[e] = "data" => e = FirstIn(e) /\ turn'[e] = 1
             /\ pc'[e] \in {"ctrl", "params", "data", "barrier", "latest", "name"}
                  => WithRestart(outs)
  <2>1. CASE e = d
    BY <1>2, <2>1, OutputFacts
  <2>2. CASE e # d
    <3>1. pc'[e] = pc[e]
      BY <1>2, <2>2, OutputFacts
    <3> QED BY <3>1 DEF SInv, OutputInv
  <2> QED BY <2>1, <2>2
<1>5. pc'[0] \in {"latest", "name"} => \A e \in Domain : ~Busy(e)'
  <2>1. 0 \in AllDomains
    BY Domains DEF IInv
  <2>2. pc'[0] \in {"latest", "name"} => pc[0] \in {"latest", "name"}
    BY <1>2, <2>1
  <2> QED BY <1>3, <2>2, OutputFacts DEF SInv, OutputInv
<1>6. OutputInv'
  BY <1>1, <1>4, <1>5 DEF OutputInv
<1> QED BY <1>3, <1>6

\* Domain 0 empties the control file: the set is not the one named.
LEMMA OpenCtrlSave ==
  ASSUME IInv, SInv, NEW d \in AllDomains, OpenCtrl(d)
  PROVE  OutputInv' /\ SaveInv' /\ NamedInv'
<1>0. /\ phase = "output" /\ pc[d] = "ctrl"
      /\ ctrl' = [ctrl EXCEPT ![OutputName].state = Torn]
      /\ pc' = [pc EXCEPT ![d] = "params"]
      /\ UNCHANGED <<data, latest, turn, tokens, same>>
  BY DEF OpenCtrl, At
<1>1. d \in Domain /\ Writing(d) /\ Busy(d) /\ OutputName \in Name
  BY <1>0, OutputFacts DEF Writing, Busy
<1>2. d = 0 /\ turn[d] = 1 /\ WithRestart(outs)
  BY <1>0, <1>1 DEF SInv, OutputInv
<1>3. OutputInv' /\ \A e \in AllDomains : Busy(e)' <=> Busy(e)
  BY <1>0, <1>1, <1>2, InTypeOutput
<1>4. pc'[0] = "params"
  BY <1>0, <1>2, OutputFacts
<1>5. \A f \in Domain : Emptied(f)' => Emptied(f)
  BY <1>0, <1>1, OutputFacts DEF Emptied
<1>6. SaveInv'
  BY <1>0, <1>2, <1>4, <1>5, KeptStep
<1>7. latest \in Number => ctrl'[latest].counter = ctrl[latest].counter
  BY <1>0, <1>1 DEF IInv, FilesTyped, Name
<1>8. NamedInv'
  BY <1>0, <1>3, <1>7, NamedKept, OutputFacts
<1> QED BY <1>3, <1>6, <1>8

\* Domain 0 writes the control file.
LEMMA WriteCtrlSave ==
  ASSUME IInv, SInv, NEW d \in AllDomains, WriteCtrl(d)
  PROVE  OutputInv' /\ SaveInv' /\ NamedInv'
<1>0. /\ phase = "output" /\ pc[d] = "params"
      /\ ctrl' = [ctrl EXCEPT ![OutputName] =
                    [state |-> OutputName, cycle |-> cycle, counter |-> counter,
                     groups |-> job.groups]]
      /\ pc' = [pc EXCEPT ![d] = "data"]
      /\ UNCHANGED <<data, latest, turn, tokens, same>>
  BY DEF WriteCtrl, At
<1>1. d \in Domain /\ Writing(d) /\ Busy(d) /\ OutputName \in Name /\ JobOK
  BY <1>0, OutputFacts, Domains DEF Writing, Busy, IInv
<1>2. d = 0 /\ turn[d] = 1 /\ WithRestart(outs) /\ FirstIn(d) = d
  <2>1. d = 0 /\ turn[d] = 1 /\ WithRestart(outs)
    BY <1>0, <1>1 DEF SInv, OutputInv
  <2> QED BY <1>1, <2>1, FirstOf
<1>3. OutputInv' /\ \A e \in AllDomains : Busy(e)' <=> Busy(e)
  BY <1>0, <1>1, <1>2, InTypeOutput
<1>4. CtrlHolds'
  <2>1. ctrl'[OutputName] = [state |-> OutputName, cycle |-> cycle,
                             counter |-> counter, groups |-> job.groups]
    BY <1>0, <1>1 DEF IInv, FilesTyped
  <2> QED BY <1>0, <2>1, Alike DEF CtrlHolds
<1>5. \A f \in Domain : Emptied(f)' => Emptied(f)
  BY <1>0, <1>1, OutputFacts DEF Emptied
<1>6. SaveInv'
  BY <1>0, <1>4, <1>5, KeptStep
<1>7. latest \in Number => ctrl'[latest].counter = ctrl[latest].counter
  <2>1. latest \in Number => latest # OutputName
    BY <1>0, <1>1, <1>2 DEF SInv, NamedInv
  <2> QED BY <1>0, <1>1, <2>1 DEF IInv, FilesTyped, Name
<1>8. NamedInv'
  BY <1>0, <1>3, <1>7, NamedKept, OutputFacts
<1> QED BY <1>3, <1>6, <1>8

\* An emptied file holds the lines of no domain, as none has written.
LEMMA OpenDataSave ==
  ASSUME IInv, SInv, NEW d \in AllDomains, OpenData(d)
  PROVE  OutputInv' /\ SaveInv' /\ NamedInv'
<1>0. /\ phase = "output" /\ pc[d] = "data" /\ pc' = [pc EXCEPT ![d] = "write"]
      /\ UNCHANGED <<ctrl, latest, turn, tokens, same>>
  BY DEF OpenData, At
<1>1. /\ d \in Domain /\ Writing(d) /\ Busy(d) /\ OutputName \in Name /\ JobOK
      /\ MyFile(d) \in Segments /\ 0 \in Domain /\ Domain \subseteq AllDomains
  BY <1>0, OutputFacts, Domains DEF Writing, Busy, IInv
<1>2. d = FirstIn(d) /\ turn[d] = 1 /\ WithRestart(outs)
  BY <1>0, <1>1 DEF SInv, OutputInv
<1>3. OutputInv' /\ \A e \in AllDomains : Busy(e)' <=> Busy(e)
  BY <1>0, <1>1, <1>2, InTypeOutput
<1>4. \A g \in Segments :
         data'[OutputName][g] = (IF g = MyFile(d) THEN NewFile ELSE data[OutputName][g])
  BY <1>1, OpenDataStep
<1>5. /\ Domain' = Domain /\ OutputName' = OutputName /\ net' = net
      /\ NodeCount' = NodeCount /\ job' = job /\ outs' = outs
      /\ WithRestart(outs)' = WithRestart(outs)
      /\ \A e : /\ MyFile(e)' = MyFile(e) /\ Group(e)' = Group(e)
                /\ FirstIn(e)' = FirstIn(e)
  BY <1>0, Alike
<1>6. \A e \in Domain : MyFile(e) \in Segments /\ turn[e] \in Nat
  BY <1>0, OutputFacts
<1>7. ASSUME NEW e \in Domain, Emptied(FirstIn(e))' PROVE FileHolds(e)'
  <2>1. CASE Group(e) = Group(d)
    <3>1. \A f \in Domain : Group(f) = Group(e) => ~(turn[f] > 1)
      <4> SUFFICES ASSUME NEW f \in Domain, Group(f) = Group(e), f # d
                   PROVE  turn[f] <= turn[d]
        BY <1>2, <1>6
      <4>1. FirstIn(f) = d /\ FirstIn(f) <= f
        BY <1>1, <1>2, <2>1, OneFileEach, FirstOf
      <4>2. d < f
        BY <1>1, <4>1 DEF Domain, JobOK
      <4>3. InTurn
        BY InTurnHolds
      <4> QED BY <1>0, <1>1, <2>1, <4>2, <4>3 DEF InTurn
    <3>2. MyFile(e) = MyFile(d)
      BY <1>1, <2>1, OneFileEach
    <3>3. data'[OutputName'][MyFile(e)'].body = <<>>
      BY <1>1, <1>4, <1>5, <3>2 DEF NewFile
    <3>4. IsInjective(<<>>) /\ ToSet(<<>>) = {}
      BY DEF IsInjective, ToSet
    <3>5. \A f \in Domain' : ~(Group(f)' = Group(e)' /\ turn'[f] > 1)
      BY <1>0, <1>5, <3>1
    <3> QED BY <3>3, <3>4, <3>5 DEF FileHolds
  <2>2. CASE Group(e) # Group(d)
    <3>1. FirstIn(e) # d /\ FirstIn(e) \in Domain
      BY <1>1, <1>2, <2>2, OneFileEach, FirstOf
    <3>2. \A f : f = FirstIn(e) => Emptied(f)'
      BY <1>5, <1>7 DEF Emptied
    <3>3. Emptied(FirstIn(e))
      <4>1. pc'[FirstIn(e)] = pc[FirstIn(e)]
        BY <1>0, <1>1, <3>1, OutputFacts
      <4> QED BY <1>0, <3>2, <4>1 DEF Emptied
    <3>4. FileHolds(e)
      BY <1>0, <1>2, <3>3 DEF SInv, SaveInv
    <3>5. MyFile(e) # MyFile(d)
      BY <1>1, <2>2, OneFileEach
    <3>6. data'[OutputName][MyFile(e)] = data[OutputName][MyFile(e)]
      BY <1>4, <1>6, <3>5
    <3> QED BY <1>0, <3>4, <3>6, FileKept
  <2> QED BY <2>1, <2>2
<1>8. turn[0] > 1 => MyFile(0) # MyFile(d)
  <2>1. FirstIn(0) = 0
    BY <1>1, FirstOf
  <2> QED BY <1>1, <1>2, <2>1, OneFileEach
<1>9. turn'[0] > 1 => data'[OutputName'][MyFile(0)'].head = Prologue(NodeCount', job'.groups)
  <2>1. turn[0] > 1 => data[OutputName][MyFile(0)].head = Prologue(NodeCount, job.groups)
    BY <1>0, <1>2 DEF SInv, SaveInv
  <2> QED BY <1>0, <1>1, <1>4, <1>5, <1>6, <1>8, <2>1
<1>10. turn'[0] > 1 \/ pc'[0] \in {"data", "write"} => CtrlHolds'
  <2>1. turn[0] > 1 \/ pc[0] \in {"data", "write"} => CtrlHolds
    BY <1>0, <1>2 DEF SInv, SaveInv
  <2>2. CtrlHolds => CtrlHolds'
    BY <1>0, Alike DEF CtrlHolds
  <2>3. pc'[0] \in {"data", "write"} => pc[0] \in {"data", "write"}
    BY <1>0, <1>1, OutputFacts
  <2> QED BY <1>0, <2>1, <2>2, <2>3
<1>11. SaveInv'
  <2>1. Prologue(NodeCount, job.groups)' = Prologue(NodeCount', job'.groups)
    BY DEF Prologue
  <2>2. \A e \in Domain' : Emptied(FirstIn(e))' => FileHolds(e)'
    BY <1>5, <1>7
  <2> QED BY <1>9, <1>10, <2>1, <2>2 DEF SaveInv
<1>12. NamedInv'
  BY <1>0, <1>3, NamedKept, OutputFacts
<1> QED BY <1>3, <1>11, <1>12

\* The lines of a domain come to those of the domains before it, which are
\* others as no line is in two domains.
LEMMA WriteTypeSave ==
  ASSUME IInv, SInv, NEW d \in AllDomains, WriteType(d)
  PROVE  OutputInv' /\ SaveInv' /\ NamedInv'
<1>0. /\ phase = "output" /\ pc[d] = "write" /\ UNCHANGED <<ctrl, latest, same>>
      /\ turn' = [turn EXCEPT ![d] = @ + 1]
      /\ pc' = [pc EXCEPT ![d] = IF turn[d] < Len(outs) THEN "turn" ELSE AfterTypes]
  BY DEF WriteType, At
<1>1. /\ d \in Domain /\ Writing(d) /\ Busy(d) /\ OutputName \in Name /\ JobOK
      /\ MyFile(d) \in Segments /\ 0 \in Domain /\ Domain \subseteq AllDomains
      /\ turn[d] \in Nat \ {0}
  BY <1>0, OutputFacts, Domains DEF Writing, Busy, IInv
<1>2. PICK a \in {"turn", "barrier", "done"} :
        /\ a = "barrier" => WithRestart(outs)
        /\ \A e \in AllDomains : pc'[e] = (IF e = d THEN a ELSE pc[e])
  <2>1. pc' = [pc EXCEPT ![d] = "turn"] \/ pc' = [pc EXCEPT ![d] = AfterTypes]
    BY <1>0
  <2> QED BY <1>0, <2>1, OutputFacts DEF AfterTypes
<1>3. /\ Domain' = Domain /\ OutputName' = OutputName /\ net' = net
      /\ NodeCount' = NodeCount /\ job' = job /\ outs' = outs /\ phase' = phase
      /\ WithRestart(outs)' = WithRestart(outs)
      /\ \A e : /\ MyFile(e)' = MyFile(e) /\ Group(e)' = Group(e)
                /\ FirstIn(e)' = FirstIn(e)
  BY <1>0, Alike
<1>4. \A e \in AllDomains : turn'[e] = (IF e = d THEN turn[e] + 1 ELSE turn[e])
  BY <1>0, OutputFacts
<1>5. \A e \in AllDomains : Busy(e)' => Busy(e) \/ e = d
  BY <1>2 DEF Busy, Writing
<1>6. OutputInv'
  <2>1. ASSUME NEW e \in Domain
        PROVE  /\ pc'[e] \in {"ctrl", "params"} => e = 0 /\ turn'[e] = 1
               /\ pc'[e] = "data" => e = FirstIn(e) /\ turn'[e] = 1
               /\ pc'[e] \in {"ctrl", "params", "data", "barrier", "latest", "name"}
                    => WithRestart(outs)
    <3>1. CASE e = d
      BY <1>1, <1>2, <3>1
    <3>2. CASE e # d
      <4>1. pc'[e] = pc[e] /\ turn'[e] = turn[e]
        BY <1>1, <1>2, <1>4, <3>2
      <4> QED BY <1>0, <4>1 DEF SInv, OutputInv
    <3> QED BY <3>1, <3>2
  <2>2. ~(pc'[0] \in {"latest", "name"})
    <3>1. ~(pc[0] \in {"latest", "name"})
      BY <1>0, <1>1 DEF SInv, OutputInv
    <3> QED BY <1>1, <1>2, <3>1
  <2> QED BY <1>0, <1>3, <2>1, <2>2 DEF OutputInv
<1>7. /\ Type(d) = "restart" => turn[d] = 1 /\ WithRestart(outs)
      /\ WithRestart(outs) => (Type(d) = "restart" <=> turn[d] = 1)
  BY <1>0, <1>1, RestartFirst
<1>8. \A g \in Segments :
         data'[OutputName][g] = (IF Type(d) = "restart" /\ g = MyFile(d)
                                 THEN Appended(d) ELSE data[OutputName][g])
  BY <1>1, WriteTypeFiles
<1>9. \A e \in Domain : MyFile(e) \in Segments /\ turn[e] \in Nat
  BY <1>0, OutputFacts
<1>10. ASSUME WithRestart(outs), NEW f \in Domain, Emptied(f)' PROVE Emptied(f)
  <2>1. CASE f = d
    BY <1>0, <2>1 DEF Emptied
  <2>2. CASE f # d
    <3>1. pc'[f] = pc[f] /\ turn'[f] = turn[f]
      BY <1>1, <1>2, <1>4, <2>2
    <3> QED BY <1>10, <3>1 DEF Emptied
  <2> QED BY <2>1, <2>2
<1>11. ASSUME WithRestart(outs), NEW e \in Domain, Emptied(FirstIn(e))'
       PROVE  FileHolds(e)
  <2>1. FirstIn(e) \in Domain
    BY <1>1, FirstOf
  <2>2. \A f : f = FirstIn(e) => Emptied(f)'
    BY <1>3, <1>11 DEF Emptied
  <2>3. Emptied(FirstIn(e))
    BY <1>10, <1>11, <2>1, <2>2
  <2> QED BY <1>0, <1>11, <2>3 DEF SInv, SaveInv
<1>12. ASSUME WithRestart(outs), NEW e \in Domain, Emptied(FirstIn(e))'
       PROVE  FileHolds(e)'
  <2>0. FileHolds(e)
    BY <1>11, <1>12
  <2>1. CASE ~(Type(d) = "restart" /\ Group(e) = Group(d))
    <3>1. data'[OutputName][MyFile(e)] = data[OutputName][MyFile(e)]
      <4>1. Type(d) = "restart" => MyFile(e) # MyFile(d)
        BY <1>1, <2>1, OneFileEach
      <4> QED BY <1>8, <1>9, <4>1
    <3>2. \A f \in Domain : Group(f) = Group(e) => (turn'[f] > 1 <=> turn[f] > 1)
      <4> SUFFICES ASSUME NEW f \in Domain, Group(f) = Group(e), f = d
                   PROVE  turn'[f] > 1 <=> turn[f] > 1
        BY <1>1, <1>4
      <4>1. turn[d] # 1
        BY <1>7, <1>12, <2>1
      <4> QED BY <1>1, <1>4, <4>1
    <3> QED BY <1>0, <2>0, <3>1, <3>2, FileKept
  <2>2. CASE Type(d) = "restart" /\ Group(e) = Group(d)
    <3> DEFINE old == data[OutputName][MyFile(d)].body
               new == data'[OutputName'][MyFile(e)'].body
               Old(l) == \E f \in Domain : Group(f) = Group(e) /\ turn[f] > 1 /\ l \in net[f]
               New(l) == \E f \in Domain' : Group(f)' = Group(e)' /\ turn'[f] > 1 /\ l \in net'[f]
    <3>1. MyFile(e) = MyFile(d) /\ turn[d] = 1 /\ turn'[d] > 1
      BY <1>1, <1>4, <1>7, <2>2, OneFileEach
    <3>2. new = old \o Lines(d)
      BY <1>3, <1>8, <1>9, <2>2, <3>1 DEF Appended
    <3>3. old \in Seq(Line)
      BY <1>1 DEF IInv, FilesTyped, FileType
    <3>4. Lines(d) \in Seq(Line) /\ ToSet(Lines(d)) = net[d] /\ IsInjective(Lines(d))
      BY LinesOf DEF IInv
    <3>5. IsInjective(old) /\ \A l \in Line : l \in ToSet(old) <=> Old(l)
      BY <2>0, <3>1 DEF FileHolds
    <3>6. ToSet(old) \cap ToSet(Lines(d)) = {}
      <4> SUFFICES ASSUME NEW l \in ToSet(old), l \in net[d] PROVE FALSE
        BY <3>4
      <4>1. l \in Line
        BY <1>1 DEF IInv, StateTyped
      <4>2. PICK f \in Domain : turn[f] > 1 /\ l \in net[f]
        BY <3>5, <4>1
      <4>3. f # d
        BY <3>1, <4>2
      <4> QED BY <1>0, <1>1, <4>2, <4>3 DEF SInv, PlaceInv
    <3>7. ASSUME NEW l \in Line PROVE New(l) <=> Old(l) \/ l \in net[d]
      <4>1. \A f \in Domain : turn'[f] > 1 <=> turn[f] > 1 \/ f = d
        BY <1>1, <1>4, <3>1
      <4> QED BY <1>1, <1>3, <2>2, <4>1
    <3> HIDE DEF old, new, Old, New
    <3>8. IsInjective(new) /\ \A l \in Line : l \in ToSet(new) <=> l \in ToSet(old) \/ l \in net[d]
      BY <3>2, <3>3, <3>4, <3>5, <3>6, Concatenation
    <3>9. IsInjective(new) /\ \A l \in Line : l \in ToSet(new) <=> New(l)
      BY <3>5, <3>7, <3>8
    <3> QED BY <3>9 DEF FileHolds, new, New
  <2> QED BY <2>1, <2>2
<1>13. ASSUME WithRestart(outs), turn'[0] > 1
       PROVE  data'[OutputName'][MyFile(0)'].head = Prologue(NodeCount', job'.groups)
  <2>1. CASE Type(d) = "restart" /\ d = 0
    <3>1. Appended(d).head = Prologue(NodeCount, job.groups)
      BY <2>1 DEF Appended
    <3> QED BY <1>1, <1>3, <1>8, <2>1, <3>1
  <2>2. CASE ~(Type(d) = "restart" /\ d = 0)
    <3>1. turn[0] > 1
      <4>1. CASE d = 0
        BY <1>1, <1>7, <1>13, <2>2, <4>1
      <4>2. CASE d # 0
        BY <1>1, <1>4, <1>13, <4>2
      <4> QED BY <4>1, <4>2
    <3>2. data[OutputName][MyFile(0)].head = Prologue(NodeCount, job.groups)
      BY <1>0, <1>13, <3>1 DEF SInv, SaveInv
    <3>3. data'[OutputName][MyFile(0)].head = data[OutputName][MyFile(0)].head
      <4>1. CASE Type(d) = "restart" /\ MyFile(0) = MyFile(d)
        <5>1. Appended(d).head = data[OutputName][MyFile(d)].head
          BY <2>2, <4>1 DEF Appended
        <5> QED BY <1>1, <1>8, <4>1, <5>1
      <4>2. CASE ~(Type(d) = "restart" /\ MyFile(0) = MyFile(d))
        BY <1>1, <1>8, <1>9, <4>2
      <4> QED BY <4>1, <4>2
    <3> QED BY <1>3, <3>2, <3>3
  <2> QED BY <2>1, <2>2
<1>14. ASSUME WithRestart(outs), turn'[0] > 1 \/ pc'[0] \in {"data", "write"}
       PROVE  CtrlHolds'
  <2>1. turn[0] > 1 \/ pc[0] \in {"data", "write"}
    <3>1. CASE d = 0
      BY <1>0, <3>1
    <3>2. CASE d # 0
      BY <1>1, <1>2, <1>4, <1>14, <3>2
    <3> QED BY <3>1, <3>2
  <2>2. CtrlHolds
    BY <1>0, <1>14, <2>1 DEF SInv, SaveInv
  <2> QED BY <1>0, <2>2, Alike DEF CtrlHolds
<1>15. SaveInv'
  <2>1. Prologue(NodeCount, job.groups)' = Prologue(NodeCount', job'.groups)
    BY DEF Prologue
  <2>2. WithRestart(outs)' => \A e \in Domain' : Emptied(FirstIn(e))' => FileHolds(e)'
    BY <1>3, <1>12
  <2> QED BY <1>3, <1>13, <1>14, <2>1, <2>2 DEF SaveInv
<1>16. NamedInv'
  <2>1. \A e \in Domain : Busy(e)' => Busy(e)
    BY <1>1, <1>5
  <2> QED BY <1>0, <2>1, NamedKept
<1> QED BY <1>6, <1>15, <1>16

\* At the barrier every domain has written.
LEMMA BarrierSave ==
  ASSUME IInv, SInv, Barrier
  PROVE  OutputInv' /\ SaveInv' /\ NamedInv'
<1>0. /\ phase = "output" /\ pc[0] = "barrier" /\ \A d \in Domain : pc[d] = "barrier"
      /\ pc' = [d \in AllDomains |-> IF d = 0 THEN "latest" ELSE
                   IF pc[d] = "barrier" THEN "done" ELSE pc[d]]
      /\ UNCHANGED <<files, turn, tokens, same>>
  BY DEF Barrier, AllAtBarrier
<1>1. Domain \subseteq AllDomains /\ 0 \in Domain
  BY Domains DEF IInv
<1>2. \A e \in Domain : pc'[e] = (IF e = 0 THEN "latest" ELSE "done")
  BY <1>0, <1>1
<1>3. /\ Domain' = Domain /\ outs' = outs /\ phase' = phase
      /\ WithRestart(outs)' = WithRestart(outs) /\ ctrl' = ctrl /\ data' = data
      /\ latest' = latest
  BY <1>0, Alike DEF files
<1>4. WithRestart(outs) /\ \A e \in Domain : ~Busy(e)' /\ ~Busy(e)
  BY <1>0, <1>1, <1>2 DEF SInv, OutputInv, Busy, Writing
<1>5. OutputInv'
  BY <1>2, <1>3, <1>4 DEF OutputInv
<1>6. \A f \in Domain : Emptied(f)' => Emptied(f)
  BY <1>0, <1>2 DEF Emptied
<1>7. CtrlHolds'
  <2>1. turn[0] > 1
    BY <1>0, <1>1, <1>4, OutputFacts
  <2>2. CtrlHolds
    BY <1>0, <1>4, <2>1 DEF SInv, SaveInv
  <2> QED BY <1>0, <1>3, <2>2, Alike DEF CtrlHolds
<1>8. SaveInv'
  BY <1>0, <1>3, <1>6, <1>7, KeptStep
<1>9. NamedInv'
  BY <1>0, <1>3, <1>4, NamedKept
<1> QED BY <1>5, <1>8, <1>9

\* When the name is written all domains have written, and the set is saved.
LEMMA AllWritten ==
  ASSUME IInv, SInv, phase = "output", pc[0] \in {"latest", "name"}
  PROVE  /\ WithRestart(outs) /\ CtrlHolds
         /\ \A d \in Domain : turn[d] > 1 /\ FileHolds(d)
         /\ data[OutputName][MyFile(0)].head = Prologue(NodeCount, job.groups)
<1>1. 0 \in Domain /\ JobOK
  BY Domains DEF IInv
<1>2. WithRestart(outs) /\ \A d \in Domain : ~Busy(d)
  BY <1>1 DEF SInv, OutputInv
<1>3. \A d \in Domain : turn[d] > 1
  BY <1>2, OutputFacts
<1>4. \A d \in Domain : Emptied(FirstIn(d))
  BY <1>1, <1>3, FirstOf DEF Emptied
<1> QED BY <1>1, <1>2, <1>3, <1>4 DEF SInv, SaveInv

\* A set all domains have written holds the network.
LEMMA SetIsSaved ==
  ASSUME IInv, SInv, phase = "output", pc[0] \in {"latest", "name"}
  PROVE  Saved(OutputName)
<1> DEFINE s == OutputName
           G == job.groups
           q == [i \in 1 .. G |-> data[s][File(G, i - 1)].body]
           U == UNION {net[d] : d \in Domain}
<1>0. JobOK /\ 0 \in Domain /\ Domain \subseteq AllDomains /\ s \in Name
  BY Domains, OutputFacts DEF IInv
<1>1. /\ CtrlHolds
      /\ \A d \in Domain : turn[d] > 1 /\ FileHolds(d)
      /\ data[s][MyFile(0)].head = Prologue(NodeCount, G)
  BY AllWritten
<1>2. ctrl[s].state = s /\ ctrl[s].cycle = cycle /\ ctrl[s].groups = G
  BY <1>1 DEF CtrlHolds
<1>3. G \in Nat \ {0}
  BY <1>0 DEF JobOK
<1>4. AllLines(s) = FlattenSeq(q)
  BY <1>2 DEF AllLines
<1>5. ASSUME NEW i \in 1 .. G
      PROVE  /\ q[i] \in Seq(Line) /\ IsInjective(q[i])
             /\ \A l \in Line : l \in ToSet(q[i]) <=>
                  \E e \in Domain : Group(e) = i - 1 /\ l \in net[e]
  <2>1. i - 1 \in 0 .. job.groups - 1
    BY <1>3
  <2>2. Start(i - 1) \in Nat /\ Width(i - 1) \in Nat \ {0}
    BY <1>0, <2>1, Starts
  <2>3. PICK d \in Domain : Group(d) = i - 1
    BY <1>0, <2>1, <2>2, GroupIs
  <2>4. q[i] = data[s][MyFile(d)].body
    BY <2>3 DEF MyFile
  <2>5. MyFile(d) \in Segments
    BY OutputFacts
  <2>6. q[i] \in Seq(Line)
    BY <1>0, <2>4, <2>5 DEF IInv, FilesTyped, FileType
  <2> QED BY <1>1, <2>3, <2>4, <2>6 DEF FileHolds
<1> HIDE DEF q
<1>6. q \in Seq(Seq(Line)) /\ Len(q) = G
  <2>1. q = [i \in 1 .. G |-> q[i]]
    BY DEF q
  <2>2. q \in [1 .. G -> Seq(Line)]
    BY <1>5, <2>1
  <2> QED BY <1>3, <2>2
<1>7. FlattenSeq(q) \in Seq(Line)
      /\ \A x : x \in ToSet(FlattenSeq(q)) <=> \E i \in 1 .. G : x \in ToSet(q[i])
  BY <1>6, Flattened
<1>8. IsInjective(FlattenSeq(q))
  <2>1. ASSUME NEW i \in 1 .. G, NEW j \in 1 .. G, i # j,
               NEW l \in ToSet(q[i]), l \in ToSet(q[j])
        PROVE  FALSE
    <3>1. l \in Line
      BY <1>5, <2>1 DEF ToSet
    <3>2. PICK d \in Domain : Group(d) = i - 1 /\ l \in net[d]
      BY <1>5, <2>1, <3>1
    <3>3. PICK e \in Domain : Group(e) = j - 1 /\ l \in net[e]
      BY <1>5, <2>1, <3>1
    <3>4. d # e
      BY <1>3, <2>1, <3>2, <3>3
    <3> QED BY <1>0, <3>2, <3>3, <3>4 DEF SInv, PlaceInv
  <2>2. \A i, j \in 1 .. G : i # j => ToSet(q[i]) \cap ToSet(q[j]) = {}
    BY <2>1
  <2>3. \A i \in 1 .. G : IsInjective(q[i])
    BY <1>5
  <2> QED BY <1>6, <2>2, <2>3, Flattened
<1>9. ToSet(FlattenSeq(q)) = U
  <2>0. U \subseteq Line
    BY Counted DEF IInv
  <2>1. ASSUME NEW l \in ToSet(FlattenSeq(q)) PROVE l \in U
    <3>1. PICK i \in 1 .. G : l \in ToSet(q[i])
      BY <1>7, <2>1
    <3>2. l \in Line
      BY <1>5, <3>1 DEF ToSet
    <3> QED BY <1>5, <3>1, <3>2
  <2>2. ASSUME NEW l \in U PROVE l \in ToSet(FlattenSeq(q))
    <3>1. PICK d \in Domain : l \in net[d]
      BY <2>2
    <3>2. Group(d) \in 0 .. job.groups - 1
      BY <1>0, GroupOf
    <3>3. Group(d) + 1 \in 1 .. G /\ Group(d) + 1 - 1 = Group(d)
      BY <1>3, <3>2
    <3>4. l \in ToSet(q[Group(d) + 1])
      <4> DEFINE i == Group(d) + 1
      <4>0. l \in Line
        BY <2>0, <2>2
      <4>1. i \in 1 .. G /\ Group(d) = i - 1
        BY <3>2, <3>3
      <4> HIDE DEF i
      <4>2. l \in ToSet(q[i])
        BY <1>5, <3>1, <4>0, <4>1
      <4> QED BY <4>2 DEF i
    <3> QED BY <1>7, <3>3, <3>4
  <2> QED BY <2>1, <2>2
<1>10. Len(FlattenSeq(q)) = NodeCount
  <2>1. Cardinality(ToSet(FlattenSeq(q))) = Len(FlattenSeq(q))
    BY <1>7, <1>8, LengthOfInjective
  <2> QED BY <1>9, <2>1 DEF NodeCount
<1>11. MyFile(0) = File(G, 0)
  <2>1. Group(0) = 0
    <3>1. 0 \in 0 .. job.groups - 1 /\ Start(0) \in Nat /\ Width(0) \in Nat \ {0}
      BY <1>0, <1>3, Starts
    <3>2. Group(0) \in 0 .. job.groups - 1 /\ FirstIn(0) = Start(Group(0)) /\ FirstIn(0) = 0
      BY <1>0, GroupOf, FirstOf
    <3>3. Start(0) = 0
      BY GroupSizes, <1>0 DEF Start, LargeDomains
    <3> QED BY <1>0, <3>1, <3>3, GroupIs
  <2> QED BY <2>1 DEF MyFile
<1>12. Written(s)
  BY <1>1, <1>2, <1>4, <1>8, <1>10, <1>11 DEF Written
<1>13. ToSet(AllLines(s)) = UNION {net[d] : d \in Domain}
  BY <1>4, <1>9
<1> QED BY <1>2, <1>12, <1>13 DEF Saved

\* The name of the set is written: from the next output on it is an earlier
\* one.
LEMMA SetLatestSave ==
  ASSUME IInv, SInv, SetLatestRestart
  PROVE  OutputInv' /\ SaveInv' /\ NamedInv'
<1>0. /\ phase = "output" /\ pc[0] \in {"latest", "name"}
      /\ latest' \in {Torn, OutputName}
      /\ UNCHANGED <<ctrl, data, turn, tokens, same>>
  BY DEF SetLatestRestart
<1>1. PICK a \in {"name", "done"} : pc' = [pc EXCEPT ![0] = a]
  BY DEF SetLatestRestart
<1>2. Domain \subseteq AllDomains /\ 0 \in Domain
  BY Domains DEF IInv
<1>3. \A e \in AllDomains : pc'[e] = (IF e = 0 THEN a ELSE pc[e])
  BY <1>0, <1>1, OutputFacts
<1>4. /\ Domain' = Domain /\ outs' = outs /\ phase' = phase /\ counter' = counter
      /\ WithRestart(outs)' = WithRestart(outs)
      /\ \A e : FirstIn(e)' = FirstIn(e)
  BY <1>0, Alike
<1>5. WithRestart(outs) /\ CtrlHolds /\ \A d \in Domain : turn[d] > 1 /\ ~Busy(d)
  BY <1>0, AllWritten DEF SInv, OutputInv
<1>6. \A d \in Domain : ~Busy(d)'
  BY <1>2, <1>3, <1>5 DEF Busy, Writing
<1>7. OutputInv'
  <2>1. ASSUME NEW e \in Domain
        PROVE  /\ pc'[e] \in {"ctrl", "params"} => e = 0 /\ turn'[e] = 1
               /\ pc'[e] = "data" => e = FirstIn(e) /\ turn'[e] = 1
    <3>1. CASE e = 0
      BY <1>2, <1>3, <3>1
    <3>2. CASE e # 0
      <4>1. pc'[e] = pc[e]
        BY <1>2, <1>3, <3>2
      <4> QED BY <1>0, <4>1 DEF SInv, OutputInv
    <3> QED BY <3>1, <3>2
  <2> QED BY <1>0, <1>4, <1>5, <1>6, <2>1 DEF OutputInv
<1>8. SaveInv'
  <2>1. CtrlHolds'
    BY <1>0, <1>5, Alike DEF CtrlHolds
  <2>2. \A f \in Domain : Emptied(f)' => Emptied(f)
    BY <1>2, <1>5 DEF Emptied
  <2> QED BY <1>0, <2>1, <2>2, KeptStep
<1>9. NamedInv'
  <2>1. starts' = starts /\ starts # 0
    BY <1>0 DEF SInv, NamedInv, same, run
  <2>2. ASSUME latest' \in Number
        PROVE  ctrl'[latest'].counter = latest' /\ latest' <= counter'
    <3>1. latest' = OutputName /\ latest' \in Nat /\ latest' # Final
      BY <1>0, <2>2 DEF Number, Torn, Final
    <3>2. latest' = counter
      BY <3>1 DEF OutputName
    <3> QED BY <1>0, <1>4, <1>5, <3>1, <3>2 DEF CtrlHolds
  <2> QED BY <1>4, <1>6, <2>1, <2>2 DEF NamedInv
<1> QED BY <1>7, <1>8, <1>9

\* What sets hold, before the first start.
LEMMA InitSave == Init => SInv
<1> SUFFICES ASSUME Init PROVE SInv
  OBVIOUS
<1>1. PlaceInv /\ OutputInv /\ SaveInv
  BY DEF Init, PlaceInv, OutputInv, SaveInv
<1>2. latest = None /\ None \notin Number /\ phase = "down"
  BY DEF Init, None, Number
<1> QED BY <1>1, <1>2 DEF SInv, NamedInv

\* Stuttering.
LEMMA StutterSave ==
  ASSUME SInv, UNCHANGED vars
  PROVE  OutputInv' /\ SaveInv' /\ NamedInv'
<1> USE DEF vars, files, run, input, io
<1>1. UNCHANGED same
  BY DEF same
<1>2. /\ Domain' = Domain /\ OutputName' = OutputName /\ NodeCount' = NodeCount
      /\ outs' = outs /\ net' = net /\ job' = job /\ cycle' = cycle
      /\ counter' = counter /\ phase' = phase
      /\ WithRestart(outs)' = WithRestart(outs)
      /\ \A d : /\ MyFile(d)' = MyFile(d) /\ Group(d)' = Group(d)
                /\ FirstIn(d)' = FirstIn(d)
  BY <1>1, Alike
<1>3. \A d : Busy(d)' <=> Busy(d)
  BY DEF Busy, Writing
<1>4. OutputInv'
  BY <1>2, <1>3 DEF SInv, OutputInv
<1>5. NamedInv'
  BY <1>2, <1>3 DEF SInv, NamedInv
<1>6. SaveInv'
  BY <1>2 DEF SInv, SaveInv, CtrlHolds, Emptied, FileHolds, Prologue
<1> QED BY <1>4, <1>5, <1>6

\* Every step keeps what the sets hold.
LEMMA SaveStep == IInv /\ SInv /\ [Next]_vars => SInv'
<1> SUFFICES ASSUME IInv, SInv, [Next]_vars PROVE SInv'
  OBVIOUS
<1>1. PlaceInv'
  BY PlaceStep DEF SInv
<1>2. ASSUME NEW d \in AllDomains, DomainStep(d)
      PROVE  OutputInv' /\ SaveInv' /\ NamedInv'
  BY <1>2, TakeTurnSave, OpenCtrlSave, WriteCtrlSave, OpenDataSave, WriteTypeSave
     DEF DomainStep
<1>3. OutputInv' /\ SaveInv' /\ NamedInv'
  BY <1>2, OutsideStep, BarrierSave, SetLatestSave, StutterSave DEF Next, Progress
<1> QED BY <1>1, <1>3 DEF SInv

\* Both invariants hold in every reachable state.
LEMMA SaveInvariance == Spec => [](IInv /\ SInv)
<1>1. Init => IInv /\ SInv
  BY InitInv, InitSave
<1>2. IInv /\ SInv /\ [Next]_vars => (IInv /\ SInv)'
  BY NextInv, SaveStep
<1> QED BY <1>1, <1>2, PTL DEF Spec

\* No step writes a name too early or touches a named numbered set.
LEMMA LatestStep ==
  IInv /\ SInv /\ [Next]_vars =>
    [/\ latest' \in Name /\ latest' # latest => Saved(latest)'
     /\ latest' = latest /\ latest \in Number =>
          UNCHANGED <<ctrl[latest], data[latest]>>]_vars
<1> SUFFICES ASSUME IInv, SInv, Next
             PROVE  /\ latest' \in Name /\ latest' # latest => Saved(latest)'
                    /\ latest' = latest /\ latest \in Number =>
                         UNCHANGED <<ctrl[latest], data[latest]>>
  OBVIOUS
<1>1. CASE files' = files
  BY <1>1 DEF files
<1>2. ASSUME NEW d \in AllDomains, OpenCtrl(d) \/ WriteCtrl(d) \/ OpenData(d) \/ WriteType(d)
      PROVE  /\ latest' = latest
             /\ latest \in Number => UNCHANGED <<ctrl[latest], data[latest]>>
  <2>1. phase = "output" /\ Writing(d) /\ latest' = latest
    BY <1>2 DEF OpenCtrl, WriteCtrl, OpenData, WriteType, At, Writing
  <2>2. d \in Domain /\ Busy(d) /\ OutputName \in Name
    BY <2>1, OutputFacts DEF Busy, Writing
  <2>3. latest \in Number /\ WithRestart(outs) => latest # OutputName
    BY <2>1, <2>2 DEF SInv, NamedInv
  <2>4. \A s \in Name : s # OutputName \/ ~WithRestart(outs) => ctrl'[s] = ctrl[s]
    <3>1. (OpenCtrl(d) \/ WriteCtrl(d)) => WithRestart(outs)
      BY <2>1, <2>2 DEF SInv, OutputInv, OpenCtrl, WriteCtrl, At
    <3>2. ASSUME NEW s \in Name, s # OutputName PROVE ctrl'[s] = ctrl[s]
      BY <1>2, <2>2, <3>2 DEF OpenCtrl, WriteCtrl, OpenData, WriteType, IInv, FilesTyped
    <3>3. ASSUME NEW s \in Name, ~WithRestart(outs) PROVE ctrl'[s] = ctrl[s]
      BY <1>2, <3>1, <3>3 DEF OpenData, WriteType
    <3> QED BY <3>2, <3>3
  <2>5. \A s \in Name : s # OutputName \/ ~WithRestart(outs) => data'[s] = data[s]
    <3>1. OpenData(d) => WithRestart(outs)
      BY <2>1, <2>2 DEF SInv, OutputInv, OpenData, At
    <3>2. ASSUME NEW s \in Name, s # OutputName PROVE data'[s] = data[s]
      <4>1. CASE OpenCtrl(d) \/ WriteCtrl(d)
        BY <4>1 DEF OpenCtrl, WriteCtrl
      <4>2. CASE OpenData(d)
        BY <2>2, <3>2, <4>2 DEF OpenData, IInv, FilesTyped
      <4>3. CASE WriteType(d)
        BY <2>2, <3>2, <4>3 DEF WriteType, IInv, FilesTyped
      <4> QED BY <1>2, <4>1, <4>2, <4>3
    <3>3. ASSUME ~WithRestart(outs) PROVE data' = data
      <4>1. WriteType(d) => Type(d) # "restart"
        BY <2>1, <2>2, <3>3, RestartFirst
      <4> QED BY <1>2, <3>1, <3>3, <4>1 DEF OpenCtrl, WriteCtrl, WriteType
    <3> QED BY <3>2, <3>3
  <2> QED BY <2>1, <2>3, <2>4, <2>5 DEF Name
<1>3. CASE SetLatestRestart
  <2>1. /\ phase = "output" /\ pc[0] \in {"latest", "name"}
        /\ latest' \in {Torn, OutputName} /\ UNCHANGED <<ctrl, data, same>>
    BY <1>3 DEF SetLatestRestart
  <2>2. Saved(OutputName)
    BY <2>1, SetIsSaved
  <2>3. latest' \in Name => latest' = OutputName
    BY <2>1, BoundsAssumption DEF Name, Number, Final, Torn
  <2>4. Domain' = Domain /\ net' = net /\ cycle' = cycle
    BY <2>1, Alike
  <2>5. latest' = OutputName => Saved(latest)'
    BY <2>1, <2>2, <2>4 DEF Saved, Written, AllLines
  <2> QED BY <2>1, <2>3, <2>5
<1>4. ASSUME NEW d \in AllDomains, TakeTurn(d) PROVE files' = files
  BY <1>4 DEF TakeTurn, files
<1>5. (Begin \/ StartAgain \/ DislocStep \/ Finish \/ Crash \/ ReadBlock \/ ReadDone
       \/ Barrier \/ OutputDone) => files' = files
  BY DEF Begin, StartAgain, DislocStep, Finish, Crash, ReadBlock, ReadDone, Barrier,
         OutputDone, files
<1> QED BY <1>1, <1>2, <1>3, <1>4, <1>5 DEF Next, Progress, DomainStep

\* The name of a set is written only when the set holds the network in
\* memory, every line once, and a numbered set that is named is not touched,
\* whatever is stopped between whichever two steps and started again.
THEOREM NamedSetsAreSaved == Spec => LatestIsComplete
BY SaveInvariance, LatestStep, PTL DEF Spec, LatestIsComplete

-----------------------------------------------------------------------------
(* Reading a set.                                                          *)

InMemory(l) == \E d \in Domain : l \in net[d]
ToCome(l)   == \E d \in Domain : l \in ToSet(unread[d])

\* Every line of the set is in memory or with a reader, and none beside.
ReadInv ==
  origin \in Name =>
    /\ phase \in {"read", "fatal", "loop"}
    /\ cycle = ctrl[origin].cycle
    /\ Written(origin) /\ ~Stale(origin) =>
         /\ phase # "fatal"
         /\ phase = "read" =>
              \A l \in Line : l \in ToSet(AllLines(origin)) <=>
                                InMemory(l) \/ ToCome(l)
         /\ phase = "loop" =>
              \A l \in Line : l \in ToSet(AllLines(origin)) <=> InMemory(l)

\* The lines of a set are those of its files.
LEMMA AllLinesIs ==
  ASSUME FilesTyped, NEW s \in Name
  PROVE  /\ ctrl[s].groups \in 1 .. MaxDomains
         /\ \A g \in 0 .. ctrl[s].groups - 1 : File(ctrl[s].groups, g) \in Segments
         /\ AllLines(s) \in Seq(Line)
         /\ \A x : x \in ToSet(AllLines(s)) <=>
              \E g \in 0 .. ctrl[s].groups - 1 :
                x \in ToSet(data[s][File(ctrl[s].groups, g)].body)
<1> DEFINE gs == ctrl[s].groups
           q == [i \in 1 .. gs |-> data[s][File(gs, i - 1)].body]
<1>1. gs \in 1 .. MaxDomains
  BY DEF FilesTyped
<1>2. \A g \in 0 .. gs - 1 : File(gs, g) \in Segments
  BY <1>1, Sizes DEF File, Segments
<1>3. AllLines(s) = FlattenSeq(q)
  BY DEF AllLines
<1> HIDE DEF gs
<1>4. \A i \in 1 .. gs : i - 1 \in 0 .. gs - 1
  BY <1>1, Sizes
<1>5. \A i \in 1 .. gs : data[s][File(gs, i - 1)].body \in Seq(Line)
  BY <1>2, <1>4 DEF FilesTyped, FileType
<1>6. q \in Seq(Seq(Line)) /\ Len(q) = gs
  <2>1. q \in [1 .. gs -> Seq(Line)] /\ gs \in Nat
    BY <1>1, <1>5, Sizes
  <2> QED BY <2>1
<1>7. \A i \in 1 .. gs : q[i] = data[s][File(gs, i - 1)].body
  OBVIOUS
<1> HIDE DEF q
<1>8. /\ FlattenSeq(q) \in Seq(Line)
      /\ \A x : x \in ToSet(FlattenSeq(q)) <=> \E i \in 1 .. gs : x \in ToSet(q[i])
  BY <1>6, Flattened
<1>9. ASSUME NEW x
      PROVE  (\E i \in 1 .. gs : x \in ToSet(q[i])) <=>
               \E g \in 0 .. gs - 1 : x \in ToSet(data[s][File(gs, g)].body)
  <2>1. ASSUME NEW g \in 0 .. gs - 1, x \in ToSet(data[s][File(gs, g)].body)
        PROVE  \E i \in 1 .. gs : x \in ToSet(q[i])
    <3>1. g + 1 \in 1 .. gs /\ g + 1 - 1 = g
      BY <1>1, Sizes
    <3>2. q[g + 1] = data[s][File(gs, g)].body
      BY <1>7, <3>1
    <3> QED BY <2>1, <3>1, <3>2
  <2>2. ASSUME NEW i \in 1 .. gs, x \in ToSet(q[i])
        PROVE  \E g \in 0 .. gs - 1 : x \in ToSet(data[s][File(gs, g)].body)
    BY <1>4, <1>7, <2>2
  <2> QED BY <2>1, <2>2
<1> QED BY <1>1, <1>2, <1>3, <1>8, <1>9 DEF gs

\* A written set is opened where it was written.
LEMMA OpenedWritten ==
  ASSUME FilesTyped, NEW s \in Name, Written(s), ~Stale(s)
  PROVE  /\ Opened(s) = File(ctrl[s].groups, 0)
         /\ Opened(s) = Whole <=> ctrl[s].groups = 1
         /\ data[s][Opened(s)].head.segments = ctrl[s].groups
         /\ data[s][Opened(s)].head.count = Len(AllLines(s))
         /\ Len(AllLines(s)) \in Nat
<1>1. ctrl[s].groups \in Nat \ {0} /\ Len(AllLines(s)) \in Nat
  BY AllLinesIs, Sizes
<1>2. data[s][File(ctrl[s].groups, 0)].head = Prologue(Len(AllLines(s)), ctrl[s].groups)
  BY DEF Written
<1>3. Opened(s) = File(ctrl[s].groups, 0) /\ (Opened(s) = Whole <=> ctrl[s].groups = 1)
  <2>1. CASE ctrl[s].groups = 1
    <3>1. File(ctrl[s].groups, 0) = Whole
      BY <2>1 DEF File
    <3>2. data[s][Whole].head.count # None
      BY <1>1, <1>2, <3>1 DEF Prologue, None
    <3>3. data[s][Whole] # Missing
      BY <3>2 DEF Missing, Prologue
    <3> QED BY <2>1, <3>1, <3>3 DEF Opened
  <2>2. CASE ctrl[s].groups # 1
    <3>1. data[s][Whole] = Missing
      BY <1>1, <2>2 DEF Stale
    <3> QED BY <2>2, <3>1 DEF Opened, File, Whole
  <2> QED BY <2>1, <2>2
<1> QED BY <1>1, <1>2, <1>3 DEF Prologue

\* The readers have all the lines of the set between them.
LEMMA AllShared ==
  ASSUME FilesTyped, NEW s \in Name, Written(s), ~Stale(s),
         NEW doms \in 1 .. MaxDomains, NEW x
  PROVE  x \in ToSet(AllLines(s)) <=> \E d \in 0 .. doms - 1 : x \in ToSet(ToRead(s, d, doms))
<1> DEFINE gs == ctrl[s].groups
           per == Per(s, doms)
<1>0. MaxDomains \in Nat \ {0} /\ AllDomains = 0 .. MaxDomains - 1
  BY Sizes
<1>1. gs \in Nat \ {0} /\ gs <= MaxDomains /\ doms \in Nat \ {0}
  BY <1>0, AllLinesIs
<1>2. /\ Opened(s) = File(gs, 0) /\ (Opened(s) = Whole <=> gs = 1)
      /\ data[s][Opened(s)].head.segments = gs
  BY OpenedWritten
<1>3. x \in ToSet(AllLines(s)) <=> \E g \in 0 .. gs - 1 : x \in ToSet(data[s][File(gs, g)].body)
  BY AllLinesIs
<1>4. data[s][Opened(s)].head.segments # 0
  BY <1>1, <1>2
<1>5. CASE gs = 1
  <2>1. Opened(s) = Whole /\ File(gs, 0) = Whole /\ 0 .. gs - 1 = {0}
    BY <1>2, <1>5
  <2>2. x \in ToSet(AllLines(s)) <=> x \in ToSet(data[s][Whole].body)
    BY <1>3, <2>1
  <2>3. \A d \in 0 .. doms - 1 :
           x \in ToSet(ToRead(s, d, doms)) <=> d = 0 /\ x \in ToSet(data[s][Whole].body)
    BY <1>4, <2>1, ToReadIs
  <2>4. 0 \in 0 .. doms - 1
    BY <1>1
  <2> QED BY <2>2, <2>3, <2>4
<1>6. CASE gs # 1
  <2>1. Opened(s) # Whole
    BY <1>2, <1>6
  <2>2. \A g \in 0 .. gs - 1 : File(gs, g) = g
    BY <1>6 DEF File
  <2>3. \A d \in 0 .. doms - 1 :
           x \in ToSet(ToRead(s, d, doms)) <=>
             \E g \in InShare(s, d, doms) : x \in ToSet(data[s][g].body)
    BY <1>4, <2>1, ToReadIs
  <2>4. per \in Nat \ {0} /\ gs <= per * doms
    <3>1. per = SegsPerReader(gs, ReadTasks(doms, gs))
      BY <1>2 DEF Per
    <3> HIDE DEF gs
    <3> QED BY <1>1, <3>1, Shares
  <2>5. \A d \in 0 .. doms - 1 : InShare(s, d, doms) =
           {g \in AllDomains : g < gs /\ d * per <= g /\ g < d * per + per}
    BY <1>2 DEF InShare
  <2> HIDE DEF gs, per
  <2>6. ASSUME NEW g \in 0 .. gs - 1
        PROVE  \E d \in 0 .. doms - 1 : g \in InShare(s, d, doms)
    <3> DEFINE d == g \div per
    <3>1. g \in Nat /\ g < gs /\ g \in AllDomains
      BY <1>0, <1>1
    <3>2. d \in Nat /\ per * d <= g /\ g < per * d + per
      BY <2>4, <3>1, Quotients
    <3> HIDE DEF d
    <3>3. per * d = d * per /\ per * doms = doms * per /\ d * per \in Nat /\ doms * per \in Nat
      BY <1>1, <2>4, <3>2, Products
    <3>4. d < doms
      <4>1. d * per < doms * per
        BY <1>1, <2>4, <3>1, <3>2, <3>3
      <4> QED BY <1>1, <2>4, <3>2, <4>1, Products
    <3>5. d \in 0 .. doms - 1
      BY <1>1, <3>2, <3>4
    <3>6. g \in InShare(s, d, doms)
      BY <2>5, <3>1, <3>2, <3>3, <3>5
    <3> QED BY <3>5, <3>6
  <2>7. \A d \in 0 .. doms - 1 : \A g \in InShare(s, d, doms) : g \in 0 .. gs - 1
    BY <1>0, <1>1, <2>5
  <2>8. x \in ToSet(AllLines(s)) <=> \E g \in 0 .. gs - 1 : x \in ToSet(data[s][g].body)
    BY <1>3, <2>2 DEF gs
  <2> QED BY <2>3, <2>6, <2>7, <2>8
<1> QED BY <1>5, <1>6

\* Starting from a written set, the readers have all its lines.
LEMMA StartAgainRead == ASSUME IInv, SInv, StartAgain PROVE ReadInv'
<1> DEFINE head == data[latest][Opened(latest)].head
           reads == ctrl[latest].state # Torn /\ head.count >= 0
<1>0. PICK j \in Jobs, pl \in Placements :
        /\ job' = j
        /\ phase' = IF reads THEN "read" ELSE "fatal"
        /\ unread' = [d \in AllDomains |->
                        IF reads /\ d < j.domains THEN ToRead(latest, d, j.domains)
                        ELSE <<>>]
  BY DEF StartAgain
<1>1. /\ phase = "down" /\ latest \in Name
      /\ origin' = latest /\ cycle' = ctrl[latest].cycle
      /\ UNCHANGED <<ctrl, data, net>>
  BY DEF StartAgain, files
<1>2. phase' \in {"read", "fatal"} /\ cycle' = ctrl'[origin'].cycle
  BY <1>0, <1>1
<1>3. ASSUME Written(latest), ~Stale(latest)
      PROVE  /\ phase' = "read"
             /\ \A l \in Line : l \in ToSet(AllLines(latest)) <=>
                                  InMemory(l)' \/ ToCome(l)'
  <2>0. FilesTyped /\ StateTyped
    BY DEF IInv
  <2>1. reads
    <3>1. ctrl[latest].state = latest /\ latest # Torn
      BY <1>1, <1>3, BoundsAssumption DEF Written, Name, Number, Final, Torn
    <3>2. head.count \in Nat
      BY <1>1, <1>3, <2>0, OpenedWritten
    <3> QED BY <3>1, <3>2
  <2> HIDE DEF reads
  <2>2. phase' = "read"
    BY <1>0, <2>1
  <2>3. j.domains \in 1 .. MaxDomains /\ MaxDomains \in Nat
        /\ AllDomains = 0 .. MaxDomains - 1
    BY Sizes
  <2>4. Domain' = 0 .. j.domains - 1 /\ Domain' \subseteq AllDomains
    BY <1>0, <2>3 DEF Domain
  <2>5. \A d \in Domain' : unread'[d] = ToRead(latest, d, j.domains)
    BY <1>0, <2>1, <2>3, <2>4
  <2>6. \A l : ~InMemory(l)'
    BY <1>1, <2>4 DEF SInv, PlaceInv, InMemory
  <2>7. ASSUME NEW l
        PROVE  l \in ToSet(AllLines(latest)) <=> ToCome(l)'
    <3>1. l \in ToSet(AllLines(latest)) <=>
            \E d \in 0 .. j.domains - 1 : l \in ToSet(ToRead(latest, d, j.domains))
      BY <1>1, <1>3, <2>0, <2>3, AllShared
    <3> QED BY <2>4, <2>5, <3>1 DEF ToCome
  <2> QED BY <2>2, <2>6, <2>7
<1>4. AllLines(latest) = AllLines(origin)' /\ (Written(origin)' <=> Written(latest))
      /\ (Stale(origin)' <=> Stale(latest))
  BY <1>1 DEF AllLines, Written, Stale
<1> QED BY <1>1, <1>2, <1>3, <1>4 DEF ReadInv

\* A block goes from the readers into memory, whole.
LEMMA ReadBlockRead == ASSUME IInv, ReadInv, ReadBlock PROVE ReadInv'
<1>0. /\ phase = "read" /\ phase' = "read"
      /\ UNCHANGED <<ctrl, data, cycle, place, origin>>
      /\ Domain' = Domain
  BY DEF ReadBlock, files, run, Domain
<1>1. Domain \subseteq AllDomains /\ job.domains \in Nat \ {0}
      /\ Domain = 0 .. job.domains - 1
  BY Domains, Sizes DEF IInv, Domain
<1>2. ASSUME NEW e \in Domain
      PROVE  /\ unread[e] \in Seq(Line) /\ Block(e) \in Nat
             /\ Block(e) <= Len(unread[e])
             /\ unread'[e] = SubSeq(unread[e], Block(e) + 1, Len(unread[e]))
  <2>1. e \in AllDomains /\ unread[e] \in Seq(Line)
    BY <1>1 DEF IInv, StateTyped
  <2>2. Block(e) \in Nat /\ Block(e) <= Len(unread[e])
    BY <2>1, BoundsAssumption DEF Block
  <2>3. unread' = [d \in AllDomains |-> SubSeq(unread[d], Block(d) + 1, Len(unread[d]))]
    BY DEF ReadBlock
  <2> QED BY <2>1, <2>2, <2>3
<1> DEFINE First(e) == {unread[e][i] : i \in 1 .. Block(e)}
<1>3. ASSUME NEW e \in Domain, NEW l
      PROVE  l \in ToSet(unread[e]) <=> l \in First(e) \/ l \in ToSet(unread'[e])
  <2> DEFINE s == unread[e]
             b == Block(e)
             r == SubSeq(s, b + 1, Len(s))
  <2>1. s \in Seq(Line) /\ b \in Nat /\ b <= Len(s) /\ Len(s) \in Nat /\ unread'[e] = r
    BY <1>2
  <2> HIDE DEF s, b
  <2>2. Len(r) = Len(s) - b /\ \A i \in 1 .. Len(s) - b : r[i] = s[b + i]
    BY <2>1
  <2>3. DOMAIN s = 1 .. Len(s) /\ DOMAIN r = 1 .. Len(s) - b
    BY <2>1, <2>2
  <2> HIDE DEF r
  <2>4. ASSUME NEW i \in 1 .. Len(s)
        PROVE  s[i] \in {s[k] : k \in 1 .. b} \/ s[i] \in ToSet(r)
    <3>1. CASE i <= b
      BY <2>1, <3>1
    <3>2. CASE ~(i <= b)
      <4>1. i - b \in 1 .. Len(s) - b /\ b + (i - b) = i
        BY <2>1, <3>2
      <4>2. r[i - b] = s[i]
        BY <2>2, <4>1
      <4> QED BY <2>3, <4>1, <4>2 DEF ToSet
    <3> QED BY <3>1, <3>2
  <2>5. ASSUME NEW i \in 1 .. b PROVE s[i] \in ToSet(s)
    BY <2>1, <2>3 DEF ToSet
  <2>6. ASSUME NEW i \in 1 .. Len(s) - b PROVE r[i] \in ToSet(s)
    <3>1. b + i \in 1 .. Len(s)
      BY <2>1
    <3> QED BY <2>2, <2>3, <3>1 DEF ToSet
  <2>7. First(e) = {s[k] : k \in 1 .. b}
    BY DEF s, b
  <2>8. l \in ToSet(s) <=> l \in {s[k] : k \in 1 .. b} \/ l \in ToSet(r)
    BY <2>3, <2>4, <2>5, <2>6 DEF ToSet
  <2> QED BY <2>1, <2>7, <2>8 DEF s
<1>4. \A e \in Domain : First(e) \subseteq Line
  BY <1>2
<1>5. ASSUME NEW l \in Line
      PROVE  InMemory(l)' <=> InMemory(l) \/ \E e \in Domain : l \in First(e)
  <2> DEFINE Sent(e, d) == {unread[e][i] : i \in {k \in 1 .. Block(e) :
                              place[unread[e][k][1]] % job.domains = d}}
  <2>1. \A d \in Domain : net'[d] = net[d] \cup UNION {Sent(e, d) : e \in Domain}
    BY <1>1 DEF ReadBlock
  <2>2. \A e, d \in Domain : Sent(e, d) \subseteq First(e)
    OBVIOUS
  <2>3. ASSUME NEW e \in Domain, l \in First(e)
        PROVE  \E d \in Domain : l \in Sent(e, d)
    <3> DEFINE d == place[l[1]] % job.domains
    <3>1. l[1] \in Node /\ place[l[1]] \in Nat
      BY DEF Line, IInv, StateTyped
    <3>2. d \in Domain
      BY <1>1, <3>1
    <3>3. PICK i \in 1 .. Block(e) : l = unread[e][i]
      BY <2>3
    <3>4. l \in Sent(e, d)
      BY <3>3
    <3> QED BY <3>2, <3>4
  <2> HIDE DEF Sent
  <2>4. InMemory(l)' <=> \E d \in Domain : l \in net'[d]
    BY <1>0 DEF InMemory
  <2> HIDE DEF First
  <2> QED BY <2>1, <2>2, <2>3, <2>4 DEF InMemory
<1> HIDE DEF First
<1>6. ASSUME NEW l \in Line
      PROVE  InMemory(l)' \/ ToCome(l)' <=> InMemory(l) \/ ToCome(l)
  BY <1>0, <1>3, <1>5 DEF ToCome
<1>7. AllLines(origin)' = AllLines(origin) /\ (Written(origin)' <=> Written(origin))
      /\ (Stale(origin)' <=> Stale(origin)) /\ ctrl'[origin'].cycle = ctrl[origin].cycle
  BY <1>0 DEF AllLines, Written, Stale
<1> QED BY <1>0, <1>6, <1>7 DEF ReadInv

\* What is in memory, when no domain has anything left to read.
LEMMA ReadDoneRead == ASSUME IInv, ReadInv, ReadDone PROVE ReadInv'
<1>0. /\ phase = "read" /\ \A d \in Domain : unread[d] = <<>>
      /\ phase' = IF NodeCount = data[origin][Opened(origin)].head.count
                  THEN "loop" ELSE "fatal"
      /\ UNCHANGED <<ctrl, data, cycle, net, origin>> /\ Domain' = Domain
  BY DEF ReadDone, files, run, input, Domain
<1>1. origin \in Name /\ cycle = ctrl[origin].cycle /\ FilesTyped
  BY <1>0 DEF IInv, RunInv, ReadInv
<1>2. ASSUME Written(origin), ~Stale(origin)
      PROVE  /\ phase' = "loop"
             /\ \A l \in Line : l \in ToSet(AllLines(origin)) <=> InMemory(l)
  <2>1. \A l : ~ToCome(l)
    BY <1>0 DEF ToCome, ToSet
  <2>2. \A l \in Line : l \in ToSet(AllLines(origin)) <=> InMemory(l)
    BY <1>0, <1>1, <1>2, <2>1 DEF ReadInv
  <2>3. AllLines(origin) \in Seq(Line) /\ IsInjective(AllLines(origin))
    BY <1>1, <1>2, AllLinesIs DEF Written
  <2>4. UNION {net[d] : d \in Domain} \in SUBSET Line
    BY Counted DEF IInv
  <2>5. UNION {net[d] : d \in Domain} = ToSet(AllLines(origin))
    <3>1. ToSet(AllLines(origin)) \subseteq Line
      BY <2>3 DEF ToSet
    <3>2. \A l \in Line : InMemory(l) <=> l \in UNION {net[d] : d \in Domain}
      BY DEF InMemory
    <3> QED BY <2>2, <2>4, <3>1, <3>2
  <2>6. NodeCount = Len(AllLines(origin))
    BY <2>3, <2>5, LengthOfInjective DEF NodeCount
  <2>7. data[origin][Opened(origin)].head.count = Len(AllLines(origin))
    BY <1>1, <1>2, OpenedWritten
  <2> QED BY <1>0, <2>2, <2>6, <2>7
<1>3. AllLines(origin)' = AllLines(origin) /\ (Written(origin)' <=> Written(origin))
      /\ (Stale(origin)' <=> Stale(origin)) /\ ctrl'[origin'].cycle = ctrl[origin].cycle
      /\ \A l : InMemory(l)' <=> InMemory(l)
  BY <1>0 DEF AllLines, Written, Stale, InMemory
<1>4. phase' \in {"loop", "fatal"}
  BY <1>0
<1> QED BY <1>0, <1>1, <1>2, <1>3, <1>4 DEF ReadInv

\* Every step keeps where the lines of the set read are.
LEMMA ReadStep == IInv /\ SInv /\ ReadInv /\ [Next]_vars => ReadInv'
<1> SUFFICES ASSUME IInv, SInv, ReadInv, [Next]_vars PROVE ReadInv'
  OBVIOUS
<1>0. None \notin Name
  BY DEF None, Name, Number, Final
<1>1. ASSUME origin' = None PROVE ReadInv'
  BY <1>0, <1>1 DEF ReadInv
<1>2. ASSUME phase \notin {"read", "fatal", "loop"}, origin' = origin PROVE ReadInv'
  <2>1. origin \notin Name
    BY <1>2 DEF ReadInv
  <2> QED BY <1>2, <2>1 DEF ReadInv
<1>3. CASE UNCHANGED vars
  <2>1. /\ UNCHANGED <<ctrl, data, cycle, phase, origin>>
        /\ AllLines(origin)' = AllLines(origin) /\ (Written(origin)' <=> Written(origin))
        /\ (Stale(origin)' <=> Stale(origin))
        /\ \A l : (InMemory(l)' <=> InMemory(l)) /\ (ToCome(l)' <=> ToCome(l))
    BY <1>3 DEF vars, files, run, input, AllLines, Written, Stale, InMemory, ToCome, Domain
  <2> QED BY <2>1 DEF ReadInv
<1>4. CASE Begin
  BY <1>2, <1>4 DEF Begin, input
<1>5. CASE DislocStep \/ Finish
  BY <1>1, <1>5 DEF DislocStep, Finish
<1>6. CASE Crash
  BY <1>1, <1>6 DEF Crash, Down
<1>7. ASSUME phase = "output", UNCHANGED same PROVE ReadInv'
  BY <1>2, <1>7 DEF same, input
<1>8. ASSUME NEW d \in AllDomains, DomainStep(d) PROVE ReadInv'
  BY <1>7, <1>8 DEF DomainStep, TakeTurn, OpenCtrl, WriteCtrl, OpenData, WriteType, At
<1>9. CASE Barrier \/ SetLatestRestart
  BY <1>7, <1>9 DEF Barrier, SetLatestRestart
<1>10. CASE OutputDone
  BY <1>1, <1>2, <1>10 DEF OutputDone, Down, input
<1> QED BY <1>3, <1>4, <1>5, <1>6, <1>8, <1>9, <1>10, StartAgainRead, ReadBlockRead,
           ReadDoneRead DEF Next, Progress

\* The invariant gives the property.
LEMMA NetworkFromInv == IInv /\ SInv /\ ReadInv => NetworkRead
<1> SUFFICES ASSUME IInv, SInv, ReadInv, origin \in Name, Written(origin), ~Stale(origin)
             PROVE  /\ phase # "fatal"
                    /\ phase = "loop" =>
                         /\ UNION {net[d] : d \in Domain} = ToSet(AllLines(origin))
                         /\ \A d, e \in Domain : d # e => net[d] \cap net[e] = {}
                         /\ cycle = ctrl[origin].cycle
  BY DEF NetworkRead
<1>1. phase # "fatal" /\ cycle = ctrl[origin].cycle
      /\ (phase = "loop" =>
            \A l \in Line : l \in ToSet(AllLines(origin)) <=> InMemory(l))
  BY DEF ReadInv
<1>2. ASSUME phase = "loop"
      PROVE  UNION {net[d] : d \in Domain} = ToSet(AllLines(origin))
  <2>1. UNION {net[d] : d \in Domain} \in SUBSET Line
    BY Counted DEF IInv
  <2>2. ToSet(AllLines(origin)) \subseteq Line
    BY AllLinesIs DEF IInv, ToSet
  <2>3. \A l \in Line : InMemory(l) <=> l \in UNION {net[d] : d \in Domain}
    BY DEF InMemory
  <2> QED BY <1>1, <1>2, <2>1, <2>2, <2>3
<1>3. phase = "loop" => \A d, e \in Domain : d # e => net[d] \cap net[e] = {}
  BY Domains DEF IInv, SInv, PlaceInv
<1> QED BY <1>1, <1>2, <1>3

\* Starting from a written set never fails, and gives its network and its
\* cycle, every node in one domain, whatever the numbers of domains and of
\* groups it was written with and is read with.
THEOREM NetworkIsRead == Spec => []NetworkRead
<1>1. Init => ReadInv
  BY DEF Init, ReadInv, None, Name, Number, Final
<1>2. IInv /\ SInv /\ ReadInv /\ [Next]_vars => ReadInv'
  BY ReadStep
<1>3. IInv /\ SInv /\ ReadInv => NetworkRead
  BY NetworkFromInv
<1> QED BY SaveInvariance, <1>1, <1>2, <1>3, PTL DEF Spec

=============================================================================
