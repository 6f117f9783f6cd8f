--------------------------- MODULE MatchingProofs ---------------------------
(***************************************************************************)
(* What the two matching algorithms of the committee return, for any       *)
(* assets and amounts and any number of intents: matchIntents, which pairs *)
(* equal or partly filled intents by amount, and matchPricedIntents, which *)
(* pairs priced ones that fill each other.                                 *)
(***************************************************************************)
EXTENDS IntentMatching, TLAPS

-----------------------------------------------------------------------------
(* matchIntents. *)

MatchConstants == Amounts \subseteq Nat /\ MaxIntents \in Nat

\* The sequence lists every element of the set once.
Lists(s, S) ==
    /\ s \in Seq(S)
    /\ \A x \in S : \E p \in 1 .. Len(s) : s[p] = x
    /\ \A p, q \in 1 .. Len(s) : p # q => s[p] # s[q]

Ascending(s) ==
    \A p, q \in 1 .. Len(s) : p < q => intents[s[p]].amount <= intents[s[q]].amount

\* Of the members of S the smallest are in U.
LowFirst(S, U) ==
    \A x \in S \intersect U, y \in S \ U : intents[x].amount <= intents[y].amount

\* Two sides G and R of a pair of assets from which nothing can be matched any
\* more when U are used.
Parted(G, R, U) ==
    IF G = R THEN \A x, y \in G \ U : x = y
    ELSE G \subseteq U \/ R \subseteq U

\* Two different sides: the indices have passed what is used, and nothing else.
Across(G, R, U, s, r, a, b) ==
    /\ \A p \in 1 .. Len(s) : s[p] \in U <=> p < a
    /\ \A p \in 1 .. Len(r) : r[p] \in U <=> p < b

\* x was passed by the first index, or by the second before it came to n.
PassedBy(x, s, r, a, n) ==
    \/ \E p \in 1 .. Len(s) : p < a /\ x = s[p]
    \/ \E p \in 1 .. Len(r) : p < n /\ x = r[p]

\* One side walked by both indices: what they have passed is used, except for
\* the intent at the first, which the second may have passed; everything used
\* was passed, and none of it by the second index after it has passed the
\* intent the first still stands at.
Within(G, U, s, r, a, b) ==
    /\ \A p \in 1 .. Len(s) : p < a => s[p] \in U
    /\ \A p \in 1 .. Len(r) : p < b => r[p] \in U \/ (a <= Len(s) /\ r[p] = s[a])
    /\ \A x \in G \intersect U : PassedBy(x, s, r, a, b)
    /\ a <= Len(s) /\ s[a] \notin U =>
           \A n \in 1 .. Len(r) : n < b /\ r[n] = s[a] =>
               \A x \in G \intersect U : PassedBy(x, s, r, a, n)

Walk(G, R, U, s, r, a, b) ==
    \/ Parted(G, R, U)
    \/ G # R /\ Across(G, R, U, s, r, a, b)
    \/ G = R /\ Within(G, U, s, r, a, b)

Sides2(G, R, s, r, a, b) ==
    /\ G = R \/ G \intersect R = {}
    /\ Lists(s, G) /\ Lists(r, R)
    /\ a \in Nat \ {0} /\ b \in Nat \ {0}

\* What two listed sides are.
LEMMA SidesFacts ==
    ASSUME NEW G, NEW R, NEW s, NEW r, NEW a, NEW b, Sides2(G, R, s, r, a, b)
    PROVE  /\ Len(s) \in Nat /\ Len(r) \in Nat /\ a \in Nat /\ b \in Nat /\ a >= 1 /\ b >= 1
           /\ \A x \in G : \E p \in 1 .. Len(s) : x = s[p]
           /\ \A x \in R : \E p \in 1 .. Len(r) : x = r[p]
           /\ \A p \in 1 .. Len(s) : s[p] \in G
           /\ \A p \in 1 .. Len(r) : r[p] \in R
<1>1. s \in Seq(G) /\ r \in Seq(R)
    BY DEF Sides2, Lists
<1>2. Len(s) \in Nat /\ Len(r) \in Nat
    BY <1>1
<1>3. /\ \A p \in 1 .. Len(s) : s[p] \in G
      /\ \A p \in 1 .. Len(r) : r[p] \in R
    BY <1>1
<1>4. a \in Nat /\ b \in Nat /\ a >= 1 /\ b >= 1
    BY DEF Sides2
<1>5. /\ \A x \in G : \E p \in 1 .. Len(s) : x = s[p]
      /\ \A x \in R : \E p \in 1 .. Len(r) : x = r[p]
    BY Zenon DEF Sides2, Lists
<1> QED BY <1>2, <1>3, <1>4, <1>5

\* Two sides of which nothing is used, or the two of a pair of assets that was
\* done before, can be walked from their beginnings.
LEMMA WalkStarts ==
    ASSUME NEW G, NEW R, NEW U, NEW s, NEW r, Sides2(G, R, s, r, 1, 1),
           U \intersect G = {}, U \intersect R = {}
    PROVE  Walk(G, R, U, s, r, 1, 1)
<1>1. /\ \A p \in 1 .. Len(s) : s[p] \in G
      /\ \A p \in 1 .. Len(r) : r[p] \in R
    BY DEF Sides2, Lists
<1>2. CASE G # R
    <2>1. Across(G, R, U, s, r, 1, 1)
        BY <1>1 DEF Across, Sides2, Lists
    <2> QED BY <1>2, <2>1 DEF Walk
<1>3. CASE G = R
    <2>1. Within(G, U, s, r, 1, 1)
        BY <1>1 DEF Within, Sides2, Lists
    <2> QED BY <1>3, <2>1 DEF Walk
<1> QED BY <1>2, <1>3

\* Passing a used intent of the first side.
LEMMA WalkSkipsA ==
    ASSUME NEW G, NEW R, NEW U, NEW s, NEW r, NEW a, NEW b, Sides2(G, R, s, r, a, b),
           Walk(G, R, U, s, r, a, b),
           a <= Len(s), b <= Len(r), s[a] \in U
    PROVE  Walk(G, R, U, s, r, a + 1, b)
<1>1. a \in 1 .. Len(s) /\ Len(s) \in Nat /\ Len(r) \in Nat /\ b \in Nat \ {0}
    BY SidesFacts
<1>2. ~Across(G, R, U, s, r, a, b)
    BY <1>1 DEF Across
<1>3. CASE G = R /\ Within(G, U, s, r, a, b)
    <2>1. \A p \in 1 .. Len(s) : p < a + 1 => s[p] \in U
        BY <1>1, <1>3 DEF Within
    <2>2. \A p \in 1 .. Len(r) : p < b => r[p] \in U
        BY <1>1, <1>3 DEF Within
    <2>3. \A x \in G \intersect U : PassedBy(x, s, r, a + 1, b)
        BY <1>1, <1>3 DEF Within, PassedBy
    <2>4. Within(G, U, s, r, a + 1, b)
        BY <2>1, <2>2, <2>3 DEF Within
    <2> QED BY <1>3, <2>4 DEF Walk
<1> QED BY <1>2, <1>3 DEF Walk

\* Passing a used intent of the second side, or the one the first index is at.
LEMMA WalkSkipsB ==
    ASSUME NEW G, NEW R, NEW U, NEW s, NEW r, NEW a, NEW b, Sides2(G, R, s, r, a, b),
           Walk(G, R, U, s, r, a, b),
           a <= Len(s), b <= Len(r), s[a] \notin U, r[b] \in U \/ r[b] = s[a]
    PROVE  Walk(G, R, U, s, r, a, b + 1)
<1>1. /\ a \in 1 .. Len(s) /\ Len(s) \in Nat /\ Len(r) \in Nat /\ b \in 1 .. Len(r)
      /\ s[a] \in G /\ r[b] \in R
    BY SidesFacts
<1>2. G # R => ~Across(G, R, U, s, r, a, b)
    BY <1>1 DEF Across, Sides2
<1>3. CASE G = R /\ Within(G, U, s, r, a, b)
    <2>1. \A p \in 1 .. Len(r) : p < b + 1 => r[p] \in U \/ (a <= Len(s) /\ r[p] = s[a])
        <3> TAKE p \in 1 .. Len(r)
        <3> HAVE p < b + 1
        <3>1. p < b \/ p = b
            BY <1>1
        <3> QED BY <1>1, <1>3, <3>1 DEF Within
    <2>2. \A x \in G \intersect U : PassedBy(x, s, r, a, b + 1)
        BY <1>1, <1>3 DEF Within, PassedBy
    <2>3. ASSUME NEW n \in 1 .. Len(r), n < b + 1, r[n] = s[a], NEW x \in G \intersect U
          PROVE  PassedBy(x, s, r, a, n)
        <3>1. n < b \/ n = b
            BY <1>1, <2>3
        <3> QED BY <1>1, <1>3, <2>3, <3>1 DEF Within
    <2>4. \A p \in 1 .. Len(s) : p < a => s[p] \in U
        BY <1>3 DEF Within
    <2>5. Within(G, U, s, r, a, b + 1)
        BY <2>1, <2>2, <2>3, <2>4 DEF Within
    <2> QED BY <1>3, <2>5 DEF Walk
<1> QED BY <1>2, <1>3 DEF Walk

\* Pairing the intents at the two indices, and passing both.
LEMMA WalkPairs ==
    ASSUME NEW G, NEW R, NEW U, NEW s, NEW r, NEW a, NEW b, Sides2(G, R, s, r, a, b),
           Walk(G, R, U, s, r, a, b),
           a <= Len(s), b <= Len(r), s[a] \notin U, r[b] \notin U, r[b] # s[a],
           NEW V, V = U \union {s[a], r[b]}
    PROVE  \/ G # R /\ Across(G, R, V, s, r, a + 1, b + 1)
           \/ G = R /\ Within(G, V, s, r, a + 1, b + 1)
<1>1. /\ a \in 1 .. Len(s) /\ Len(s) \in Nat /\ Len(r) \in Nat /\ b \in 1 .. Len(r)
      /\ s[a] \in G /\ r[b] \in R
      /\ \A p \in 1 .. Len(s) : s[p] \in G
      /\ \A p \in 1 .. Len(r) : r[p] \in R
    BY SidesFacts
<1>2. ~Parted(G, R, U)
    BY <1>1 DEF Parted
<1>3. CASE G # R /\ Across(G, R, U, s, r, a, b)
    <2>0. \A x \in G : x \notin R
        BY <1>3 DEF Sides2
    <2>1. \A p \in 1 .. Len(s) : s[p] \in V <=> p < a + 1
        <3> TAKE p \in 1 .. Len(s)
        <3>1. s[p] # r[b]
            BY <1>1, <2>0
        <3>2. s[p] = s[a] <=> p = a
            BY <1>1, Zenon DEF Sides2, Lists
        <3>3. s[p] \in U <=> p < a
            BY <1>3 DEF Across
        <3> QED BY <1>1, <3>1, <3>2, <3>3
    <2>2. \A p \in 1 .. Len(r) : r[p] \in V <=> p < b + 1
        <3> TAKE p \in 1 .. Len(r)
        <3>1. r[p] # s[a]
            BY <1>1, <2>0
        <3>2. r[p] = r[b] <=> p = b
            BY <1>1, Zenon DEF Sides2, Lists
        <3>3. r[p] \in U <=> p < b
            BY <1>3 DEF Across
        <3> QED BY <1>1, <3>1, <3>2, <3>3
    <2> QED BY <1>3, <2>1, <2>2 DEF Across
<1>4. CASE G = R /\ Within(G, U, s, r, a, b)
    <2>1. \A p \in 1 .. Len(s) : p < a + 1 => s[p] \in V
        <3> TAKE p \in 1 .. Len(s)
        <3> HAVE p < a + 1
        <3>1. p < a \/ p = a
            BY <1>1
        <3> QED BY <1>1, <1>4, <3>1 DEF Within
    <2>2. \A p \in 1 .. Len(r) : p < b + 1 => r[p] \in V
        <3> TAKE p \in 1 .. Len(r)
        <3> HAVE p < b + 1
        <3>1. p < b \/ p = b
            BY <1>1
        <3> QED BY <1>1, <1>4, <3>1 DEF Within
    <2>3. ASSUME NEW x \in G \intersect V
          PROVE  PassedBy(x, s, r, a + 1, b + 1)
        <3>1. CASE x \in U
            <4>1. PassedBy(x, s, r, a, b)
                BY <1>4, <2>3, <3>1 DEF Within
            <4> QED BY <1>1, <4>1 DEF PassedBy
        <3>2. CASE x = s[a]
            BY <1>1, <3>2 DEF PassedBy
        <3>3. CASE x = r[b]
            BY <1>1, <3>3 DEF PassedBy
        <3> QED BY <2>3, <3>1, <3>2, <3>3
    <2>4. Within(G, V, s, r, a + 1, b + 1)
        BY <2>1, <2>2, <2>3 DEF Within
    <2> QED BY <1>4, <2>4
<1> QED BY <1>2, <1>3, <1>4 DEF Walk

\* What a walk has used of sorted sides are their smallest.
LEMMA WalkIsLowFirst ==
    ASSUME NEW G, NEW R, NEW U, NEW s, NEW r, NEW a, NEW b, Sides2(G, R, s, r, a, b),
           Ascending(s), Ascending(r),
           \/ G # R /\ Across(G, R, U, s, r, a, b)
           \/ G = R /\ Within(G, U, s, r, a, b)
    PROVE  LowFirst(G, U) /\ LowFirst(R, U)
<1>1. /\ Len(s) \in Nat /\ Len(r) \in Nat /\ a \in Nat /\ b \in Nat
      /\ \A x \in G : \E p \in 1 .. Len(s) : x = s[p]
      /\ \A x \in R : \E p \in 1 .. Len(r) : x = r[p]
    BY SidesFacts
<1>2. CASE G # R /\ Across(G, R, U, s, r, a, b)
    <2>1. ASSUME NEW x \in G \intersect U, NEW y \in G \ U
          PROVE  intents[x].amount <= intents[y].amount
        <3>1. PICK p \in 1 .. Len(s), q \in 1 .. Len(s) : x = s[p] /\ y = s[q]
            BY <1>1
        <3>2. p < a /\ ~(q < a)
            BY <1>2, <3>1 DEF Across
        <3>3. p < q
            BY <1>1, <3>2
        <3> QED BY <3>1, <3>3 DEF Ascending
    <2>2. ASSUME NEW x \in R \intersect U, NEW y \in R \ U
          PROVE  intents[x].amount <= intents[y].amount
        <3>1. PICK p \in 1 .. Len(r), q \in 1 .. Len(r) : x = r[p] /\ y = r[q]
            BY <1>1
        <3>2. p < b /\ ~(q < b)
            BY <1>2, <3>1 DEF Across
        <3>3. p < q
            BY <1>1, <3>2
        <3> QED BY <3>1, <3>3 DEF Ascending
    <2> QED BY <2>1, <2>2 DEF LowFirst
<1>3. CASE G = R /\ Within(G, U, s, r, a, b)
    <2>1. ASSUME NEW x \in G \intersect U, NEW y \in G \ U
          PROVE  intents[x].amount <= intents[y].amount
        <3>1. PICK q \in 1 .. Len(s), w \in 1 .. Len(r) : y = s[q] /\ y = r[w]
            BY <1>1, <1>3
        <3>2. ~(q < a)
            BY <1>3, <2>1, <3>1, Zenon DEF Within
        <3>3. PassedBy(x, s, r, a, b)
            BY <1>3 DEF Within
        <3>4. ASSUME NEW p \in 1 .. Len(s), p < a, x = s[p]
              PROVE  intents[x].amount <= intents[y].amount
            <4>1. p < q
                BY <1>1, <3>2, <3>4
            <4> QED BY <3>1, <3>4, <4>1, Zenon DEF Ascending
        <3>5. ASSUME NEW p \in 1 .. Len(r), p < w, x = r[p]
              PROVE  intents[x].amount <= intents[y].amount
            BY <3>1, <3>5 DEF Ascending
        <3>6. CASE w < b
            <4>1. a <= Len(s) /\ r[w] = s[a] /\ s[a] \notin U
                BY <1>3, <2>1, <3>1, <3>6 DEF Within
            <4>2. PassedBy(x, s, r, a, w)
                BY <1>3, <3>6, <4>1 DEF Within
            <4> QED BY <3>4, <3>5, <4>2 DEF PassedBy
        <3>7. CASE ~(w < b)
            <4>1. \A p \in 1 .. Len(r) : p < b => p < w
                BY <1>1, <3>7
            <4> QED BY <3>3, <3>4, <3>5, <4>1 DEF PassedBy
        <3> QED BY <3>6, <3>7
    <2> QED BY <1>3, <2>1 DEF LowFirst
<1> QED BY <1>2, <1>3

\* A walk that came to an end has left nothing to match.
LEMMA WalkEnds ==
    ASSUME NEW G, NEW R, NEW U, NEW s, NEW r, NEW a, NEW b, Sides2(G, R, s, r, a, b),
           Walk(G, R, U, s, r, a, b), ~(a <= Len(s) /\ b <= Len(r))
    PROVE  Parted(G, R, U)
<1>1. /\ Len(s) \in Nat /\ Len(r) \in Nat /\ a \in Nat /\ b \in Nat
      /\ \A x \in G : \E p \in 1 .. Len(s) : x = s[p]
      /\ \A x \in R : \E p \in 1 .. Len(r) : x = r[p]
    BY SidesFacts
<1>2. \/ \A p \in 1 .. Len(s) : p < a
      \/ a <= Len(s) /\ \A p \in 1 .. Len(r) : p < b
    BY <1>1
<1>3. CASE G # R /\ Across(G, R, U, s, r, a, b)
    BY <1>1, <1>2, <1>3 DEF Across, Parted
<1>4. CASE G = R /\ Within(G, U, s, r, a, b)
    <2>1. CASE \A p \in 1 .. Len(s) : p < a
        <3>1. \A x \in G : x \in U
            BY <1>1, <1>4, <2>1 DEF Within
        <3> QED BY <1>4, <3>1 DEF Parted
    <2>2. CASE \A p \in 1 .. Len(r) : p < b
        <3>1. \A x \in G : x \in U \/ x = s[a]
            BY <1>1, <1>4, <2>2 DEF Within
        <3> QED BY <1>4, <3>1 DEF Parted
    <2> QED BY <1>2, <2>1, <2>2
<1> QED BY <1>3, <1>4 DEF Walk

-----------------------------------------------------------------------------
Keys == Assets \X Assets

PartedKey(key) == Parted(Group(key), Group(ReverseKey(key)), used)

\* A match takes one intent of each side, or two of the only side.
Counted(key) ==
    Cardinality(Group(key) \intersect used) =
        IF key[1] = key[2] THEN 2 * Cardinality(MatchesOf(key)) ELSE Cardinality(MatchesOf(key))

WalkingKey(key) ==
    /\ Sides2(Group(key), Group(ReverseKey(key)), sorted, reverse, ai, bi)
    /\ Ascending(sorted) /\ Ascending(reverse)
    /\ Walk(Group(key), Group(ReverseKey(key)), used, sorted, reverse, ai, bi)

\* Only pairs of assets the loops have come to have been taken from.
Reached ==
    \A x \in used : \E y \in Ids :
        /\ Key(y) = Key(x) \/ Key(y) = ReverseKey(Key(x))
        /\ y < group \/ (y = group /\ sorted # << >>)

Sound ==
    /\ MatchesAreSound
    /\ \A k \in DOMAIN matches : Sides(k) \subseteq used

MatchInv ==
    /\ TypeOK
    /\ sorted = << >> => reverse = << >> /\ ai = 1 /\ bi = 1
    /\ sorted # << >> => group \in groups /\ WalkingKey(Key(group))
    /\ \A x \in Ids : x < group => PartedKey(Key(x))
    /\ Reached
    /\ \A key \in Keys : LowFirst(Group(key), used) /\ Counted(key)
    /\ Sound

INSTANCE FiniteSetTheorems

\* A set of natural numbers that is not empty has a smallest.
LEMMA SmallestOfSet ==
    ASSUME NEW T, T \subseteq Nat, T # {}
    PROVE  \E m \in T : \A k \in T : m <= k
<1> DEFINE R == {ss \in Nat \X Nat : ss[1] < ss[2]}
<1>1. IsWellFoundedOn(R, Nat)  BY NatLessThanWellFounded DEF OpToRel
<1>2. PICK x \in T : \A y \in T : ~(<<y, x>> \in R)
  <2> HIDE DEF R
  <2> QED  BY <1>1, WFMin, Zenon
<1>3. ASSUME NEW y \in T PROVE x <= y
  <2>1. ~(<<y, x>> \in R)  BY <1>2
  <2>2. y \in Nat /\ x \in Nat  OBVIOUS
  <2>3. ~(y < x)  BY <2>1, <2>2
  <2> QED  BY <2>2, <2>3
<1> QED  BY <1>3

\* The groups part the intents by their keys.
LEMMA GroupFacts ==
    ASSUME intents \in Seq(Intent)
    PROVE  /\ Ids = 1 .. Len(intents) /\ Len(intents) \in Nat
           /\ \A x \in Ids : Key(x) \in Keys /\ x \in Group(Key(x)) /\ intents[x].amount \in Amounts
           /\ \A key \in Keys :
                /\ ReverseKey(key) \in Keys /\ ReverseKey(ReverseKey(key)) = key
                /\ (key = ReverseKey(key)) <=> (key[1] = key[2])
                /\ Group(key) \subseteq Ids /\ IsFiniteSet(Group(key))
                /\ \A x \in Group(key) : Key(x) = key
                /\ \A other \in Keys : key = other \/ Group(key) \intersect Group(other) = {}
<1>1. Ids = 1 .. Len(intents) /\ Len(intents) \in Nat
    BY DEF Ids
<1>2. IsFiniteSet(Ids)
    <2>1. 1 \in Int /\ Len(intents) \in Int
        BY <1>1
    <2> QED BY <1>1, <2>1, FS_Interval, Zenon
<1>3. \A key : Group(key) \subseteq Ids /\ IsFiniteSet(Group(key))
    <2> TAKE key
    <2>1. Group(key) \in SUBSET Ids
        BY DEF Group
    <2> QED BY <1>2, <2>1, FS_Subset
<1>4. \A x \in Ids : intents[x] \in Intent
    BY DEF Ids
<1>5. \A x \in Ids : Key(x) \in Keys /\ x \in Group(Key(x)) /\ intents[x].amount \in Amounts
    BY <1>4 DEF Intent, Key, Keys, Group
<1>6. ASSUME NEW key \in Keys
      PROVE  /\ ReverseKey(key) \in Keys /\ ReverseKey(ReverseKey(key)) = key
             /\ (key = ReverseKey(key)) <=> (key[1] = key[2])
    BY <1>6 DEF Keys, ReverseKey
<1>7. \A key, other : /\ \A x \in Group(key) : Key(x) = key
                      /\ key = other \/ Group(key) \intersect Group(other) = {}
    BY DEF Group
<1> QED BY <1>1, <1>3, <1>5, <1>6, <1>7

\* sort lists a group by amount.
LEMMA SortedLists ==
    ASSUME NEW S, IsFiniteSet(S), NEW s \in Sorted(S)
    PROVE  Lists(s, S) /\ Ascending(s) /\ Len(s) = Cardinality(S)
<1>1. PICK n : n = Cardinality(S)
    OBVIOUS
<1>2. n \in Nat
    BY <1>1, FS_CardinalityType
<1>3. /\ s \in [1 .. n -> S]
      /\ \A p, q \in 1 .. n : p # q => s[p] # s[q]
      /\ \A p, q \in DOMAIN s : p < q => intents[s[p]].amount <= intents[s[q]].amount
    BY <1>1 DEF Sorted, Bijection, Injection, IsInjective
<1>4. s \in Seq(S) /\ Len(s) = n
    BY <1>2, <1>3
<1>5. \A x \in S : \E p \in 1 .. n : s[p] = x
    BY <1>1 DEF Sorted, Bijection, Surjection
<1> QED BY <1>1, <1>3, <1>4, <1>5 DEF Lists, Ascending

\* Every key is first seen at an entry of the Map.
LEMMA FirstOfKey ==
    ASSUME intents \in Seq(Intent), NEW x \in Ids
    PROVE  \E f \in groups : f <= x /\ Key(f) = Key(x)
<1> DEFINE T == {y \in Ids : Key(y) = Key(x)}
<1>1. T \subseteq Nat /\ T # {}
    BY GroupFacts
<1>2. PICK f \in T : \A y \in T : f <= y
    <2> HIDE DEF T
    <2> QED BY <1>1, SmallestOfSet, Zenon
<1>3. f \in Ids /\ Key(f) = Key(x) /\ f <= x
    BY <1>2
<1>4. ASSUME NEW y \in Ids, y < f PROVE Key(y) # Key(f)
    <2>1. f \in Nat /\ y \in Nat
        BY <1>1, <1>4, GroupFacts
    <2>2. ~(f <= y)
        BY <1>4, <2>1
    <2> QED BY <1>2, <1>3, <2>2
<1> QED BY <1>3, <1>4 DEF groups

\* The loop goes on to the next group, or to its end.
LEMMA EntryFacts ==
    ASSUME intents \in Seq(Intent), NEW g \in Ids
    PROVE  /\ Entry(g) \in groups \union {Len(intents) + 1}
           /\ Entry(g) > g
           /\ \A h \in groups : h > g => Entry(g) <= h
<1> DEFINE T == {h \in groups : h > g} \union {Len(intents) + 1}
<1>1. T \subseteq Nat /\ T # {} /\ \A h \in T : h > g
    BY GroupFacts DEF groups
<1>2. \E m \in T : \A k \in T : m <= k
    <2> HIDE DEF T
    <2> QED BY <1>1, SmallestOfSet, Zenon
<1>3. Entry(g) = CHOOSE m \in T : \A k \in T : m <= k
    BY DEF Entry, Min
<1>4. Entry(g) \in T /\ \A k \in T : Entry(g) <= k
    <2> HIDE DEF T
    <2> QED BY <1>2, <1>3, Zenon
<1> QED BY <1>1, <1>4

-----------------------------------------------------------------------------

\* The intents never change, and nothing that is said of them alone does.
LEMMA IntentsStay ==
    ASSUME intents' = intents
    PROVE  /\ Ids' = Ids /\ groups' = groups
           /\ \A x : Key(x)' = Key(x)
           /\ \A key : Group(key)' = Group(key)
           /\ \A S, U : LowFirst(S, U)' <=> LowFirst(S, U)
           /\ \A s : Ascending(s)' <=> Ascending(s)
<1>1. Ids' = Ids /\ \A x : Key(x)' = Key(x)
    BY DEF Ids, Key
<1>2. groups' = groups /\ \A key : Group(key)' = Group(key)
    BY <1>1 DEF groups, Group
<1>3. /\ \A S, U : LowFirst(S, U)' <=> LowFirst(S, U)
      /\ \A s : Ascending(s)' <=> Ascending(s)
    BY DEF LowFirst, Ascending
<1> QED BY <1>1, <1>2, <1>3

\* What is said of the matches made stays when none is made.
LEMMA MatchesStay ==
    ASSUME MatchInv, UNCHANGED <<intents, used, matches>>
    PROVE  /\ \A key \in Keys : LowFirst(Group(key), used)' /\ Counted(key)'
           /\ Sound'
           /\ \A key : PartedKey(key)' <=> PartedKey(key)
<1>1. \A key : MatchesOf(key)' = MatchesOf(key)
    BY DEF MatchesOf, Key
<1>2. \A key : Group(key)' = Group(key)
    BY IntentsStay
<1>3. \A key \in Keys : LowFirst(Group(key), used)' /\ Counted(key)'
    BY <1>1, <1>2 DEF MatchInv, LowFirst, Counted
<1>4. Sound'
    BY DEF MatchInv, Sound, MatchesAreSound, Sides, Crosses, Key
<1>5. \A key : PartedKey(key)' <=> PartedKey(key)
    BY <1>2 DEF PartedKey
<1> QED BY <1>3, <1>4, <1>5

\* Nothing is matched at first.
LEMMA MatchInit ==
    ASSUME MatchConstants, Init
    PROVE  MatchInv
<1>1. intents \in Seq(Intent) /\ Len(intents) <= MaxIntents
    BY DEF Init, MatchConstants
<1>2. group \in groups \union {Len(intents) + 1}
    <2>1. CASE Len(intents) = 0
        BY <2>1 DEF Init
    <2>2. CASE Len(intents) # 0
        <3>1. 1 \in Ids /\ \A j \in Ids : ~(j < 1)
            BY <1>1, <2>2 DEF Ids
        <3> QED BY <3>1 DEF groups, Init
    <2> QED BY <2>1, <2>2
<1>3. TypeOK
    <2>1. << >> \in Seq(Ids) /\ Len(<< >>) = 0 /\ << >> \in Seq(Match)
        OBVIOUS
    <2> QED BY <1>1, <1>2, <2>1 DEF TypeOK, Init
<1>4. \A x \in Ids : ~(x < 1)
    BY <1>1, GroupFacts
<1>5. DOMAIN matches = {}
    BY DEF Init
<1>6. \A key : LowFirst(Group(key), used) /\ Counted(key)
    <2> TAKE key
    <2>1. Group(key) \intersect used = {} /\ MatchesOf(key) = {}
        BY <1>5 DEF Init, MatchesOf
    <2>2. Cardinality({}) = 0
        BY FS_EmptySet
    <2> QED BY <2>1, <2>2 DEF LowFirst, Counted
<1>7. Sound
    BY <1>5 DEF Sound, MatchesAreSound
<1>8. Reached /\ sorted = << >> /\ reverse = << >> /\ ai = 1 /\ bi = 1 /\ group = 1
    BY DEF Reached, Init
<1> QED BY <1>3, <1>4, <1>6, <1>7, <1>8 DEF MatchInv

\* The loop comes to a group and sorts both sides.
LEMMA MatchEnters ==
    ASSUME MatchConstants, MatchInv, enter_group
    PROVE  MatchInv'
<1>0. intents \in Seq(Intent)
    BY DEF MatchInv, TypeOK
<1>1. /\ UNCHANGED <<intents, group, ai, bi, used, matches>>
      /\ sorted = << >> /\ ai = 1 /\ bi = 1
      /\ sorted' \in Sorted(Group(Key(group)))
      /\ reverse' \in Sorted(Group(ReverseKey(Key(group))))
    BY DEF enter_group, MatchInv
<1>2. group \in groups /\ group \in Ids
    <2>1. group \in groups \union {Len(intents) + 1} /\ ~(group > Len(intents))
        BY DEF MatchInv, TypeOK, enter_group, Done
    <2>2. Len(intents) \in Nat
        BY <1>0
    <2> QED BY <2>1, <2>2 DEF groups
<1>3. PICK K : K = Key(group)
    OBVIOUS
<1>4. PICK G, R : G = Group(K) /\ R = Group(ReverseKey(K))
    OBVIOUS
<1>5. /\ K \in Keys /\ ReverseKey(K) \in Keys /\ ReverseKey(ReverseKey(K)) = K
      /\ IsFiniteSet(G) /\ IsFiniteSet(R) /\ G \subseteq Ids /\ R \subseteq Ids
      /\ G = R \/ G \intersect R = {}
      /\ group \in G
    BY <1>0, <1>2, <1>3, <1>4, GroupFacts
<1>6. /\ Lists(sorted', G) /\ Lists(reverse', R)
      /\ Ascending(sorted') /\ Ascending(reverse')
    BY <1>1, <1>3, <1>4, <1>5, SortedLists
<1>7. Sides2(G, R, sorted', reverse', ai', bi')
    BY <1>1, <1>5, <1>6 DEF Sides2
<1>8. Walk(G, R, used', sorted', reverse', ai', bi')
    <2>1. CASE \E x \in used : x \in G \/ x \in R
        <3>1. PICK x \in used : x \in G \/ x \in R
            BY <2>1
        <3>2. PICK y \in Ids : /\ Key(y) = Key(x) \/ Key(y) = ReverseKey(Key(x))
                               /\ y < group
            BY <1>1 DEF MatchInv, Reached
        <3>3. Key(x) = K \/ Key(x) = ReverseKey(K)
            BY <1>4, <3>1 DEF Group
        <3>4. Key(y) = K \/ Key(y) = ReverseKey(K)
            BY <1>5, <3>2, <3>3
        <3>5. PartedKey(Key(y))
            BY <3>2 DEF MatchInv
        <3>6. Parted(G, R, used)
            BY <1>4, <1>5, <3>4, <3>5 DEF PartedKey, Parted
        <3> QED BY <1>1, <3>6 DEF Walk
    <2>2. CASE ~\E x \in used : x \in G \/ x \in R
        <3>1. used \intersect G = {} /\ used \intersect R = {}
            BY <2>2
        <3>2. ai' = 1 /\ bi' = 1 /\ used' = used
            BY <1>1
        <3> QED BY <1>7, <3>1, <3>2, WalkStarts
    <2> QED BY <2>1, <2>2
<1>9. WalkingKey(Key(group))'
    <2>1. Key(group)' = K /\ Group(K)' = G /\ Group(ReverseKey(K))' = R
        BY <1>1, <1>3, <1>4 DEF Key, Group, Ids
    <2>2. (Ascending(sorted) /\ Ascending(reverse))'
        BY <1>1, <1>6 DEF Ascending
    <2>3. WalkingKey(K)'
        BY <1>7, <1>8, <2>1, <2>2 DEF WalkingKey
    <2> QED BY <2>1, <2>3
<1>10. TypeOK'
    <2>1. sorted' \in Seq(Ids) /\ reverse' \in Seq(Ids)
        <3>1. sorted' \in Seq(G) /\ reverse' \in Seq(R)
            BY <1>6 DEF Lists
        <3> QED BY <1>5, <3>1
    <2>2. ai' \in 1 .. Len(sorted') + 1 /\ bi' \in 1 .. Len(reverse') + 1
        BY <1>1, <2>1
    <2>3. Ids' = Ids /\ groups' = groups
        BY <1>1, IntentsStay
    <2> QED BY <1>1, <2>1, <2>2, <2>3 DEF TypeOK, MatchInv
<1>11. sorted' # << >>
    <2>1. PICK p \in 1 .. Len(sorted') : sorted'[p] = group
        BY <1>5, <1>6 DEF Lists
    <2> QED BY <2>1
<1>12. /\ \A key \in Keys : LowFirst(Group(key), used)' /\ Counted(key)'
       /\ Sound'
       /\ \A key : PartedKey(key)' <=> PartedKey(key)
    BY <1>1, MatchesStay
<1>13. Ids' = Ids /\ groups' = groups /\ \A x : Key(x)' = Key(x)
    BY <1>1, IntentsStay
<1>14. \A x \in Ids' : x < group' => PartedKey(Key(x))'
    <2> TAKE x \in Ids'
    <2> HAVE x < group'
    <2>1. PartedKey(Key(x))
        BY <1>1, <1>13 DEF MatchInv
    <2>2. PICK k : k = Key(x)
        OBVIOUS
    <2>3. PartedKey(k)' /\ Key(x)' = k
        BY <1>12, <1>13, <2>1, <2>2
    <2> QED BY <2>3
<1>15. Reached'
    BY <1>1, <1>11, <1>13 DEF MatchInv, Reached
<1>16. (group \in groups)'
    BY <1>1, <1>2, <1>13
<1> QED BY <1>9, <1>10, <1>11, <1>12, <1>14, <1>15, <1>16 DEF MatchInv

\* The loop leaves a group it has walked.
LEMMA MatchMovesOn ==
    ASSUME MatchConstants, MatchInv, next_group
    PROVE  MatchInv'
<1>0. intents \in Seq(Intent)
    BY DEF MatchInv, TypeOK
<1>1. /\ UNCHANGED <<intents, used, matches>>
      /\ group' = Entry(group)
      /\ sorted' = << >> /\ reverse' = << >> /\ ai' = 1 /\ bi' = 1
    BY DEF next_group
<1>2. group \in groups /\ group \in Ids
    <2>1. group \in groups \union {Len(intents) + 1} /\ ~(group > Len(intents))
        BY DEF MatchInv, TypeOK, next_group, Done
    <2>2. Len(intents) \in Nat
        BY <1>0
    <2> QED BY <2>1, <2>2 DEF groups
<1>3. /\ Entry(group) \in groups \union {Len(intents) + 1}
      /\ Entry(group) > group
      /\ \A h \in groups : h > group => Entry(group) <= h
    BY <1>0, <1>2, EntryFacts
<1>4. PartedKey(Key(group))
    <2>1. CASE sorted = << >>
        <3>1. Group(ReverseKey(Key(group))) = {}
            BY <2>1 DEF next_group
        <3>2. group \in Group(Key(group))
            BY <1>0, <1>2, GroupFacts
        <3> QED BY <3>1, <3>2 DEF PartedKey, Parted
    <2>2. CASE sorted # << >>
        <3>1. ~(ai <= Len(sorted) /\ bi <= Len(reverse)) /\ WalkingKey(Key(group))
            BY <2>2 DEF next_group, Looping, MatchInv
        <3> QED BY <3>1, WalkEnds DEF WalkingKey, PartedKey
    <2> QED BY <2>1, <2>2
<1>5. /\ \A key \in Keys : LowFirst(Group(key), used)' /\ Counted(key)'
      /\ Sound'
      /\ \A key : PartedKey(key)' <=> PartedKey(key)
    BY <1>1, MatchesStay
<1>6. Ids' = Ids /\ groups' = groups /\ \A x : Key(x)' = Key(x)
    BY <1>1, IntentsStay
<1>7. Ids \subseteq Nat /\ group' \in Nat
    BY <1>0, <1>1, <1>3, GroupFacts DEF groups
<1>8. \A x \in Ids' : x < group' => PartedKey(Key(x))'
    <2> TAKE x \in Ids'
    <2> HAVE x < group'
    <2>1. PICK f \in groups : f <= x /\ Key(f) = Key(x)
        BY <1>0, <1>6, FirstOfKey
    <2>2. f \in Ids /\ f \in Nat /\ x \in Nat /\ group \in Nat
        BY <1>2, <1>6, <1>7 DEF groups
    <2>3. ~(f > group)
        BY <1>1, <1>3, <1>7, <2>1, <2>2
    <2>4. f < group \/ f = group
        BY <2>2, <2>3
    <2>5. PartedKey(Key(f))
        BY <1>4, <2>2, <2>4 DEF MatchInv
    <2>6. PICK k : k = Key(x)
        OBVIOUS
    <2>7. PartedKey(k)' /\ Key(x)' = k
        BY <1>5, <1>6, <2>1, <2>5, <2>6
    <2> QED BY <2>7
<1>9. Reached'
    <2> SUFFICES ASSUME NEW x \in used'
                 PROVE  \E y \in Ids' : /\ Key(y)' = Key(x)' \/ Key(y)' = ReverseKey(Key(x)')
                                        /\ y < group'
        BY DEF Reached, ReverseKey
    <2>1. PICK y \in Ids : /\ Key(y) = Key(x) \/ Key(y) = ReverseKey(Key(x))
                           /\ y < group \/ y = group
        BY <1>1 DEF MatchInv, Reached
    <2>2. y < group'
        BY <1>1, <1>2, <1>3, <1>7, <2>1
    <2> QED BY <1>6, <2>1, <2>2
<1>10. TypeOK'
    <2>1. << >> \in Seq(Ids) /\ Len(<< >>) = 0
        OBVIOUS
    <2>2. /\ intents' \in Seq(Intent) /\ Len(intents') <= MaxIntents
          /\ used' \subseteq Ids' /\ matches' \in Seq(Match)
        BY <1>1, <1>6 DEF TypeOK, MatchInv
    <2>3. group' \in groups' \union {Len(intents') + 1}
        BY <1>1, <1>3, <1>6
    <2>4. {sorted', reverse'} \subseteq Seq(Ids')
        BY <1>1, <1>6, <2>1
    <2>5. ai' \in 1 .. Len(sorted') + 1 /\ bi' \in 1 .. Len(reverse') + 1
        BY <1>1, <2>1
    <2> QED BY <2>2, <2>3, <2>4, <2>5 DEF TypeOK
<1> QED BY <1>1, <1>5, <1>8, <1>9, <1>10 DEF MatchInv

\* A step of an index: the walk goes on, and nothing else of the invariant is
\* about the indices.
LEMMA MatchSteps ==
    ASSUME MatchConstants, MatchInv, Looping,
           UNCHANGED <<intents, group, sorted, reverse, used, matches>>,
           ai' \in 1 .. Len(sorted) + 1, bi' \in 1 .. Len(reverse) + 1,
           \A G, R : Sides2(G, R, sorted, reverse, ai, bi) /\ Walk(G, R, used, sorted, reverse, ai, bi)
                        => Walk(G, R, used, sorted, reverse, ai', bi')
    PROVE  MatchInv'
<1>0. intents \in Seq(Intent)
    BY DEF MatchInv, TypeOK
<1>1. sorted # << >>
    BY DEF Looping, MatchInv, TypeOK
<1>2. group \in groups /\ WalkingKey(Key(group))
    BY <1>1 DEF MatchInv
<1>3. PICK K : K = Key(group)
    OBVIOUS
<1>4. PICK G, R : G = Group(K) /\ R = Group(ReverseKey(K))
    OBVIOUS
<1>5. Key(group)' = K /\ Group(K)' = G /\ Group(ReverseKey(K))' = R
    BY <1>3, <1>4 DEF Key, Group, Ids
<1>6. /\ Sides2(G, R, sorted, reverse, ai, bi)
      /\ Walk(G, R, used, sorted, reverse, ai, bi)
      /\ Ascending(sorted) /\ Ascending(reverse)
    BY <1>2, <1>3, <1>4 DEF WalkingKey
<1>7. Sides2(G, R, sorted', reverse', ai', bi')
    <2>1. ai' \in Nat \ {0} /\ bi' \in Nat \ {0}
        OBVIOUS
    <2> QED BY <1>6, <2>1 DEF Sides2
<1>8. Walk(G, R, used', sorted', reverse', ai', bi')
    BY <1>6
<1>9. WalkingKey(Key(group))'
    <2>1. (Ascending(sorted) /\ Ascending(reverse))'
        BY <1>6 DEF Ascending
    <2>2. WalkingKey(K)'
        BY <1>5, <1>7, <1>8, <2>1 DEF WalkingKey
    <2> QED BY <1>5, <2>2
<1>10. /\ \A key \in Keys : LowFirst(Group(key), used)' /\ Counted(key)'
       /\ Sound'
       /\ \A key : PartedKey(key)' <=> PartedKey(key)
    BY MatchesStay
<1>11. Ids' = Ids /\ groups' = groups /\ \A x : Key(x)' = Key(x)
    BY IntentsStay
<1>12. \A x \in Ids' : x < group' => PartedKey(Key(x))'
    <2> TAKE x \in Ids'
    <2> HAVE x < group'
    <2>1. PartedKey(Key(x))
        BY <1>11 DEF MatchInv
    <2>2. PICK k : k = Key(x)
        OBVIOUS
    <2>3. PartedKey(k)' /\ Key(x)' = k
        BY <1>10, <1>11, <2>1, <2>2
    <2> QED BY <2>3
<1>13. Reached'
    BY <1>11 DEF MatchInv, Reached
<1>14. TypeOK'
    BY <1>11 DEF TypeOK, MatchInv
<1> QED BY <1>1, <1>2, <1>9, <1>10, <1>11, <1>12, <1>13, <1>14 DEF MatchInv

\* A used intent of the group is skipped.
LEMMA MatchSkipsA ==
    ASSUME MatchConstants, MatchInv, skip_a
    PROVE  MatchInv'
<1>1. /\ Looping /\ UNCHANGED <<intents, group, sorted, reverse, used, matches>>
      /\ ai' = ai + 1 /\ bi' = bi
      /\ ai <= Len(sorted) /\ bi <= Len(reverse) /\ sorted[ai] \in used
    BY DEF skip_a, Looping
<1>2. ai' \in 1 .. Len(sorted) + 1 /\ bi' \in 1 .. Len(reverse) + 1
    BY <1>1 DEF MatchInv, TypeOK
<1>3. \A G, R : Sides2(G, R, sorted, reverse, ai, bi) /\ Walk(G, R, used, sorted, reverse, ai, bi)
                   => Walk(G, R, used, sorted, reverse, ai', bi')
    BY <1>1, WalkSkipsA
<1> QED BY <1>1, <1>2, <1>3, MatchSteps

\* A used intent of the reverse group, or the intent itself, is skipped.
LEMMA MatchSkipsB ==
    ASSUME MatchConstants, MatchInv, skip_b
    PROVE  MatchInv'
<1>1. /\ Looping /\ UNCHANGED <<intents, group, sorted, reverse, used, matches>>
      /\ ai' = ai /\ bi' = bi + 1
      /\ ai <= Len(sorted) /\ bi <= Len(reverse) /\ sorted[ai] \notin used
      /\ reverse[bi] \in used \/ reverse[bi] = sorted[ai]
    BY DEF skip_b, Looping
<1>2. ai' \in 1 .. Len(sorted) + 1 /\ bi' \in 1 .. Len(reverse) + 1
    BY <1>1 DEF MatchInv, TypeOK
<1>3. \A G, R : Sides2(G, R, sorted, reverse, ai, bi) /\ Walk(G, R, used, sorted, reverse, ai, bi)
                   => Walk(G, R, used, sorted, reverse, ai', bi')
    BY <1>1, WalkSkipsB
<1> QED BY <1>1, <1>2, <1>3, MatchSteps

\* Two intents are matched.
LEMMA MatchPairs ==
    ASSUME MatchConstants, MatchInv, pair
    PROVE  MatchInv'
<1>0. /\ intents \in Seq(Intent) /\ matches \in Seq(Match) /\ used \subseteq Ids
      /\ ai \in 1 .. Len(sorted) + 1 /\ bi \in 1 .. Len(reverse) + 1
      /\ sorted \in Seq(Ids) /\ reverse \in Seq(Ids)
    BY DEF MatchInv, TypeOK
<1>1. PICK a, b : a = sorted[ai] /\ b = reverse[bi]
    OBVIOUS
<1>2. PICK m : m = [a |-> a, b |-> b, amount |-> Smaller(intents[a].amount, intents[b].amount)]
    BY Zenon
<1>3. /\ ai <= Len(sorted) /\ bi <= Len(reverse)
      /\ a \notin used /\ b \notin used /\ b # a
      /\ matches' = Append(matches, m)
      /\ used' = used \union {a, b}
      /\ ai' = ai + 1 /\ bi' = bi + 1
      /\ UNCHANGED <<intents, group, sorted, reverse>>
    BY <1>1, <1>2 DEF pair, Looping
<1>4. sorted # << >>
    BY <1>0, <1>3
<1>5. group \in groups /\ WalkingKey(Key(group))
    BY <1>4 DEF MatchInv
<1>6. PICK K : K = Key(group)
    OBVIOUS
<1>7. PICK G, R : G = Group(K) /\ R = Group(ReverseKey(K))
    OBVIOUS
<1>8. Key(group)' = K /\ Group(K)' = G /\ Group(ReverseKey(K))' = R
    BY <1>3, <1>6, <1>7 DEF Key, Group, Ids
<1>9. /\ Sides2(G, R, sorted, reverse, ai, bi)
      /\ Walk(G, R, used, sorted, reverse, ai, bi)
      /\ Ascending(sorted) /\ Ascending(reverse)
    BY <1>5, <1>6, <1>7 DEF WalkingKey
<1>10. group \in Ids
    BY <1>5 DEF groups
<1>11. /\ K \in Keys /\ ReverseKey(K) \in Keys /\ ReverseKey(ReverseKey(K)) = K
       /\ IsFiniteSet(G) /\ IsFiniteSet(R) /\ G \subseteq Ids /\ R \subseteq Ids
    BY <1>0, <1>6, <1>7, <1>10, GroupFacts
<1>12. a \in G /\ b \in R
    <2>1. ai \in 1 .. Len(sorted) /\ bi \in 1 .. Len(reverse)
        BY <1>0, <1>3
    <2> QED BY <1>1, <1>9, <2>1, SidesFacts
<1>13. Key(a) = K /\ Key(b) = ReverseKey(K) /\ a \in Ids /\ b \in Ids
    BY <1>7, <1>12 DEF Group
<1>14. Ids' = Ids /\ groups' = groups /\ (\A x : Key(x)' = Key(x)) /\ (\A key : Group(key)' = Group(key))
    BY <1>3, IntentsStay
\* The walk.
<1>15. \/ G # R /\ Across(G, R, used', sorted, reverse, ai', bi')
       \/ G = R /\ Within(G, used', sorted, reverse, ai', bi')
    <2>1. /\ used' = used \union {sorted[ai], reverse[bi]}
          /\ sorted[ai] \notin used /\ reverse[bi] \notin used /\ reverse[bi] # sorted[ai]
        BY <1>1, <1>3
    <2>2. \/ G # R /\ Across(G, R, used', sorted, reverse, ai + 1, bi + 1)
          \/ G = R /\ Within(G, used', sorted, reverse, ai + 1, bi + 1)
        BY <1>3, <1>9, <2>1, WalkPairs, Zenon
    <2> QED BY <1>3, <2>2
<1>16. Sides2(G, R, sorted, reverse, ai', bi')
    <2>1. ai' \in Nat \ {0} /\ bi' \in Nat \ {0}
        BY <1>0, <1>3
    <2> QED BY <1>9, <2>1 DEF Sides2
<1>17. LowFirst(G, used') /\ LowFirst(R, used')
    BY <1>9, <1>15, <1>16, WalkIsLowFirst
<1>18. WalkingKey(Key(group))'
    <2>1. (Ascending(sorted) /\ Ascending(reverse))'
        BY <1>3, <1>9, Zenon DEF Ascending
    <2>2. Walk(G, R, used', sorted', reverse', ai', bi')
        BY <1>3, <1>15 DEF Walk
    <2>3. WalkingKey(K)'
        BY <1>3, <1>8, <1>16, <2>1, <2>2 DEF WalkingKey
    <2> QED BY <1>8, <2>3
\* The groups the loops are through with stay so.
<1>19. \A x \in Ids' : x < group' => PartedKey(Key(x))'
    <2> TAKE x \in Ids'
    <2> HAVE x < group'
    <2>1. PartedKey(Key(x))
        BY <1>3, <1>14 DEF MatchInv
    <2>2. PICK k : k = Key(x)
        OBVIOUS
    <2>3. PartedKey(k)' /\ Key(x)' = k
        BY <1>3, <1>14, <2>1, <2>2 DEF PartedKey, Parted
    <2> QED BY <2>3
<1>20. Reached'
    <2> SUFFICES ASSUME NEW x \in used'
                 PROVE  \E y \in Ids' : /\ Key(y)' = Key(x)' \/ Key(y)' = ReverseKey(Key(x)')
                                        /\ y < group' \/ (y = group' /\ sorted' # << >>)
        BY DEF Reached, ReverseKey
    <2>1. CASE x \in used
        BY <1>3, <1>14, <2>1 DEF MatchInv, Reached
    <2>2. CASE x = a \/ x = b
        <3>1. K = Key(x) \/ K = ReverseKey(Key(x))
            BY <1>11, <1>13, <2>2
        <3> QED BY <1>3, <1>4, <1>6, <1>10, <1>14, <3>1
    <2> QED BY <1>3, <2>1, <2>2
\* Types.
<1>21. /\ intents[a].amount \in Amounts /\ intents[b].amount \in Amounts
       /\ a \in Nat /\ b \in Nat
    BY <1>0, <1>13, GroupFacts
<1>22. m \in Match /\ m.amount <= intents[a].amount /\ m.amount <= intents[b].amount
    <2>1. intents[a].amount \in Nat /\ intents[b].amount \in Nat
        BY <1>21, Zenon DEF MatchConstants
    <2>2. PICK v : v = Smaller(intents[a].amount, intents[b].amount)
        OBVIOUS
    <2>3. v \in Amounts /\ v <= intents[a].amount /\ v <= intents[b].amount
        BY <1>21, <2>1, <2>2 DEF Smaller
    <2>4. m = [a |-> a, b |-> b, amount |-> v]
        BY <1>2, <2>2
    <2> QED BY <1>21, <2>3, <2>4 DEF Match
<1>23. TypeOK'
    <2>1. matches' \in Seq(Match)
        BY <1>0, <1>3, <1>22
    <2>2. used' \subseteq Ids'
        BY <1>0, <1>3, <1>13, <1>14
    <2>3. ai' \in 1 .. Len(sorted') + 1 /\ bi' \in 1 .. Len(reverse') + 1
        BY <1>0, <1>3
    <2> QED BY <1>3, <1>14, <2>1, <2>2, <2>3 DEF MatchInv, TypeOK
\* The matches.
<1>24. PICK n : n = Len(matches) + 1
    OBVIOUS
<1>25. /\ n \in Nat /\ n \notin DOMAIN matches
       /\ DOMAIN matches' = DOMAIN matches \union {n}
       /\ matches'[n] = m
       /\ \A k \in DOMAIN matches : matches'[k] = matches[k]
       /\ IsFiniteSet(DOMAIN matches)
    <2>1. DOMAIN matches = 1 .. Len(matches) /\ Len(matches) \in Nat
        BY <1>0
    <2>2. IsFiniteSet(DOMAIN matches)
        <3>1. 1 \in Int /\ Len(matches) \in Int
            BY <2>1
        <3> QED BY <2>1, <3>1, FS_Interval, Zenon
    <2> QED BY <1>0, <1>3, <1>24, <2>1, <2>2
<1>26. Sound'
    <2>1. /\ Sides(n)' = {a, b}
          /\ \A k \in DOMAIN matches : Sides(k)' = Sides(k) /\ Sides(k) \subseteq used
        <3>1. \A k \in DOMAIN matches : Sides(k) \subseteq used
            BY DEF MatchInv, Sound
        <3>2. \A k \in DOMAIN matches : Sides(k)' = Sides(k)
            BY <1>25 DEF Sides
        <3>3. Sides(n)' = {a, b}
            BY <1>2, <1>25 DEF Sides
        <3> QED BY <3>1, <3>2, <3>3
    <2>2. \A k \in DOMAIN matches' : Sides(k)' \subseteq used'
        BY <1>3, <1>25, <2>1
    <2>3. \A k \in DOMAIN matches' : Crosses(matches[k].a, matches[k].b)'
        <3> TAKE k \in DOMAIN matches'
        <3>1. CASE k = n
            BY <1>2, <1>3, <1>11, <1>13, <1>14, <1>25, <3>1 DEF Crosses
        <3>2. CASE k \in DOMAIN matches
            BY <1>14, <1>25, <3>2, Zenon DEF MatchInv, Sound, MatchesAreSound, Crosses
        <3> QED BY <1>25, <3>1, <3>2
    <2>4. \A k \in DOMAIN matches' : \A i \in Sides(k)' : matches'[k].amount <= intents'[i].amount
        <3> TAKE k \in DOMAIN matches'
        <3>1. CASE k = n
            BY <1>3, <1>22, <1>25, <2>1, <3>1
        <3>2. CASE k \in DOMAIN matches
            BY <1>3, <1>25, <2>1, <3>2 DEF MatchInv, Sound, MatchesAreSound
        <3> QED BY <1>25, <3>1, <3>2, Zenon
    <2>5. \A k, l \in DOMAIN matches' : l # k => Sides(l)' \intersect Sides(k)' = {}
        <3> TAKE k, l \in DOMAIN matches'
        <3> HAVE l # k
        <3>1. CASE k \in DOMAIN matches /\ l \in DOMAIN matches
            BY <2>1, <3>1 DEF MatchInv, Sound, MatchesAreSound
        <3>2. CASE (k = n /\ l \in DOMAIN matches) \/ (l = n /\ k \in DOMAIN matches)
            BY <1>3, <2>1, <3>2
        <3> QED BY <1>25, <3>1, <3>2
    <2> QED BY <2>2, <2>3, <2>4, <2>5 DEF Sound, MatchesAreSound
\* The counts.
<1>27. ASSUME NEW key \in Keys
       PROVE  LowFirst(Group(key), used)' /\ Counted(key)'
    <2>1. /\ LowFirst(Group(key), used) /\ Counted(key)
          /\ IsFiniteSet(Group(key) \intersect used)
          /\ Cardinality(Group(key) \intersect used) \in Nat
        BY <1>0, GroupFacts, FS_Intersection, FS_CardinalityType, Zenon DEF MatchInv
    <2>2. IsFiniteSet(MatchesOf(key)) /\ Cardinality(MatchesOf(key)) \in Nat /\ n \notin MatchesOf(key)
        <3>1. MatchesOf(key) \in SUBSET DOMAIN matches
            BY DEF MatchesOf
        <3> QED BY <1>25, <3>1, FS_Subset, FS_CardinalityType
    <2>3. MatchesOf(key)' =
             IF K = key \/ K = ReverseKey(key) THEN MatchesOf(key) \union {n} ELSE MatchesOf(key)
        <3>1. Key(matches[n].a)' = K
            BY <1>2, <1>3, <1>13, <1>25 DEF Key
        <3>2. \A k \in DOMAIN matches : Key(matches[k].a)' = Key(matches[k].a)
            BY <1>3, <1>25 DEF Key
        <3>3. MatchesOf(key)' =
                  {k \in DOMAIN matches' : Key(matches[k].a)' \in {key, ReverseKey(key)}}
            BY DEF MatchesOf
        <3> QED BY <1>25, <3>1, <3>2, <3>3, Zenon DEF MatchesOf
    <2>4. Group(key)' = Group(key)
        BY <1>14
    <2>5. Cardinality(MatchesOf(key) \union {n}) = Cardinality(MatchesOf(key)) + 1
        BY <2>2, FS_AddElement, Zenon
    <2>6. CASE key # K /\ key # ReverseKey(K)
        <3>1. K # ReverseKey(key)
            BY <1>11, <2>6, GroupFacts, <1>0
        <3>2. a \notin Group(key) /\ b \notin Group(key)
            BY <1>13, <2>6 DEF Group
        <3>3. Group(key) \intersect used' = Group(key) \intersect used
            BY <1>3, <3>2
        <3>4. Group(key) \ used' = Group(key) \ used
            BY <1>3, <3>2
        <3>5. LowFirst(Group(key), used)'
            BY <1>3, <2>1, <2>4, <3>3, <3>4 DEF LowFirst
        <3>6. Counted(key)'
            BY <2>1, <2>3, <2>4, <2>6, <3>1, <3>3, Zenon DEF Counted
        <3> QED BY <3>5, <3>6
    <2>7. CASE key = K \/ key = ReverseKey(K)
        <3>1. K = key \/ K = ReverseKey(key)
            BY <1>11, <2>7
        <3>2. LowFirst(Group(key), used)'
            BY <1>3, <1>7, <1>17, <2>4, <2>7 DEF LowFirst
        <3>3. (key[1] = key[2]) <=> (key = ReverseKey(key))
            BY <1>0, GroupFacts
        <3>4. CASE key = ReverseKey(key)
            <4>1. a \in Group(key) /\ b \in Group(key)
                BY <1>7, <1>11, <1>12, <2>7, <3>4
            <4>2. Group(key) \intersect used' = ((Group(key) \intersect used) \union {a}) \union {b}
                BY <1>3, <4>1
            <4>3. /\ IsFiniteSet((Group(key) \intersect used) \union {a})
                  /\ Cardinality((Group(key) \intersect used) \union {a}) = Cardinality(Group(key) \intersect used) + 1
                BY <1>3, <2>1, FS_AddElement, Zenon
            <4>4. b \notin (Group(key) \intersect used) \union {a}
                BY <1>3
            <4>5. Cardinality(Group(key) \intersect used') = Cardinality(Group(key) \intersect used) + 1 + 1
                BY <4>2, <4>3, <4>4, FS_AddElement, Zenon
            <4>6. Counted(key)'
                BY <2>1, <2>2, <2>3, <2>4, <2>5, <3>1, <3>3, <3>4, <4>5 DEF Counted
            <4> QED BY <3>2, <4>6
        <3>5. CASE key # ReverseKey(key)
            <4>1. PICK c : /\ c \in Group(key) /\ c \notin used
                           /\ Group(key) \intersect used' = (Group(key) \intersect used) \union {c}
                <5>1. CASE key = K
                    <6>1. a \in Group(key) /\ b \notin Group(key)
                        BY <1>7, <1>12, <1>13, <3>5, <5>1 DEF Group
                    <6> QED BY <1>3, <6>1
                <5>2. CASE key = ReverseKey(K)
                    <6>1. b \in Group(key) /\ a \notin Group(key)
                        BY <1>7, <1>11, <1>12, <1>13, <3>5, <5>2 DEF Group
                    <6> QED BY <1>3, <6>1
                <5> QED BY <2>7, <5>1, <5>2
            <4>2. Cardinality(Group(key) \intersect used') = Cardinality(Group(key) \intersect used) + 1
                BY <2>1, <4>1, FS_AddElement
            <4>3. Counted(key)'
                BY <2>1, <2>2, <2>3, <2>4, <2>5, <3>1, <3>3, <3>5, <4>2 DEF Counted
            <4> QED BY <3>2, <4>3
        <3> QED BY <3>4, <3>5
    <2> QED BY <2>6, <2>7
<1>28. (sorted # << >>)' /\ (group \in groups)'
    BY <1>3, <1>4, <1>5, <1>14
<1> QED BY <1>18, <1>19, <1>20, <1>23, <1>26, <1>27, <1>28 DEF MatchInv

\* The invariant holds for any assets, amounts and number of intents.
THEOREM MatchInvariant ==
    ASSUME MatchConstants
    PROVE  Spec => []MatchInv
<1>1. Init => MatchInv
    BY MatchInit
<1>2. MatchInv /\ [Next]_vars => MatchInv'
    <2> SUFFICES ASSUME MatchInv, [Next]_vars PROVE MatchInv'
        OBVIOUS
    <2>1. CASE enter_group
        BY <2>1, MatchEnters
    <2>2. CASE next_group
        BY <2>2, MatchMovesOn
    <2>3. CASE skip_a
        BY <2>3, MatchSkipsA
    <2>4. CASE skip_b
        BY <2>4, MatchSkipsB
    <2>5. CASE pair
        BY <2>5, MatchPairs
    <2>6. CASE UNCHANGED vars
        <3>1. UNCHANGED <<intents, group, sorted, reverse, ai, bi, used, matches>>
            BY <2>6 DEF vars
        <3>2. Ids' = Ids /\ groups' = groups /\ \A x : Key(x)' = Key(x)
            BY <3>1, IntentsStay
        <3>3. /\ \A key \in Keys : LowFirst(Group(key), used)' /\ Counted(key)'
              /\ Sound'
              /\ \A key : PartedKey(key)' <=> PartedKey(key)
            BY <3>1, MatchesStay
        <3>4. TypeOK'
            BY <3>1, <3>2 DEF MatchInv, TypeOK
        <3>5. WalkingKey(Key(group))' <=> WalkingKey(Key(group))
            BY <3>1, Zenon DEF WalkingKey, Group, Ids, Key, Ascending
        <3>6. \A x \in Ids' : x < group' => PartedKey(Key(x))'
            <4> TAKE x \in Ids'
            <4> HAVE x < group'
            <4>1. PICK k : k = Key(x)
                OBVIOUS
            <4>2. PartedKey(k)
                BY <3>1, <3>2, <4>1 DEF MatchInv
            <4>3. PartedKey(k)' /\ Key(x)' = k
                BY <3>2, <3>3, <4>1, <4>2
            <4> QED BY <4>3
        <3>7. Reached'
            BY <3>1, <3>2 DEF MatchInv, Reached
        <3> QED BY <3>1, <3>2, <3>3, <3>4, <3>5, <3>6, <3>7 DEF MatchInv
    <2> QED BY <2>1, <2>2, <2>3, <2>4, <2>5, <2>6 DEF Next
<1> QED BY <1>1, <1>2, PTL DEF Spec

\* What matchIntents promises follows.
LEMMA MatchResult ==
    ASSUME MatchInv
    PROVE  MatchIntentsIsRight
<1>0. intents \in Seq(Intent) /\ used \subseteq Ids
    BY DEF MatchInv, TypeOK
<1>1. MatchesAreSound
    BY DEF MatchInv, Sound
<1>2. SmallestFirst
    <2> SUFFICES ASSUME NEW i \in Ids, NEW j \in Ids, Key(i) = Key(j), i \in used, j \notin used
                 PROVE  intents[i].amount <= intents[j].amount
        BY DEF SmallestFirst
    <2>1. Key(i) \in Keys /\ i \in Group(Key(i)) /\ j \in Group(Key(i))
        BY <1>0, GroupFacts
    <2>2. LowFirst(Group(Key(i)), used)
        BY <2>1 DEF MatchInv
    <2> QED BY <2>1, <2>2 DEF LowFirst
<1>3. NoMatchIsMissed
    <2> SUFFICES ASSUME Done, NEW i \in Ids
                 PROVE  Cardinality(MatchesOf(Key(i))) = Possible(Key(i))
        BY DEF NoMatchIsMissed
    <2>1. PICK K : K = Key(i)
        OBVIOUS
    <2>2. PICK G, R : G = Group(K) /\ R = Group(ReverseKey(K))
        OBVIOUS
    <2>3. /\ K \in Keys /\ ReverseKey(K) \in Keys
          /\ (K[1] = K[2]) <=> (K = ReverseKey(K))
          /\ (ReverseKey(K)[1] = ReverseKey(K)[2]) <=> (K = ReverseKey(K))
          /\ IsFiniteSet(G) /\ IsFiniteSet(R) /\ i \in G
          /\ K = ReverseKey(K) \/ G \intersect R = {}
        <3>1. /\ K \in Keys /\ ReverseKey(K) \in Keys /\ ReverseKey(ReverseKey(K)) = K
              /\ (K[1] = K[2]) <=> (K = ReverseKey(K))
              /\ IsFiniteSet(G) /\ IsFiniteSet(R) /\ i \in G
              /\ K = ReverseKey(K) \/ G \intersect R = {}
            BY <1>0, <2>1, <2>2, GroupFacts
        <3>2. (ReverseKey(K)[1] = ReverseKey(K)[2]) <=> (ReverseKey(K) = ReverseKey(ReverseKey(K)))
            BY <1>0, <3>1, GroupFacts
        <3> QED BY <3>1, <3>2
    <2>4. Parted(G, R, used)
        <3>1. i < group
            <4>1. i \in 1 .. Len(intents) /\ Len(intents) \in Nat
                BY <1>0, GroupFacts
            <4>2. group \in Nat /\ group > Len(intents)
                BY <1>0, <4>1, GroupFacts DEF MatchInv, TypeOK, Done, groups
            <4> QED BY <4>1, <4>2
        <3> QED BY <2>1, <2>2, <3>1 DEF MatchInv, PartedKey
    <2>5. /\ Cardinality(G) \in Nat /\ Cardinality(R) \in Nat
          /\ IsFiniteSet(G \intersect used) /\ IsFiniteSet(R \intersect used)
          /\ Cardinality(G \intersect used) \in Nat /\ Cardinality(R \intersect used) \in Nat
          /\ Cardinality(G \intersect used) <= Cardinality(G)
          /\ Cardinality(R \intersect used) <= Cardinality(R)
        BY <2>3, FS_CardinalityType, FS_Intersection, Zenon
    <2>6. PICK c : c = Cardinality(MatchesOf(K))
        OBVIOUS
    <2>7. c \in Nat
        <3>1. IsFiniteSet(DOMAIN matches)
            <4>1. DOMAIN matches = 1 .. Len(matches) /\ 1 \in Int /\ Len(matches) \in Int
                BY DEF MatchInv, TypeOK
            <4> QED BY <4>1, FS_Interval, Zenon
        <3>2. MatchesOf(K) \in SUBSET DOMAIN matches
            BY DEF MatchesOf
        <3> QED BY <2>6, <3>1, <3>2, FS_Subset, FS_CardinalityType
    <2>8. CASE K = ReverseKey(K)
        <3>1. Cardinality(G \intersect used) = 2 * c
            BY <2>2, <2>3, <2>6, <2>8 DEF MatchInv, Counted
        <3>2. /\ IsFiniteSet(G \ used)
              /\ Cardinality(G \ used) = Cardinality(G) - Cardinality(G \intersect used)
            BY <2>3, FS_Difference, Zenon
        <3>3. Cardinality(G \ used) = 0 \/ Cardinality(G \ used) = 1
            <4>1. \A x, y \in G \ used : x = y
                BY <2>2, <2>4, <2>8 DEF Parted
            <4>2. G \ used = {} \/ \E x : G \ used = {x}
                BY <4>1
            <4> QED BY <4>2, FS_EmptySet, FS_Singleton, Zenon
        <3>4. Cardinality(G) = 2 * c \/ Cardinality(G) = 2 * c + 1
            BY <2>5, <2>7, <3>1, <3>2, <3>3
        <3>5. Cardinality(G) \div 2 = c
            BY <2>7, <3>4
        <3> QED BY <2>1, <2>2, <2>3, <2>6, <2>8, <3>5 DEF Possible
    <2>9. CASE K # ReverseKey(K)
        <3>1. MatchesOf(ReverseKey(K)) = MatchesOf(K)
            <4>1. ReverseKey(ReverseKey(K)) = K
                BY <1>0, <2>3, GroupFacts
            <4> QED BY <4>1 DEF MatchesOf
        <3>2. Cardinality(G \intersect used) = c /\ Cardinality(R \intersect used) = c
            BY <2>2, <2>3, <2>6, <2>9, <3>1 DEF MatchInv, Counted
        <3>3. G # R
            BY <2>3, <2>9
        <3>4. G \intersect used = G \/ R \intersect used = R
            BY <2>4, <3>3 DEF Parted
        <3>5. Smaller(Cardinality(G), Cardinality(R)) = c
            BY <2>5, <2>7, <3>2, <3>4 DEF Smaller
        <3> QED BY <2>1, <2>2, <2>3, <2>6, <2>9, <3>5 DEF Possible
    <2> QED BY <2>8, <2>9
<1> QED BY <1>1, <1>2, <1>3 DEF MatchIntentsIsRight

\* MatchIntentsIsRight for any assets, amounts and number of intents: a match is
\* of two different intents that pay what the other wants and that no other match
\* has; when the loops are done there are as many matches as there can be, and of
\* a group the smallest intents are the ones that are matched.
THEOREM MatchingIsRight ==
    ASSUME MatchConstants
    PROVE  Spec => []MatchIntentsIsRight
<1>1. MatchInv => MatchIntentsIsRight
    BY MatchResult
<1> QED BY <1>1, MatchInvariant, PTL

-----------------------------------------------------------------------------
(* Priced intents. *)

CONSTANTS MinOutputs, Limits, Scale

VARIABLES orders, outer, inner, filled, out, threw

Priced == INSTANCE PricedMatching WITH
              intents <- orders, i <- outer, j <- inner, used <- filled

PricedConstants ==
    /\ Scale \in Nat \ {0}
    /\ Amounts \subseteq Nat /\ MinOutputs \subseteq Nat /\ Limits \subseteq Nat
    /\ MaxIntents \in Nat

\* Multiplication is monotone.
LEMMA Multiples ==
    ASSUME NEW a \in Nat, NEW b \in Nat, NEW c \in Nat, a <= b
    PROVE  a * c <= b * c
<1>1. PICK d \in Nat : b = a + d
    <2>1. b - a \in Nat /\ b = a + (b - a)
        OBVIOUS
    <2> QED BY <2>1
<1>2. b * c = a * c + d * c
    BY <1>1
<1>3. d * c \in Nat /\ a * c \in Nat
    BY <1>1
<1> QED BY <1>2, <1>3

\* Integer division rounds down, by less than one.
LEMMA Quotient ==
    ASSUME NEW x \in Nat, NEW d \in Nat \ {0}
    PROVE  /\ x \div d \in Nat
           /\ (x \div d) * d <= x
           /\ x < (x \div d + 1) * d
<1>1. x \div d \in Nat /\ x % d \in 0 .. d - 1
    OBVIOUS
<1>2. x = d * (x \div d) + (x % d)
    OBVIOUS
<1> DEFINE q == x \div d
           r == x % d
<1> HIDE DEF q, r
<1>3. q \in Nat /\ r \in 0 .. d - 1 /\ x = d * q + r
    BY <1>1, <1>2 DEF q, r
<1>4. q * d <= x
    BY <1>3
<1>5. x < (q + 1) * d
    BY <1>3
<1> QED BY <1>3, <1>4, <1>5 DEF q

\* What is fixed when a match is made: the two intents fill each other, and are used.
Made(m) ==
    /\ m.a \in Priced!Ids /\ m.b \in Priced!Ids /\ m.a # m.b
    /\ {m.a, m.b} \subseteq filled
    /\ Priced!matchPricedPair(orders[m.a], orders[m.b])
    /\ m.toA = Priced!outputForA(orders[m.a])
    /\ m.toB = orders[m.a].amount
    /\ m.b < m.a => ~Priced!matchPricedPair(orders[m.b], orders[m.a])

\* The pairs the loops have been through: those of an earlier first, and those of
\* this one with an earlier second.
Considered(x, y) == x < outer \/ (x = outer /\ y < inner)

PricedInv ==
    /\ Priced!TypeOK
    /\ \A k \in DOMAIN out : Made(out[k])
    /\ \A k, l \in DOMAIN out : k # l => {out[l].a, out[l].b} \intersect {out[k].a, out[k].b} = {}
    /\ \A x, y \in Priced!Ids \ filled :
           x # y /\ Considered(x, y) => ~Priced!matchPricedPair(orders[x], orders[y])

\* A sequence of at most n elements.
LEMMA Bounded ==
    ASSUME NEW S, NEW n \in Nat, NEW s \in UNION {[1 .. m -> S] : m \in 0 .. n}
    PROVE  s \in Seq(S) /\ Len(s) \in 0 .. n
<1>1. PICK m \in 0 .. n : s \in [1 .. m -> S]
    OBVIOUS
<1>2. s \in Seq(S)
    BY <1>1
<1>3. Len(s) = m
    BY <1>1, <1>2
<1> QED BY <1>2, <1>3

\* Nothing is matched at first.
LEMMA PricedInit == ASSUME PricedConstants, Priced!Init PROVE PricedInv
<1>1. orders \in Seq(Priced!PricedIntent) /\ Len(orders) \in 0 .. MaxIntents
    BY Bounded DEF Priced!Init, PricedConstants
<1>2. Priced!TypeOK
    <2>1. 1 \in 1 .. Len(orders) + 1
        BY <1>1
    <2>2. << >> \in Seq([a : Priced!Ids, b : Priced!Ids, toA : Nat, toB : Nat])
        OBVIOUS
    <2>3. Len(orders) <= MaxIntents
        BY <1>1 DEF PricedConstants
    <2> QED BY <1>1, <2>1, <2>2, <2>3, Zenon DEF Priced!Init, Priced!TypeOK
<1>3. \A x, y \in Priced!Ids : ~Considered(x, y)
    BY <1>1 DEF Priced!Init, Considered, Priced!Ids
<1> QED BY <1>2, <1>3 DEF Priced!Init, PricedInv

\* The matches made so far, and the pairs ruled out, stay when the loops move on.
LEMMA PairStays ==
    ASSUME UNCHANGED orders, NEW x, NEW y
    PROVE  Priced!matchPricedPair(orders[x], orders[y])' <=> Priced!matchPricedPair(orders[x], orders[y])
BY DEF Priced!matchPricedPair, Priced!FillsExactly, Priced!Complementary, Priced!outputForA, Priced!rateForB

\* A match that was made stays one.
LEMMA MadeStays ==
    ASSUME UNCHANGED orders, filled \subseteq filled', NEW m, Made(m)
    PROVE  Made(m)'
BY DEF Made, Priced!Ids, Priced!matchPricedPair, Priced!FillsExactly, Priced!Complementary,
   Priced!outputForA, Priced!rateForB

\* A pair that does not match is passed by.
LEMMA PricedNextJ == ASSUME PricedConstants, PricedInv, Priced!next_j PROVE PricedInv'
<1>0. /\ orders \in Seq(Priced!PricedIntent) /\ Len(orders) \in Nat /\ Priced!Ids = 1 .. Len(orders)
      /\ outer \in 1 .. Len(orders) /\ inner \in 1 .. Len(orders)
    BY DEF PricedInv, Priced!TypeOK, Priced!next_j, Priced!Done, Priced!Ids
<1>1. Priced!TypeOK'
    BY <1>0 DEF PricedInv, Priced!TypeOK, Priced!next_j, Priced!Ids
<1>2. ASSUME NEW x \in Priced!Ids \ filled, NEW y \in Priced!Ids \ filled, x # y, Considered(x, y)'
      PROVE  ~Priced!matchPricedPair(orders[x], orders[y])
    <2>1. CASE Considered(x, y)
        BY <1>2, <2>1 DEF PricedInv
    <2>2. CASE x = outer /\ y = inner
        BY <1>2, <2>2 DEF Priced!next_j, Priced!Skipped
    <2> QED BY <1>0, <1>2, <2>1, <2>2 DEF Considered, Priced!next_j
<1>3. UNCHANGED <<orders, filled, out>>
    BY DEF Priced!next_j
<1> QED BY <1>1, <1>2, <1>3, MadeStays DEF PricedInv, Priced!Ids, Priced!matchPricedPair,
           Priced!FillsExactly, Priced!Complementary, Priced!outputForA, Priced!rateForB

\* So is an intent all of whose pairs were considered, or that is used.
LEMMA PricedNextI == ASSUME PricedConstants, PricedInv, Priced!next_i PROVE PricedInv'
<1>0. /\ orders \in Seq(Priced!PricedIntent) /\ Len(orders) \in Nat /\ Priced!Ids = 1 .. Len(orders)
      /\ outer \in 1 .. Len(orders) /\ inner \in 1 .. Len(orders) + 1 /\ inner > Len(orders)
    BY DEF PricedInv, Priced!TypeOK, Priced!next_i, Priced!Done, Priced!Ids
<1>1. Priced!TypeOK'
    BY <1>0 DEF PricedInv, Priced!TypeOK, Priced!next_i, Priced!Ids
<1>2. ASSUME NEW x \in Priced!Ids \ filled, NEW y \in Priced!Ids \ filled, x # y, Considered(x, y)'
      PROVE  ~Priced!matchPricedPair(orders[x], orders[y])
    <2>1. Considered(x, y)
        BY <1>0, <1>2 DEF Considered, Priced!next_i
    <2> QED BY <1>2, <2>1 DEF PricedInv
<1>3. UNCHANGED <<orders, filled, out>>
    BY DEF Priced!next_i
<1> QED BY <1>1, <1>2, <1>3, MadeStays DEF PricedInv, Priced!Ids, Priced!matchPricedPair,
           Priced!FillsExactly, Priced!Complementary, Priced!outputForA, Priced!rateForB

\* A limit of zero stops the loops.
LEMMA PricedDivide == ASSUME PricedConstants, PricedInv, Priced!divide_by_zero PROVE PricedInv'
<1>1. Priced!TypeOK'
    BY DEF PricedInv, Priced!TypeOK, Priced!divide_by_zero, Priced!Ids
<1>2. UNCHANGED <<orders, outer, inner, filled, out>>
    BY DEF Priced!divide_by_zero
<1> QED BY <1>1, <1>2, MadeStays DEF PricedInv, Priced!Ids, Considered, Priced!matchPricedPair,
           Priced!FillsExactly, Priced!Complementary, Priced!outputForA, Priced!rateForB

\* A match is made of two intents that were not used.
LEMMA PricedPush == ASSUME PricedConstants, PricedInv, Priced!push PROVE PricedInv'
<1>m. PICK x, y, m :
          /\ x = outer /\ y = inner
          /\ m = [a |-> x, b |-> y, toA |-> Priced!outputForA(orders[x]), toB |-> orders[x].amount]
    BY Zenon
<1>0. /\ orders \in Seq(Priced!PricedIntent) /\ Len(orders) \in Nat /\ Priced!Ids = 1 .. Len(orders)
      /\ outer \in 1 .. Len(orders) /\ inner \in 1 .. Len(orders)
      /\ outer \notin filled /\ inner \notin filled /\ outer # inner
      /\ filled \subseteq Priced!Ids
    BY DEF PricedInv, Priced!TypeOK, Priced!push, Priced!Done, Priced!Ids, Priced!Skipped
<1>1. orders[outer].amount \in Nat /\ orders[outer].limit \in Nat
    <2>1. orders[outer] \in Priced!PricedIntent
        BY <1>0
    <2> QED BY <2>1, Zenon DEF Priced!PricedIntent, PricedConstants
<1>2. Priced!outputForA(orders[outer]) \in Nat
    BY <1>1, Quotient DEF Priced!outputForA, PricedConstants
<1>3. m \in [a : Priced!Ids, b : Priced!Ids, toA : Nat, toB : Nat]
    BY <1>m, <1>0, <1>1, <1>2
<1>4. /\ out \in Seq([a : Priced!Ids, b : Priced!Ids, toA : Nat, toB : Nat])
      /\ out' = Append(out, m)
      /\ filled' = filled \union {outer, inner} /\ outer' = outer + 1 /\ inner' = 1
      /\ UNCHANGED <<orders, threw>>
    BY <1>m DEF PricedInv, Priced!TypeOK, Priced!push
<1>5. m.a = x /\ m.b = y /\ m.toA = Priced!outputForA(orders[x]) /\ m.toB = orders[x].amount
    BY <1>m
<1>6. /\ DOMAIN out = 1 .. Len(out) /\ Len(out) \in Nat
      /\ DOMAIN out' = 1 .. Len(out) + 1
      /\ \A k \in DOMAIN out : out'[k] = out[k]
      /\ out'[Len(out) + 1] = m
      /\ out' \in Seq([a : Priced!Ids, b : Priced!Ids, toA : Nat, toB : Nat])
    BY <1>3, <1>4
<1>7. Priced!TypeOK'
    BY <1>0, <1>4, <1>6 DEF PricedInv, Priced!TypeOK, Priced!Ids
<1>8. Made(m)'
    <2>1. Priced!matchPricedPair(orders[x], orders[y])
        BY <1>m DEF Priced!push
    <2>2. y < x => ~Priced!matchPricedPair(orders[y], orders[x])
        BY <1>m, <1>0 DEF PricedInv, Considered
    <2>3. Priced!Ids' = Priced!Ids /\ x \in Priced!Ids /\ y \in Priced!Ids /\ {x, y} \subseteq filled' /\ x # y
        BY <1>m, <1>0, <1>4 DEF Priced!Ids
    <2>4. Priced!outputForA(orders[x])' = Priced!outputForA(orders[x]) /\ orders'[x] = orders[x]
        BY <1>4 DEF Priced!outputForA
    <2> QED BY <1>4, <1>5, <2>1, <2>2, <2>3, <2>4, PairStays DEF Made
<1>9. \A k \in DOMAIN out : Made(out[k])'
    BY <1>4, MadeStays DEF PricedInv
<1>10. \A k \in DOMAIN out : {out[k].a, out[k].b} \intersect {outer, inner} = {}
    BY <1>0 DEF PricedInv, Made
<1>11. \A k, l \in DOMAIN out' : k # l => {out'[l].a, out'[l].b} \intersect {out'[k].a, out'[k].b} = {}
    <2> SUFFICES ASSUME NEW k \in DOMAIN out', NEW l \in DOMAIN out', k # l
                 PROVE  {out'[l].a, out'[l].b} \intersect {out'[k].a, out'[k].b} = {}
        OBVIOUS
    <2>1. \A n \in DOMAIN out' : n \in DOMAIN out \/ n = Len(out) + 1
        BY <1>6
    <2>2. CASE k \in DOMAIN out /\ l \in DOMAIN out
        BY <1>6, <2>2 DEF PricedInv
    <2>3. CASE k \in DOMAIN out /\ l = Len(out) + 1
        BY <1>m, <1>5, <1>6, <1>10, <2>3
    <2>4. CASE l \in DOMAIN out /\ k = Len(out) + 1
        BY <1>m, <1>5, <1>6, <1>10, <2>4
    <2> QED BY <2>1, <2>2, <2>3, <2>4
<1>12. ASSUME NEW v \in Priced!Ids \ filled', NEW w \in Priced!Ids \ filled', v # w, Considered(v, w)'
       PROVE  ~Priced!matchPricedPair(orders[v], orders[w])
    <2>1. v \in Priced!Ids \ filled /\ w \in Priced!Ids \ filled /\ v # outer
        BY <1>4, <1>12
    <2>2. Considered(v, w)
        BY <1>0, <1>4, <1>12, <2>1 DEF Considered
    <2> QED BY <1>12, <2>1, <2>2 DEF PricedInv
<1>13. \A k \in DOMAIN out' : Made(out[k])'
    <2> TAKE k \in DOMAIN out'
    <2>1. CASE k \in DOMAIN out
        <3>1. (out[k])' = out[k]
            BY <1>6, <2>1
        <3> QED BY <1>9, <2>1, <3>1 DEF Made
    <2>2. CASE k = Len(out) + 1
        <3>1. (out[k])' = m
            BY <1>6, <2>2
        <3> QED BY <1>8, <3>1 DEF Made
    <2> QED BY <1>6, <2>1, <2>2
<1>14. \A v, w \in Priced!Ids' \ filled' :
           v # w /\ Considered(v, w)' => ~Priced!matchPricedPair(orders[v], orders[w])'
    <2>1. Priced!Ids' = Priced!Ids
        BY <1>4 DEF Priced!Ids
    <2> QED BY <1>4, <1>12, <2>1, PairStays, Zenon
<1> QED BY <1>7, <1>11, <1>13, <1>14, Zenon DEF PricedInv

\* The invariant holds for any intents and scale.
THEOREM PricedInvariant == ASSUME PricedConstants PROVE Priced!Spec => []PricedInv
<1>1. ASSUME PricedInv, UNCHANGED Priced!vars PROVE PricedInv'
    <2>1. UNCHANGED <<orders, outer, inner, filled, out, threw>>
        BY <1>1 DEF Priced!vars
    <2>2. Priced!TypeOK' /\ Priced!Ids' = Priced!Ids
        BY <1>1, <2>1 DEF PricedInv, Priced!TypeOK, Priced!Ids
    <2>3. \A k \in DOMAIN out' : Made(out[k])'
        BY <1>1, <2>1, MadeStays DEF PricedInv
    <2>4. \A k, l \in DOMAIN out' : k # l => {out'[l].a, out'[l].b} \intersect {out'[k].a, out'[k].b} = {}
        BY <1>1, <2>1 DEF PricedInv
    <2>5. ASSUME NEW x \in Priced!Ids' \ filled', NEW y \in Priced!Ids' \ filled', x # y, Considered(x, y)'
          PROVE  ~Priced!matchPricedPair(orders[x], orders[y])'
        <3>1. x \in Priced!Ids \ filled /\ y \in Priced!Ids \ filled /\ Considered(x, y)
            BY <2>1, <2>2, <2>5 DEF Considered
        <3> QED BY <1>1, <2>1, <2>5, <3>1, PairStays DEF PricedInv
    <2> QED BY <2>2, <2>3, <2>4, <2>5 DEF PricedInv
<1>2. PricedInv /\ [Priced!Next]_Priced!vars => PricedInv'
    BY <1>1, PricedNextJ, PricedNextI, PricedDivide, PricedPush DEF Priced!Next
<1>3. Priced!Init => PricedInv
    BY PricedInit
<1> QED BY <1>2, <1>3, PTL DEF Priced!Spec

\* For any amounts, limits and scale both sides of a match receive
\* what the other spends and at least their minimum, the second at its limit or
\* better, the first at its own up to one unit, and no intent is in two matches.
THEOREM PricedFillsAreFair == ASSUME PricedConstants PROVE Priced!Spec => []Priced!FillsAreFair
<1>1. PricedInv => Priced!FillsAreFair
    <2> SUFFICES ASSUME PricedInv, NEW k \in DOMAIN out
                 PROVE  LET m == out[k]
                            a == orders[m.a]
                            b == orders[m.b]
                        IN  /\ m.toA = b.amount /\ m.toA >= a.min
                            /\ m.toB = a.amount /\ m.toB >= b.min
                            /\ m.toB * Scale >= b.limit * b.amount
                            /\ m.toA * Scale <= a.limit * a.amount
                            /\ (m.toA + 1) * Scale > a.limit * a.amount
                            /\ \A l \in DOMAIN out : l # k => {out[l].a, out[l].b} \intersect {m.a, m.b} = {}
        BY DEF Priced!FillsAreFair
    <2> DEFINE m == out[k]
               a == orders[m.a]
               b == orders[m.b]
    <2>1. Made(m)
        BY DEF PricedInv
    <2>2. a \in Priced!PricedIntent /\ b \in Priced!PricedIntent
        <3>1. m.a \in DOMAIN orders /\ m.b \in DOMAIN orders
            BY <2>1, Zenon DEF Made, Priced!Ids
        <3>2. orders \in Seq(Priced!PricedIntent)
            BY DEF PricedInv, Priced!TypeOK
        <3> HIDE DEF m
        <3> QED BY <3>1, <3>2
    <2>3. /\ a.amount \in Nat /\ a.min \in Nat /\ a.limit \in Nat
          /\ b.amount \in Nat /\ b.min \in Nat /\ b.limit \in Nat
        BY <2>2, Zenon DEF Priced!PricedIntent, PricedConstants
    <2>4. m.toA = Priced!outputForA(a) /\ m.toB = a.amount /\ Priced!matchPricedPair(a, b)
        BY <2>1 DEF Made
    <2>5. \A l \in DOMAIN out : l # k => {out[l].a, out[l].b} \intersect {m.a, m.b} = {}
        BY DEF PricedInv
    <2> HIDE DEF m, a, b
    <2>6. m.toA = b.amount /\ m.toA >= a.min /\ m.toB = a.amount /\ m.toB >= b.min
        BY <2>4 DEF Priced!matchPricedPair, Priced!FillsExactly
    <2>7. b.amount \in Nat \ {0} /\ (a.amount * Scale) \div b.amount >= b.limit
        BY <2>3, <2>4 DEF Priced!matchPricedPair, Priced!rateForB
    <2>8. a.amount * Scale \in Nat /\ a.amount * a.limit \in Nat /\ Scale \in Nat \ {0}
        BY <2>3 DEF PricedConstants
    <2> DEFINE q == (a.amount * Scale) \div b.amount
    <2>9. q \in Nat /\ q * b.amount <= a.amount * Scale /\ b.limit <= q
        BY <2>3, <2>7, <2>8, Quotient, Zenon
    <2> HIDE DEF q
    <2>10. b.limit * b.amount <= q * b.amount
        BY <2>3, <2>9, Multiples
    <2>11. m.toB * Scale >= b.limit * b.amount
        BY <2>3, <2>6, <2>8, <2>9, <2>10
    <2>12. m.toA = (a.amount * a.limit) \div Scale
        BY <2>4 DEF Priced!outputForA
    <2>13. m.toA * Scale <= a.amount * a.limit /\ (m.toA + 1) * Scale > a.amount * a.limit
        BY <2>8, <2>12, Quotient
    <2>14. a.amount * a.limit = a.limit * a.amount
        BY <2>3
    <2> QED BY <2>5, <2>6, <2>11, <2>13, <2>14 DEF m, a, b
<1> QED BY <1>1, PricedInvariant, PTL

\* When the loops are done no two unmatched intents match.
THEOREM PricedNoCrossingIsMissed == ASSUME PricedConstants PROVE Priced!Spec => []Priced!NoCrossingIsMissed
<1>1. PricedInv => Priced!NoCrossingIsMissed
    <2> SUFFICES ASSUME PricedInv, Priced!Done, ~threw, NEW x \in Priced!Ids \ filled, NEW y \in Priced!Ids \ filled, x # y
                 PROVE  ~Priced!matchPricedPair(orders[x], orders[y])
        BY DEF Priced!NoCrossingIsMissed
    <2>1. Considered(x, y)
        BY DEF PricedInv, Priced!TypeOK, Priced!Done, Considered, Priced!Ids
    <2> QED BY <2>1 DEF PricedInv
<1> QED BY <1>1, PricedInvariant, PTL

\* The later of two intents is first in a match only if the
\* earlier does not take it at its own price.
THEOREM PricedFirstComerSetsPrice == ASSUME PricedConstants PROVE Priced!Spec => []Priced!FirstComerSetsPrice
<1>1. PricedInv => Priced!FirstComerSetsPrice
    BY DEF PricedInv, Made, Priced!FirstComerSetsPrice
<1> QED BY <1>1, PricedInvariant, PTL

\* MatchPricedIsRight for any assets, amounts, limits, scale and number of intents.
THEOREM PricedMatchingIsRight == ASSUME PricedConstants PROVE Priced!Spec => []Priced!MatchPricedIsRight
<1>1. Priced!FillsAreFair /\ Priced!NoCrossingIsMissed /\ Priced!FirstComerSetsPrice => Priced!MatchPricedIsRight
    BY DEF Priced!MatchPricedIsRight
<1> QED BY <1>1, PricedFillsAreFair, PricedNoCrossingIsMissed, PricedFirstComerSetsPrice, PTL
=============================================================================
