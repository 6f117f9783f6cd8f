--------------------------- MODULE IntentMatching ---------------------------
(***************************************************************************)
(* coordinator.ts::matchIntents, which a matching round applies to the     *)
(* reconstructed intents: group them by the assets they pay and want, walk *)
(* each group and its reverse in the order of the amounts with two         *)
(* indices, and pair what is not used yet.  One action per branch of the   *)
(* inner loop; the result is compared with what any matching could do.     *)
(***************************************************************************)
EXTENDS Integers, Sequences, FiniteSetsExt

CONSTANTS Assets, Amounts, MaxIntents

VARIABLES intents,   \* the argument; an intent id is a position here
          group,     \* the entry of groups in hand
          sorted,    \* the group in hand by amount, as intent ids
          reverse,   \* its reverse group by amount
          ai, bi,    \* the indices
          used, matches

vars == <<intents, group, sorted, reverse, ai, bi, used, matches>>

Intent == [pays : Assets, wants : Assets, amount : Amounts]
Ids == DOMAIN intents

Key(i) == <<intents[i].pays, intents[i].wants>>

\* The entries of the Map, each as the first intent that has its key: their order
\* is the order of insertion.
groups == {i \in Ids : \A j \in Ids : j < i => Key(j) # Key(i)}

\* The iterator of groups.entries() after the entry g; one past the intents at its end.
Entry(g) == Min({h \in groups : h > g} \union {Len(intents) + 1})

Group(key) == {i \in Ids : Key(i) = key}

ReverseKey(key) == <<key[2], key[1]>>

\* The comparison function never calls two intents equal: any order of equal
\* amounts may come out.
Sorted(S) == {s \in Bijection(1..Cardinality(S), S) :
                 \A x, y \in DOMAIN s : x < y => intents[s[x]].amount <= intents[s[y]].amount}

Match == [a : Nat, b : Nat, amount : Amounts]

TypeOK ==
    /\ intents \in Seq(Intent) /\ Len(intents) <= MaxIntents
    /\ group \in groups \union {Len(intents) + 1}
    /\ {sorted, reverse} \subseteq Seq(Ids)
    /\ ai \in 1..(Len(sorted) + 1)
    /\ bi \in 1..(Len(reverse) + 1)
    /\ used \subseteq Ids
    /\ matches \in Seq(Match)

Init ==
    /\ intents \in UNION {[1..n -> Intent] : n \in 0..MaxIntents}
    /\ group = 1
    /\ sorted = <<>>
    /\ reverse = <<>>
    /\ ai = 1
    /\ bi = 1
    /\ used = {}
    /\ matches = <<>>

Done == group > Len(intents)

Looping == ai <= Len(sorted) /\ bi <= Len(reverse)

\* sorted = <<>> before the loop of a group: no group is empty.
enter_group ==
    LET key == Key(group)
    IN  /\ ~Done
        /\ sorted = <<>>
        /\ Group(ReverseKey(key)) # {}
        /\ sorted' \in Sorted(Group(key))
        /\ reverse' \in Sorted(Group(ReverseKey(key)))
        /\ UNCHANGED <<intents, group, ai, bi, used, matches>>

\* Mutant: the next group is skipped along with this one.
next_group_twice ==
    /\ ~Done
    /\ IF sorted = <<>> THEN Group(ReverseKey(Key(group))) = {} ELSE ~Looping
    /\ group' = Entry(Entry(group))
    /\ sorted' = <<>>
    /\ reverse' = <<>>
    /\ ai' = 1
    /\ bi' = 1
    /\ UNCHANGED <<intents, used, matches>>

next_group ==
    /\ ~Done
    /\ IF sorted = <<>> THEN Group(ReverseKey(Key(group))) = {} ELSE ~Looping
    /\ group' = Entry(group)
    /\ sorted' = <<>>
    /\ reverse' = <<>>
    /\ ai' = 1
    /\ bi' = 1
    /\ UNCHANGED <<intents, used, matches>>

\* Mutant: `continue` without advancing.
skip_a_stuck ==
    /\ Looping
    /\ sorted[ai] \in used
    /\ UNCHANGED vars

skip_a ==
    /\ Looping
    /\ sorted[ai] \in used
    /\ ai' = ai + 1
    /\ UNCHANGED <<intents, group, sorted, reverse, bi, used, matches>>

\* Mutant: a partner that cannot be had costs both sides their turn.
skip_both ==
    /\ Looping
    /\ sorted[ai] \notin used
    /\ reverse[bi] \in used \/ reverse[bi] = sorted[ai]
    /\ ai' = ai + 1
    /\ bi' = bi + 1
    /\ UNCHANGED <<intents, group, sorted, reverse, used, matches>>

skip_b ==
    /\ Looping
    /\ sorted[ai] \notin used
    /\ reverse[bi] \in used \/ reverse[bi] = sorted[ai]
    /\ bi' = bi + 1
    /\ UNCHANGED <<intents, group, sorted, reverse, ai, used, matches>>

Smaller(x, y) == IF x < y THEN x ELSE y

pair ==
    /\ Looping
    /\ sorted[ai] \notin used
    /\ reverse[bi] \notin used
    /\ reverse[bi] # sorted[ai]
    /\ matches' = Append(matches,
           [a |-> sorted[ai], b |-> reverse[bi],
            amount |-> Smaller(intents[sorted[ai]].amount, intents[reverse[bi]].amount)])
    /\ used' = used \union {sorted[ai], reverse[bi]}
    /\ ai' = ai + 1
    /\ bi' = bi + 1
    /\ UNCHANGED <<intents, group, sorted, reverse>>

Next == enter_group \/ next_group \/ skip_a \/ skip_b \/ pair

Spec == Init /\ [][Next]_vars

-----------------------------------------------------------------------------
\* Properties

Crosses(i, j) == i # j /\ Key(i) = ReverseKey(Key(j))

Sides(k) == {matches[k].a, matches[k].b}

\* Every match pairs two different intents that pay what the other wants, for an
\* amount both can pay, and no intent is in two matches.
MatchesAreSound ==
    \A k \in DOMAIN matches :
        /\ Crosses(matches[k].a, matches[k].b)
        /\ \A i \in Sides(k) : matches[k].amount <= intents[i].amount
        /\ \A l \in DOMAIN matches : l # k => Sides(l) \intersect Sides(k) = {}

\* What a pair of assets allows: as many matches as the smaller side has
\* intents, or half of them when both sides are the same.
Possible(key) ==
    IF key[1] = key[2] THEN Cardinality(Group(key)) \div 2
    ELSE Smaller(Cardinality(Group(key)), Cardinality(Group(ReverseKey(key))))

MatchesOf(key) == {k \in DOMAIN matches : Key(matches[k].a) \in {key, ReverseKey(key)}}

\* When the loops are done there are as many matches as there can be.
NoMatchIsMissed ==
    Done => \A i \in Ids : Cardinality(MatchesOf(Key(i))) = Possible(Key(i))

\* Of the intents of a group the smallest are the ones that are matched.
SmallestFirst ==
    Done => \A i, j \in Ids :
        Key(i) = Key(j) /\ i \in used /\ j \notin used => intents[i].amount <= intents[j].amount

\* matchIntents: every match pairs two different unused intents that pay what
\* the other wants; there are as many matches as there can be ("can skip a
\* still-unused, otherwise-valid counterparty", coordinator.ts: it does not);
\* and of a group it is the smallest intents that are matched.
MatchIntentsIsRight == MatchesAreSound /\ NoMatchIsMissed /\ SmallestFirst
=============================================================================
