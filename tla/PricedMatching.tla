--------------------------- MODULE PricedMatching ---------------------------
(***************************************************************************)
(* coordinator.ts::matchPricedIntents: greedy matching of intents that     *)
(* cross two assets at the limit price of the first, without partial       *)
(* fills.  One action per turn of the inner loop.                          *)
(***************************************************************************)
EXTENDS Integers, Sequences, FiniteSets

CONSTANTS Assets, Amounts, MinOutputs, Limits,
          Scale,        \* PRICE_SCALE
          MaxIntents

VARIABLES intents,   \* the argument; an intent id is a position here
          i, j,      \* the loop variables
          used, out,
          threw      \* a division by zero has ended the call

vars == <<intents, i, j, used, out, threw>>

PricedIntent == [pays : Assets, wants : Assets, amount : Amounts, min : MinOutputs,
                 limit : Limits]

Ids == DOMAIN intents

TypeOK ==
    /\ intents \in Seq(PricedIntent) /\ Len(intents) <= MaxIntents
    /\ i \in 1..(Len(intents) + 1)
    /\ j \in 1..(Len(intents) + 1)
    /\ used \subseteq Ids
    /\ out \in Seq([a : Ids, b : Ids, toA : Nat, toB : Nat])
    /\ threw \in BOOLEAN

Init ==
    /\ intents \in UNION {[1 .. n -> PricedIntent] : n \in 0 .. MaxIntents}
    /\ i = 1
    /\ j = 1
    /\ used = {}
    /\ out = <<>>
    /\ threw = FALSE

-----------------------------------------------------------------------------
Complementary(a, b) == a.pays = b.wants /\ a.wants = b.pays /\ a.pays # a.wants

outputForA(a) == (a.amount * a.limit) \div Scale

\* Everything matchPricedPair checks before it divides by b.amount
FillsExactly(a, b) ==
    /\ Complementary(a, b)
    /\ b.amount = outputForA(a)
    /\ outputForA(a) >= a.min
    /\ a.amount >= b.min

rateForB(a, b) == (a.amount * Scale) \div b.amount

\* Mutant: the limit of the second intent is not looked at.
matchPricedPair_one_limit(a, b) == FillsExactly(a, b) /\ b.amount # 0

matchPricedPair(a, b) == FillsExactly(a, b) /\ b.amount # 0 /\ rateForB(a, b) >= b.limit

DividesByZero(a, b) == FillsExactly(a, b) /\ b.amount = 0

Done == threw \/ i > Len(intents)

\* Both loops skip what is used, and the inner one i itself.
Skipped == i = j \/ i \in used \/ j \in used

next_j ==
    /\ ~Done
    /\ j <= Len(intents)
    /\ Skipped \/ ~(matchPricedPair(intents[i], intents[j])
                    \/ DividesByZero(intents[i], intents[j]))
    /\ j' = j + 1
    /\ UNCHANGED <<intents, i, used, out, threw>>

next_i ==
    /\ ~Done
    /\ j > Len(intents)
    /\ i' = i + 1
    /\ j' = 1
    /\ UNCHANGED <<intents, used, out, threw>>

push ==
    /\ ~Done
    /\ j <= Len(intents)
    /\ ~Skipped
    /\ matchPricedPair(intents[i], intents[j])
    /\ out' = Append(out, [a |-> i, b |-> j, toA |-> outputForA(intents[i]),
                                             toB |-> intents[i].amount])
    /\ used' = used \union {i, j}
    /\ i' = i + 1
    /\ j' = 1
    /\ UNCHANGED <<intents, threw>>

divide_by_zero ==
    /\ ~Done
    /\ j <= Len(intents)
    /\ ~Skipped
    /\ DividesByZero(intents[i], intents[j])
    /\ threw' = TRUE
    /\ UNCHANGED <<intents, i, j, used, out>>

Next == next_j \/ next_i \/ push \/ divide_by_zero

Spec == Init /\ [][Next]_vars

-----------------------------------------------------------------------------
\* Properties

\* In every match both parties spend all of their notes, receive what the other
\* spends and at least their minimum; the second gets its limit price, the first
\* its own up to the rounding of one unit; and nobody is matched twice.
FillsAreFair ==
    \A k \in DOMAIN out :
        LET m == out[k]
            a == intents[m.a]
            b == intents[m.b]
        IN  /\ m.toA = b.amount /\ m.toA >= a.min
            /\ m.toB = a.amount /\ m.toB >= b.min
            /\ m.toB * Scale >= b.limit * b.amount
            /\ m.toA * Scale <= a.limit * a.amount
            /\ (m.toA + 1) * Scale > a.limit * a.amount
            /\ \A l \in DOMAIN out : l # k => {out[l].a, out[l].b} \intersect {m.a, m.b} = {}

\* The loops consider every ordered pair: when they are done, no two unused
\* intents cross, at the price of either.
NoCrossingIsMissed ==
    Done /\ ~threw =>
        \A x, y \in Ids \ used : x # y => ~matchPricedPair(intents[x], intents[y])

\* A match that both orders allow settles at the price of the intent that came
\* first.
FirstComerSetsPrice ==
    \A k \in DOMAIN out :
        out[k].b < out[k].a => ~matchPricedPair(intents[out[k].b], intents[out[k].a])

\* matchPricedIntents: its fills are fair, it misses no crossing, and the intent
\* that came first sets the price.
MatchPricedIsRight == FillsAreFair /\ NoCrossingIsMissed /\ FirstComerSetsPrice
=============================================================================
