---------------------------- MODULE MCAlgorithms ----------------------------
(***************************************************************************)
(* The algorithms, each over every input of a small domain, and the secret *)
(* sharing between nodes that restart: a behaviour runs one of them, and   *)
(* the variables of the others stay as they are.                           *)
(***************************************************************************)
EXTENDS IntentMatching

VARIABLES scenario,
          depth, leaves, root, subtree_cache, sparse_cache,
          orders, i, j, filled, out, threw,
          rows, proc, keys, pinned, client, sealed, opened, refused, batch

treeVars == <<depth, leaves, root, subtree_cache, sparse_cache>>
pricedVars == <<orders, i, j, filled, out, threw>>
shareVars == <<rows, proc, keys, pinned, client, sealed, opened, refused, batch>>
allVars == <<scenario, vars, treeVars, pricedVars, shareVars>>

\* Trees of depth up to three and two different leaves.
Tree == INSTANCE LeanIMT WITH Leaf <- {1, 2}, MaxDepth <- 3

\* Prices in halves, so that amounts are rounded, and an amount of zero.
Priced == INSTANCE PricedMatching WITH
              Assets <- {"USDC", "XLM"}, Amounts <- 0 .. 2, MinOutputs <- {0, 2},
              Limits <- {1, 4}, Scale <- 2, MaxIntents <- 3,
              intents <- orders, used <- filled

\* Three nodes and an amount on either end of a field of five elements.
Shares == INSTANCE CommitteeShares WITH
              Prime <- 5, Total <- 3, Thresholds <- {2, 3}, Amounts <- {0, 4}, MaxKeys <- 4

NoExact == Init /\ intents = << >>
NoPriced ==
    /\ orders = << >> /\ i = << >> /\ j = << >>
    /\ filled = << >> /\ out = << >> /\ threw = << >>
\* An empty tree of depth zero, for the behaviours that are not about trees.
NoTree == Tree!Init /\ depth = 0

ScenarioInit ==
    /\ Shares!Init
    /\ \/ scenario = "exact" /\ Init /\ NoPriced /\ NoTree
       \/ scenario = "priced" /\ NoExact /\ Priced!Init /\ NoTree
       \/ scenario = "tree" /\ NoExact /\ NoPriced /\ Tree!Init
       \/ scenario = "shares" /\ NoExact /\ NoPriced /\ NoTree

MatchingStep == scenario = "exact" /\ Next /\ UNCHANGED <<scenario, treeVars, pricedVars, shareVars>>

ScenarioNext ==
    /\ \/ MatchingStep
       \/ scenario = "priced" /\ Priced!Next /\ UNCHANGED <<vars, treeVars, shareVars>>
       \/ scenario = "tree" /\ Tree!Next /\ UNCHANGED <<vars, pricedVars, shareVars>>
       \/ scenario = "shares" /\ Shares!Next /\ UNCHANGED <<vars, treeVars, pricedVars>>
    /\ UNCHANGED scenario

ScenarioSpec == ScenarioInit /\ [][ScenarioNext]_allVars /\ WF_allVars(MatchingStep)

\* The two-index loops of matchIntents end on every input.
Terminates == <>(scenario # "exact" \/ Done)

\* matchPricedIntents: both parties spend all of their notes and receive at
\* least their minimum, at their limit price up to the rounding of one unit;
\* nobody is matched twice; no two unused intents cross when the loops are done;
\* and the intent that came first sets the price.
MatchPricedIsRight == scenario = "priced" => Priced!MatchPricedIsRight

\* The tree of lean_imt: the root is the root of the leaves however they were
\* inserted and stored, the cached nodes agree with the leaves, and the proof
\* generate_proof answers for a leaf leads to the root.
TreeIsOfItsLeaves == Tree!RootIsOfLeaves /\ Tree!CacheIsFresh /\ Tree!ProofsVerify

\* "Any t shares can reconstruct; fewer reveal nothing about the secret"
\* (shamir.ts), and "keypairs survive process restarts so signed batches remain
\* verifiable" (keys.ts): however nodes and coordinator restart, t opened shares
\* give the amount and fewer fit every amount, every node opens its share, and a
\* batch verifies against the committee the coordinator serves.
RestartsAreHarmless == Shares!RestartsAreHarmless
=============================================================================
