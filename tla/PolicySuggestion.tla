------------------------------- MODULE PolicySuggestion -------------------------------
(* anastasis-core/src/policy-suggestion.ts: which authentication methods a policy      *)
(* combines, and which provider is given each of them. Methods and providers are        *)
(* sequences, as in the code; a method is [type, secret], a provider [url, types].       *)
LOCAL INSTANCE Naturals
LOCAL INSTANCE Sequences
LOCAL INSTANCE FiniteSets
LOCAL INSTANCE SequencesExt

CONSTANTS MaxMethodSelections, MaxPolicyEvaluations

NumSel(n) ==
    CASE n <= 2 -> n
      [] n \in {3, 4} -> n - 1
      [] n \in {5, 6} -> n - 2
      [] n = 7 -> n - 3
      [] OTHER -> 4

(* The first selections that an enumeration finds                                   *)
FirstOf(all, limit) == SubSeq(all, 1, IF Len(all) < limit THEN Len(all) ELSE limit)

(* The numbers of n digits below m, in ascending order, with 1 for the digit 0          *)
Mappings(n, m) == [k \in 1 .. m ^ n |-> [i \in 1 .. n |-> (((k - 1) \div m ^ (n - i)) % m) + 1]]

EnumerateProviderMappings(n, m) == FirstOf(Mappings(n, m), MaxPolicyEvaluations)

EnumerateMethodSelections(n, m) ==
    FirstOf(SelectSeq(Mappings(n, m), LAMBDA s : \A i \in 1 .. (n - 1) : s[i] < s[i + 1]), MaxMethodSelections)

Supports(methods, providers, sel, ps) ==
    \A i \in DOMAIN sel : methods[sel[i]].type \in providers[ps[i]].types

Diversity(ps) == Cardinality({ps[i] : i \in DOMAIN ps})

PolicyOf(providers, sel, ps) ==
    [i \in DOMAIN sel |-> [method |-> sel[i], provider |-> providers[ps[i]].url]]

PairsOf(policies) == UNION {{policies[p][i] : i \in DOMAIN policies[p]} : p \in DOMAIN policies}

(* At how many providers methods are stored, with this policy added                  *)
Duplication(existing, policy) == Cardinality(PairsOf(Append(existing, policy)))

(* Mutant: the comparison of the duplication is the wrong way round.                  *)
MoreDuplication(existing, providers, sel, best, ps) ==
    \/ best = <<>>
    \/ Diversity(ps) > Diversity(best)
    \/ /\ Diversity(ps) = Diversity(best)
       /\ Duplication(existing, PolicyOf(providers, sel, ps)) > Duplication(existing, PolicyOf(providers, sel, best))

Better(existing, providers, sel, best, ps) ==
    \/ best = <<>>
    \/ Diversity(ps) > Diversity(best)
    \/ /\ Diversity(ps) = Diversity(best)
       /\ Duplication(existing, PolicyOf(providers, sel, ps)) < Duplication(existing, PolicyOf(providers, sel, best))

(* assignProviders; <<>> stands for undefined.                                      *)
AssignProviders(existing, methods, providers, sel) ==
    LET best == FoldLeft(LAMBDA b, ps : IF Supports(methods, providers, sel, ps) /\ Better(existing, providers, sel, b, ps)
                                        THEN ps ELSE b,
                         <<>>, EnumerateProviderMappings(Len(sel), Len(providers)))
    IN IF best = <<>> THEN <<>> ELSE PolicyOf(providers, sel, best)

(* suggestPolicies, which throws if there is no method                              *)
SuggestPolicies(methods, providers) ==
    LET add(policies, sel) ==
            LET p == AssignProviders(policies, methods, providers, sel)
            IN IF p = <<>> THEN policies ELSE Append(policies, p)
    IN FoldLeft(add, <<>>, EnumerateMethodSelections(NumSel(Len(methods)), Len(methods)))

-----------------------------------------------------------------------------
(* What a suggestion should be, said without an enumeration: one policy for each choice *)
(* of methods that can be had at all, spread over as many providers as possible, and   *)
(* among those with as few copies of the methods.                                   *)
MethodChoices(methods) == {c \in SUBSET DOMAIN methods : Cardinality(c) = NumSel(Len(methods))}
MethodsOf(policy) == {policy[i].method : i \in DOMAIN policy}
ProvidersOfPolicy(policy) == {policy[i].provider : i \in DOMAIN policy}

Assignments(methods, providers, choice) ==
    {a \in [choice -> DOMAIN providers] : \A m \in choice : methods[m].type \in providers[a[m]].types}
PairsOfAssignment(providers, a) == {[method |-> m, provider |-> providers[a[m]].url] : m \in DOMAIN a}

BestSuggestion(methods, providers, policies) ==
    /\ \A c \in MethodChoices(methods) :
          Cardinality({p \in DOMAIN policies : MethodsOf(policies[p]) = c})
            = IF Assignments(methods, providers, c) = {} THEN 0 ELSE 1
    /\ \A p \in DOMAIN policies :
          LET all == Assignments(methods, providers, MethodsOf(policies[p]))
              spread == Cardinality(ProvidersOfPolicy(policies[p]))
              before == PairsOf(SubSeq(policies, 1, p - 1))
              copies(pairs) == Cardinality(before \cup pairs)
          IN /\ \E a \in all : PairsOfAssignment(providers, a) = {policies[p][i] : i \in DOMAIN policies[p]}
             /\ \A a \in all :
                   /\ Diversity(a) <= spread
                   /\ Diversity(a) = spread =>
                        copies(PairsOfAssignment(providers, a)) >= copies({policies[p][i] : i \in DOMAIN policies[p]})
=============================================================================
