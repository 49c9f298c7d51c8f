---------------------------- MODULE MCPageStream ----------------------------
(* Pages: "beside", two deferred fragments, the first with a cached one in *)
(* it; "cached", a deferred fragment in a cached one, and a plain one.     *)
EXTENDS PageStream, TLC

CONSTANTS World

T(name)      == [op |-> "text", name |-> name]
D(name)      == [op |-> "data", name |-> name]
F(name, end) == [op |-> "fragment", name |-> name, deferred |-> FALSE, cached |-> TRUE,  end |-> end]
P(name, end) == [op |-> "fragment", name |-> name, deferred |-> FALSE, cached |-> FALSE, end |-> end]
L(name, end) == [op |-> "fragment", name |-> name, deferred |-> TRUE,  cached |-> FALSE, end |-> end]

MCOps ==
  CASE World = "beside" -> <<T("t1"), L("A", 6), F("C", 5), T("t2"), D("A"),
                             L("B", 8), D("B"), T("t3")>>
    [] World = "cached" -> <<F("C", 6), T("t1"), L("A", 5), D("A"), T("t2"), P("B", 8), T("t3")>>

MCFragments(Sort(_)) == {MCOps[i].name : i \in {j \in DOMAIN MCOps : MCOps[j].op = "fragment" /\ Sort(MCOps[j])}}
MCDeferrals == MCFragments(LAMBDA f : f.deferred)
MCKeys      == MCFragments(LAMBDA f : f.cached)
MCPolicies  == {[ttl |-> 1, stale |-> 0]}
MCSymmetry  == Permutations(Request)
=============================================================================
