-------------------------- MODULE MCFragmentCache --------------------------
(* One fragment, whose loaders' mark reaches no recorder: the renders of   *)
(* streamPage and RenderFragment.                                          *)
EXTENDS FragmentCache

MCFragments ==
  {[name |-> "offer", template |-> "home", reads |-> {"scalar"}, ttl |-> 1, stale |-> 1]}

MCLocales == {"en"}
MCScalars == {"1", "2"}
MCLists   == {<<>>}
MCVisits  == [fragment : MCFragments, locale : MCLocales,
              props    : [scalar : MCScalars, list : MCLists],
              private  : BOOLEAN, recorded : {FALSE}]

MCKeys     == {KeyOf(v) : v \in MCVisits}
MCValues   == {Bytes(v) : v \in MCVisits}
MCPolicies == {[ttl |-> 1, stale |-> 1]}
=============================================================================
