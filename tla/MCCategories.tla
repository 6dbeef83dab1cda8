---------------------------- MODULE MCCategories ----------------------------
(***************************************************************************)
(* Categories with a default market and a storefront of the node's own.    *)
(***************************************************************************)
EXTENDS Categories

Types == [m \in {"home", "shop"} |-> IF m = "shop" THEN "STOREFRONT_ADMIN" ELSE "MARKETPLACE"]
A == <<"a">>
AA == <<"a", "a">>
AAA == <<"a", "a", "a">>
OneName == {A}
RootAndChild == <<ROOT, Append(ROOT, AA)>>

(* Names with the key of the default category, and one name with the key   *)
(* of three that are too deep to be loaded with ROOT.                      *)
Others ==
  [market : {"home", "shop"}, path : {ROOT \o <<A, A>>}]
    \cup {[market |-> "shop", path |-> <<AAA>>]}

(* All in all a few things happen, any of them: many categories and one    *)
(* listing, or few categories, two listings and a template, or a stop,     *)
(* which counts for two.                                                   *)
FewThings ==
  /\ last + Len(sent) + Len(templates) + Cardinality(edited) + 2 * stops <= 6
  /\ Cardinality({a \in Actor : ~ Idle(a)}) <= 2
=============================================================================
