----------------------------- MODULE MC_AdminPanel -----------------------------
(* The layout with two visits and two fetchUser calls each, around an      *)
(* accounts page with three accounts over the letters a, A and b, so that  *)
(* a search matches only when case is ignored, only through the email, or  *)
(* in one account of each type and status.                                 *)
EXTENDS AdminPanel

MCChars == {"a", "A", "b"}
MCLower == [c \in MCChars |-> IF c = "A" THEN "a" ELSE c]

MCServerList ==
    << [type |-> "client",   status |-> "active",    name |-> <<"A", "b">>, email |-> <<"b">>],
       [type |-> "reseller", status |-> "suspended", name |-> <<"b">>,      email |-> <<"b", "a">>],
       [type |-> "client",   status |-> "inactive",  name |-> <<"b", "b">>, email |-> <<"b">>] >>

MCSearches == {<<>>, <<"A", "b">>}
====
