------------------------------ MODULE MCAdmission ------------------------------
(***************************************************************************)
(* The calls TLC makes of Admission.                                       *)
(***************************************************************************)
EXTENDS Admission

Model(n, params, layers, safety) ==
    [id |-> n, parameters |-> params, layers |-> layers, hidden |-> 2, safety |-> safety]

\* Models 2 and 3 have one cost, and so has a second model with the id of 3, which
\* the models of route.choose may hold.
MCModels ==
    {Model(1, 5, 2, 1000), Model(2, 1, 1, 1200), Model(3, 1, 1, 1200), Model(4, 3, 1, 1500),
     [Model(3, 1, 2, 1200) EXCEPT !.hidden = 1]}

MCCatalogs == {s \in SeqOf(MCModels, 3) : \A a, b \in DOMAIN s : s[a] = s[b] => a = b}

MCWorks == [input : 1..3, output : 0..3, batch : 1..3]

MCJoules == [whole : {<<>>, <<0>>, <<1>>, <<1, 0>>, <<0, 1>>}, frac : SeqOf({0, 5, 9}, 2)]
===============================================================================
