----------------------------- MODULE MCSpaceHash -----------------------------
(* Three servers; a domain of 4 x 3 and variables of 3 x 5 and 2 x 3 x 2,  *)
(* whose volumes the servers divide too, of 5 x 2, whose volume they do    *)
(* not, and of 2 x 1, which is too small to be dealt out along the curve.  *)
EXTENDS SpaceHash

MCDefaultGdim == <<4, 3>>
MCGdims == {<<3, 5>>, <<5, 2>>, <<2, 1>>, <<2, 3, 2>>}

Between(lbs, ubs) ==
    {b \in [lb : lbs, ub : ubs] : \A i \in DOMAIN b.lb : b.lb[i] <= b.ub[i]}

MCBoxes ==
    Between({<<0, 0>>, <<1, 1>>, <<0, 2>>, <<2, 1>>},
            {<<1, 0>>, <<3, 1>>, <<1, 2>>, <<3, 2>>, <<2, 4>>, <<4, 1>>})
    \cup Between({<<0, 0, 0>>, <<1, 1, 0>>}, {<<1, 2, 1>>})
=============================================================================
