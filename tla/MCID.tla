-------------------------------- MODULE MCID --------------------------------
(* Instances of KoutenID for TLC: names that differ from a good one in one  *)
(* field, or in their number of fields.                                     *)
EXTENDS IDInvariants

Other == 10

Numbers ==
    UNION {[1..n -> {0, 1, 2, 3, Other}] : n \in 0..2}
    \cup {<<1, 0, 0>>, <<0, 1, 2>>}
Reals == [float : {-Inf, -2, 0, 3, Inf, NaN}, spelling : {"exact"}]
         \cup [float : {3, 4}, spelling : Spellings]

Good == <<<<2, 2>>, <<1, 2>>, <<7>>,
          [float |-> 1, spelling |-> "exact"], [float |-> 5, spelling |-> "exact"],
          [float |-> -1, spelling |-> "padded"]>>

MCNames ==
    {[Good EXCEPT ![i] = s] : i \in 1..3, s \in Numbers}
    \cup {[Good EXCEPT ![i] = s] : i \in 4..6, s \in Reals}
    \cup {SubSeq(Good, 1, 5), Append(Good, <<1>>)}

MCIDs ==
    [Parent : {0, MaxUint64}, Epoch : {MaxUint32}, Seq : {0},
     TWrite : {-3, NaN}, Period : {-1, 0, 3}, Head : {2, Inf}]
=============================================================================
