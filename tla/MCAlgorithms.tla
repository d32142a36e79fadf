---------------------------- MODULE MCAlgorithms ----------------------------
(***************************************************************************)
(* The pure algorithms over all small inputs: a record page, step by step  *)
(* (RmBitmap), or one query (QueryPlan).                                   *)
(***************************************************************************)
EXTENDS RmBitmap, QueryPlan

\* Every size of which a record fits, and 0, which is refused.
SmallSizes == 0..(PAGE_SIZE - 21)

SmallColLists == {<<"a">>, <<"b">>, <<"a", "b">>, <<"b", "a">>}

AlgInit == Init /\ QueryInit

AlgNext ==
  \/ record_size = 0 /\ Ask /\ UNCHANGED vars
  \/ query = NoQuery /\ Next /\ UNCHANGED query

AlgSpec == AlgInit /\ [][AlgNext]_<<vars, query>>
=============================================================================
