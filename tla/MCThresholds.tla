---------------------------- MODULE MCThresholds ----------------------------
(***************************************************************************)
(* Thresholds with one device of one customer, two runs and packets that   *)
(* scatter from no good reads to all.                                      *)
(***************************************************************************)
EXTENDS Thresholds

ASSUME MCClear == ClearOfRounding
ASSUME MCInOrder == EntriesInOrder

MCCustomerOf == [d \in Device |-> CHOOSE c \in Customer : TRUE]
MCPacket ==
    {[items |-> 100, good_read |-> 100, no_dimension |-> 4],
     [items |-> 200, good_read |-> 2, no_dimension |-> 0],
     [items |-> 25, good_read |-> 0, no_dimension |-> 25]}
MCHistory ==
    {<<[items |-> 200, good_read |-> 2, no_dimension |-> 0],
       [items |-> 100, good_read |-> 100, no_dimension |-> 4]>>}
MCEntry ==
    {[warn |-> 980000, bad |-> 970000, override |-> TRUE],
     [warn |-> NoValue, bad |-> NoValue, override |-> FALSE]}
MCConfig ==
    [good_read_pct |-> [warn |-> 950000, bad |-> 900000],
     no_dim_pct |-> [warn |-> 50000, bad |-> 100000]]
=============================================================================
