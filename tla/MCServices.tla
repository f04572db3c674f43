----------------------------- MODULE MCServices -----------------------------
(* TLC instance of Services: every content of up to five characters to     *)
(* count, of up to three to read and larger ones whose sizes an int does   *)
(* not hold, every sample of up to four numbers, every function of Clocks  *)
(* by itself and the ones of mpac_init in a row.                           *)
EXTENDS Services

Contents(k, S) == UNION {[1 .. j -> S] : j \in 0 .. k}

MCMemory == {[stack |-> "nul", behind |-> <<>>], [stack |-> "x", behind |-> <<"p">>]}

(* With ints of -4 .. 3: sizes that come out as -4, -3, 0, 1 and 2.        *)
MCLarge == {[c \in 1 .. k |-> "x"] : k \in {4, 5, 8, 9, 10}}

MCJobs ==
  [kind : {"init"}, arg : {<<"p", "nl">>}]
    \cup [kind : {"pin"}, arg : Contents(5, {"p", "m", "x", "nl"})]
    \cup [kind : {"read"}, arg : Contents(3, {"x", "nl"}) \cup MCLarge]
    \cup [kind : {"measure"}, arg : {<<c>> : c \in Calls}]
    \cup [kind : {"stats"}, arg : Contents(4, (-1) .. 2)]
=============================================================================
