------------------------- MODULE MCBandwidthThreads -------------------------
(* Instances of BandwidthThreads for TLC. *)
EXTENDS BandwidthThreads

Request(buffer, threads, sizes, iterations) ==
  [buffer |-> buffer, threads |-> threads, sizes |-> sizes, iterations |-> iterations,
   access |-> <<"read">>]

(* With HalfInt = 4: private memory that fits and that does not, a size    *)
(* that becomes another one or a negative one, lists with too few, too     *)
(* many and invalid tokens, more threads than cores and fewer than none.   *)
SomeRequests ==
  { Request("private", 0, <<1, 2>>, <<2, 1>>),
    Request("private", 2, <<2, 1, 1>>, <<1>>),
    Request("private", 2, <<3>>, <<1>>),
    Request("private", 2, <<2, 9>>, <<1>>),
    Request("shared", 2, <<2, 5>>, <<1>>),
    Request("private", 3, <<3>>, <<1>>),
    Request("shared", 2, <<1, 3>>, <<1, 2>>),
    Request("shared", 2, <<>>, <<1>>),
    Request("shared", 1, <<3>>, <<0>>),
    Request("shared", -1, <<1>>, <<1>>),
    Request("invalid", 1, <<1>>, <<1>>),
    [Request("shared", 2, <<2>>, <<1>>) EXCEPT !.access = <<"write", "invalid">>] }

ThreeCores == 0..2
SomeTimes == {1}
=============================================================================
