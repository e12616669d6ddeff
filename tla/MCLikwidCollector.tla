------------------------- MODULE MCLikwidCollector -------------------------
(***************************************************************************)
(* Four machines with up to four hardware threads, and three event sets.   *)
(***************************************************************************)
EXTENDS LikwidCollector

Thread(core, socket, die, numa, siblings) ==
  [core |-> core, socket |-> socket, die |-> die, numa |-> numa, siblings |-> siblings]
Offline == Thread(Missing, Missing, Missing, Missing, <<>>)

MCMachines ==
  { \* one socket, two cores with two threads each
    0 :> Thread(0, 0, 0, 0, <<0, 2>>) @@ 1 :> Thread(1, 0, 0, 0, <<1, 3>>)
      @@ 2 :> Thread(0, 0, 0, 0, <<0, 2>>) @@ 3 :> Thread(1, 0, 0, 0, <<1, 3>>),
    \* two sockets with two dies each, whose cores have the same ids
    0 :> Thread(0, 0, 0, 0, <<0>>) @@ 1 :> Thread(0, 1, 2, 1, <<1>>)
      @@ 2 :> Thread(1, 0, 1, 0, <<2>>) @@ 3 :> Thread(1, 1, 3, 1, <<3>>),
    \* no die ids; one thread offline
    0 :> Thread(0, 0, Missing, 0, <<0>>) @@ 1 :> Thread(1, 0, Missing, 0, <<1>>)
      @@ 2 :> Offline,
    \* the numbers have a gap
    0 :> Thread(0, 0, 0, 0, <<0>>) @@ 2 :> Thread(1, 0, 0, 0, <<2>>) }

MCMetrics ==
  << [type |-> "hwthread", calc |-> "good", publish |-> TRUE],
     [type |-> "socket", calc |-> "good", publish |-> TRUE],
     [type |-> "hwthread", calc |-> "bad", publish |-> TRUE] >>
=============================================================================
