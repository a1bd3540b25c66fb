----------------------- MODULE MCChannelParallelRead -----------------------
(***************************************************************************)
(* Three channels of two, one and three row groups; the third does not fit *)
(* the share of two workers but fits the budget of one.                    *)
(***************************************************************************)
EXTENDS ChannelParallelRead

MCRequests == {<<2, 1>>, <<3, 1, 2>>, <<3>>, <<1, 1>>, <<0>>, <<>>}
MCFootprint == <<<<1, 2>>, <<3>>, <<1, 1, 4>>>>
=============================================================================
