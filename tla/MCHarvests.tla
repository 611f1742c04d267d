----------------------------- MODULE MCHarvests -----------------------------
(* Two kamis, two nodes, and a call of each kind.                          *)
EXTENDS Harvests

CONSTANTS k1, k2

MCKami == {k1, k2}

Call(s, fn, vals) == [to |-> s, fn |-> fn, vals |-> vals]
Ids(name)         == Fn(name, <<Array("ids")>>)
Batched           == Fn("executeBatched", <<Array("kamiIDs"), Scalar("nodeIndex")>>)

MCCalls ==
    {Call("start", Execute, <<k1, 1>>),
     Call("start", Batched, <<<<k1, k2>>, 2>>),
     Call("start", Batched, << <<>>, 1>>),
     Call("stop", Ids("executeBatchedAllowFailure"), <<<<k1, k2>>>>),
     Call("stop", Ids("executeBatchedAllowFailure"), <<<<k2, k2>>>>),
     Call("stop", Fn("executeAllowFailure", <<Scalar("arguments")>>), <<k1>>),
     Call("collect", Execute, <<k1>>),
     Call("liquidate", TypedFn("liquidate"), <<k2, k1>>)}
=============================================================================
