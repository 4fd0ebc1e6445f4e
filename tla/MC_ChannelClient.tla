--------------------------- MODULE MC_ChannelClient ---------------------------
(* Small instances of ChannelClient for TLC: a group g and a direct chat d. *)
EXTENDS ChannelClient, TLC

CONSTANTS m1, m2, g, d

Apart == [m \in Msgs |-> IF m = m2 THEN d ELSE g]

ListOrOpen  == {{g}, {}}
NoneLearned == {{}}

Budget(time, posts, outages, trouble) ==
  [time |-> time, posts |-> posts, outages |-> outages, trouble |-> trouble]

Overlaps ==
  {Budget(2, 2, 0, 1), Budget(2, 1, 1, 0), Budget(6, 0, 2, 0), Budget(3, 1, 0, 2)}

\* Two outages without a message are explored for the bot with a chat list.
OutagesListed ==
  budget.posts = 0 /\ (\A m \in Msgs : sent[m] = None) => allowed # {}
===============================================================================
