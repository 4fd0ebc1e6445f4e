--------------------------- MODULE MC_BridgeHandler ---------------------------
(* Small instances of BridgeHandler for TLC. *)
EXTENDS BridgeHandler, TLC

CONSTANTS a, b, c, d, y, x, t, u

Ev(root, parent, p2p, kind, plain) ==
  [root |-> root, parent |-> parent, p2p |-> p2p, kind |-> kind, plain |-> plain]

\* A direct chat: two top-level messages a and c of the sticky session; in the
\* topic of the task card t a button b and a /stop x; d is a quote reply on t;
\* y is a message of another topic u.
ChatEvents ==
  (a :> Ev(None, None, TRUE, "user", TRUE)) @@ (c :> Ev(None, None, TRUE, "user", TRUE))
  @@ (b :> Ev(t, None, TRUE, "card", TRUE)) @@ (x :> Ev(t, None, TRUE, "stop", FALSE))
  @@ (d :> Ev(None, t, TRUE, "user", FALSE)) @@ (y :> Ev(u, None, TRUE, "user", TRUE))

\* Who takes part: the others were handled before.  b and d share a queue key
\* and may share a session; a, b and y are three queue keys for two slots, in a
\* process that stays up.
Casts == {{a, c, x}, {b, d, x}, {a, b, y}}
CastInit == Init /\ {m \in Messages : client[m] = "away"} \in Casts
Present(m) == client[m] # "handled" \/ m \in budget.seen
CastNext == Next /\ (Present(y) => budget'.crashes = 0)
CastSpec == CastInit /\ [][CastNext]_vars /\ WF_vars(Progress)

\* An ordinary quote reply a opens a topic; b is a follow-up in it.
QuoteEvents ==
  (a :> Ev(None, t, FALSE, "user", TRUE)) @@ (b :> Ev(a, None, FALSE, "user", TRUE))
===============================================================================
