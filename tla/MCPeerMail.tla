----------------------------- MODULE MCPeerMail -----------------------------
(* Two agents in a window each, and a second window that was given a name in use. *)
EXTENDS PeerMail, TLC

CONSTANTS w1, w2, w3, a, b

MCNameOf == [x \in {w1} |-> a] @@ [x \in {w2} |-> b] @@ [x \in {w3} |-> a]
MCTwoWindows == {w1, w2}
MCTwoNames == [w \in MCTwoWindows |-> MCNameOf[w]]
=============================================================================
