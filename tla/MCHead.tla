------------------------------- MODULE MCHead -------------------------------
EXTENDS Head

\* What a client may speak: each protocol with a head that fits, one that is too
\* large, one that is malformed and the keys a head can name; WebSocket upgrades;
\* opaque bytes the classifier knows and bytes it never decides on.
MCProfiles ==
  {p \in [proto : Proto, sig : {2, Window + 1},
          head : {2, MaxHeader, MaxHeader + 1, MaxHeader + 2},
          malformed : BOOLEAN, key : {"host", "none", "invalid"},
          ws : BOOLEAN] :
     /\ p.sig <= p.head
     /\ p.proto = "raw" => p.key = "none" /\ p.head = p.sig /\ ~p.malformed
     /\ p.proto # "raw" => p.sig = 2
     /\ p.malformed => p.key = "none" /\ p.head = MaxHeader
     /\ p.key = "invalid" => p.head = MaxHeader
     /\ p.ws => p.proto = "http1" /\ ~p.malformed}

=============================================================================
