-------------------------------- MODULE Gate --------------------------------
(***************************************************************************)
(* What an enforcement point promises its clients: what it hands out the   *)
(* engine has allowed at some moment since the client asked, each release  *)
(* by itself.  An open gate may let everything through.                    *)
(***************************************************************************)
CONSTANTS
  Versions,  \* releases
  Clients    \* requests of package managers and runs of CI

VARIABLES
  open,      \* the clients whose gate was started to fail open
  allowed,   \* the releases the engine answers ALLOW for at this moment
  asking,    \* the clients that wait
  since,     \* for each of them, what was allowed at some moment since it asked
  handed     \* what each client got last

vars == <<open, allowed, asking, since, handed>>

Init ==
  /\ open \in SUBSET Clients
  /\ allowed \in SUBSET Versions
  /\ asking = {}
  /\ since = [c \in Clients |-> {}]
  /\ handed = [c \in Clients |-> {}]

Ask(c) ==
  /\ c \notin asking
  /\ asking' = asking \cup {c}
  /\ since' = [since EXCEPT ![c] = allowed]
  /\ handed' = [handed EXCEPT ![c] = {}]
  /\ UNCHANGED <<open, allowed>>

Hand(c, S) ==
  /\ c \in asking
  /\ c \in open \/ S \subseteq since[c]
  /\ asking' = asking \ {c}
  /\ since' = [since EXCEPT ![c] = {}]
  /\ handed' = [handed EXCEPT ![c] = S]
  /\ UNCHANGED <<open, allowed>>

Judge ==
  /\ allowed' \in SUBSET Versions
  /\ since' = [c \in Clients |-> IF c \in asking THEN since[c] \cup allowed' ELSE since[c]]
  /\ UNCHANGED <<open, asking, handed>>

Next ==
  \/ \E c \in Clients : Ask(c)
  \/ \E c \in Clients, S \in SUBSET Versions : Hand(c, S)
  \/ Judge

Spec == Init /\ [][Next]_vars
=============================================================================
