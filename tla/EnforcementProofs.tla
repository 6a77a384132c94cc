-------------------------- MODULE EnforcementProofs --------------------------
(***************************************************************************)
(* The gateway and the admission gate implement Gate, for any releases,    *)
(* clients and batch size, and the admission gate reads every dependency   *)
(* of a lockfile, for any dependencies and number of entries.              *)
(***************************************************************************)
EXTENDS Enforcement, Lockfiles, NaturalFacts, FiniteSetTheorems

(* What makes the refinement inductive: what the engine allows now counts   *)
(* as seen by whoever waits, what a call has been granted was allowed since *)
(* its client asked, and a run accounts for every dependency it will vouch  *)
(* for.                                                                     *)
CallInv(c) ==
  /\ call[c].pc = "idle" => call[c].open = {}
  /\ call[c].pc # "idle" => allowed \subseteq since[c]
  /\ call[c].granted \subseteq since[c]
  /\ call[c].pc = "batch" =>
       call[c].asked \subseteq call[c].granted \cup call[c].blocked \cup call[c].open \cup call[c].later

GateInv == TypeOK /\ \A c \in Clients : CallInv(c)

-----------------------------------------------------------------------------
(* Starting a call with an asked set that the batch and the rest make up   *)
(* keeps the invariant and is Ask (rewritePackument, tarballGate, runGate).*)
LEMMA StartAsks ==
  ASSUME GateInv, NEW c \in Clients, NEW pc \in {"packument", "tarball", "batch"},
         NEW asked \in SUBSET Versions, NEW batch \in SUBSET Versions,
         NEW rest \in SUBSET Versions, NEW tags \in SUBSET Versions,
         asked \subseteq batch \cup rest, Start(c, pc, asked, batch, rest, tags)
  PROVE  GateInv' /\ Promise!Ask(c)
<1>1. TypeOK'
  BY DEF GateInv, TypeOK, Start, Call, Handed, Nothing
<1>2. ASSUME NEW d \in Clients PROVE CallInv(d)'
  <2>1. CASE d = c
    BY <2>1 DEF GateInv, TypeOK, Start, CallInv
  <2>2. CASE d # c
    BY <2>2 DEF GateInv, TypeOK, Start, CallInv
  <2> QED BY <2>1, <2>2
<1>3. c \notin Asking /\ Asking' = Asking \cup {c}
  BY DEF GateInv, TypeOK, Start, Asking
<1>4. since' = [since EXCEPT ![c] = allowed] /\ UNCHANGED <<failOpen, allowed>>
  BY DEF Start
<1>5. [d \in Clients |-> handed[d].versions]' = [[d \in Clients |-> handed[d].versions] EXCEPT ![c] = {}]
  BY DEF GateInv, TypeOK, Start, Nothing
<1> QED BY <1>1, <1>2, <1>3, <1>4, <1>5 DEF GateInv, Promise!Ask

(* Finishing a call with what was granted, or with anything behind an open *)
(* gateway, keeps the invariant and is Hand.                               *)
LEMMA FinishHands ==
  ASSUME GateInv, NEW c \in Clients, call[c].pc # "idle",
         NEW outcome \in {"passed", "refused", "unavailable", "untouched"},
         NEW versions \in SUBSET Versions, NEW tags \in SUBSET Versions,
         (failOpen /\ c \in Fetchers) \/ versions \subseteq call[c].granted,
         Finish(c, outcome, versions, tags)
  PROVE  GateInv' /\ Promise!Hand(c, versions)
<1>1. TypeOK'
  BY DEF GateInv, TypeOK, Finish, Call, Handed, Idle
<1>2. ASSUME NEW d \in Clients PROVE CallInv(d)'
  <2>1. CASE d = c
    BY <2>1 DEF GateInv, TypeOK, Finish, Idle, CallInv
  <2>2. CASE d # c
    BY <2>2 DEF GateInv, TypeOK, Finish, Idle, CallInv
  <2> QED BY <2>1, <2>2
<1>3. c \in Asking /\ Asking' = Asking \ {c}
  BY DEF GateInv, TypeOK, Finish, Idle, Asking
<1>4. since' = [since EXCEPT ![c] = {}] /\ UNCHANGED <<failOpen, allowed>>
  BY DEF Finish
<1>5. [d \in Clients |-> handed[d].versions]' = [[d \in Clients |-> handed[d].versions] EXCEPT ![c] = versions]
  BY DEF GateInv, TypeOK, Finish
<1>6. c \in (IF failOpen THEN Fetchers ELSE {}) \/ versions \subseteq since[c]
  BY DEF GateInv, CallInv
<1> QED BY <1>1, <1>2, <1>3, <1>4, <1>5, <1>6 DEF GateInv, Promise!Hand

(* A turn of a call that accounts for every release and grants only what   *)
(* is allowed now is no step of the promise.                               *)
LEMMA TurnStutters ==
  ASSUME GateInv, NEW c \in Clients, call[c].pc # "idle",
         NEW open \in SUBSET Versions, NEW later \in SUBSET Versions,
         NEW granted \in SUBSET Versions, NEW blocked \in SUBSET Versions,
         granted \subseteq call[c].granted \cup allowed,
         call[c].granted \cup call[c].blocked \cup call[c].open \cup call[c].later
           \subseteq granted \cup blocked \cup open \cup later,
         Turn(c, open, later, granted, blocked)
  PROVE  GateInv' /\ UNCHANGED Promise!vars
<1>1. TypeOK'
  BY DEF GateInv, TypeOK, Turn, Call
<1>2. ASSUME NEW d \in Clients PROVE CallInv(d)'
  <2>1. CASE d = c
    BY <2>1 DEF GateInv, TypeOK, Turn, CallInv
  <2>2. CASE d # c
    BY <2>2 DEF GateInv, TypeOK, Turn, CallInv
  <2> QED BY <2>1, <2>2
<1>3. Asking' = Asking
  BY DEF GateInv, TypeOK, Turn, Asking
<1> QED BY <1>1, <1>2, <1>3 DEF GateInv, Turn, Promise!vars

-----------------------------------------------------------------------------
(* Every initial state is one of the promise.                              *)
LEMMA InitMaps == Init => GateInv /\ Promise!Init
<1> SUFFICES ASSUME Init PROVE GateInv /\ Promise!Init
  OBVIOUS
<1>1. TypeOK
  BY DEF Init, TypeOK, Call, Handed, Idle, Nothing
<1>2. \A c \in Clients : CallInv(c)
  BY DEF Init, Idle, CallInv
<1>3. Promise!Init
  BY DEF Init, Idle, Nothing, Asking, Clients, Promise!Init
<1> QED BY <1>1, <1>2, <1>3 DEF GateInv

(* Every step keeps the invariant and is one of the promise, or none.      *)
LEMMA StepMaps ==
  ASSUME GateInv, [Next]_vars
  PROVE  GateInv' /\ [Promise!Next]_(Promise!vars)
<1>1. ASSUME NEW c \in Clients, NEW v \in Versions, tarballGate(c, v)
      PROVE  GateInv' /\ Promise!Ask(c)
  BY <1>1, StartAsks DEF tarballGate
<1>2. ASSUME NEW c \in Clients, NEW S \in SUBSET Versions, NEW tags \in SUBSET Versions,
             filter_metadata(c, S, tags)
      PROVE  GateInv' /\ Promise!Ask(c)
  BY <1>2, StartAsks DEF filter_metadata
<1>3. ASSUME NEW c \in Clients, NEW base \in SUBSET Versions, NEW head \in SUBSET Versions,
             NEW known \in BOOLEAN, runGate(c, base, known, head)
      PROVE  GateInv' /\ Promise!Ask(c)
  <2> DEFINE asked == head \ (IF known THEN base ELSE {})
  <2>1. PICK B \in SUBSET asked : Start(c, "batch", asked, B, asked \ B, {})
    BY <1>3 DEF runGate, changedDeps, Batches
  <2>2. asked \in SUBSET Versions /\ B \in SUBSET Versions /\ asked \ B \in SUBSET Versions
    OBVIOUS
  <2>3. asked \subseteq B \cup (asked \ B)
    OBVIOUS
  <2> HIDE DEF asked
  <2> QED BY <2>1, <2>2, <2>3, StartAsks
<1>4. ASSUME NEW c \in Clients, rewritePackument(c) \/ PassEmpty(c) \/ TarballAnswered(c)
      PROVE  GateInv' /\ \E S \in SUBSET Versions : Promise!Hand(c, S)
  <2>0. call[c] \in Call
    BY DEF GateInv, TypeOK
  <2>1. CASE rewritePackument(c)
    <3>1. call[c].granted \in SUBSET Versions /\ call[c].tags \cap call[c].granted \in SUBSET Versions
      BY <2>0 DEF Call
    <3> QED BY <2>1, <3>1, FinishHands DEF rewritePackument
  <2>2. CASE PassEmpty(c)
    BY <2>0, <2>2, FinishHands DEF PassEmpty, Call
  <2>3. CASE TarballAnswered(c)
    BY <2>0, <2>3, FinishHands DEF TarballAnswered, Call
  <2> QED BY <1>4, <2>1, <2>2, <2>3
<1>5. ASSUME NEW c \in Clients, evaluate(c)
      PROVE  GateInv' /\ \E S \in SUBSET Versions : Promise!Hand(c, S)
  <2>0. call[c] \in Call /\ CallInv(c)
    BY DEF GateInv, TypeOK
  <2>1. CASE call[c].blocked = {} /\ Finish(c, "passed", call[c].asked, {})
    <3>1. call[c].asked \subseteq call[c].granted
      BY <1>5, <2>0, <2>1 DEF evaluate, CallInv
    <3> QED BY <1>5, <2>0, <2>1, <3>1, FinishHands DEF evaluate, Call
  <2>2. CASE call[c].blocked # {} /\ Finish(c, "refused", {}, {})
    BY <1>5, <2>0, <2>2, FinishHands DEF evaluate, Call
  <2> QED BY <1>5, <2>1, <2>2 DEF evaluate
<1>6. ASSUME NEW c \in Clients, GiveUp(c)
      PROVE  GateInv' /\ \E S \in SUBSET Versions : Promise!Hand(c, S)
  <2>0. call[c] \in Call /\ call[c].pc # "idle"
    BY <1>6 DEF GateInv, TypeOK, GiveUp, Unanswered
  <2>1. CASE failClosed(c)
    BY <1>6, <2>0, <2>1, FinishHands DEF GiveUp, Call
  <2>2. CASE ~failClosed(c)
    <3>1. failOpen /\ c \in Fetchers
      BY <2>2 DEF failClosed, Clients
    <3> QED BY <1>6, <2>0, <2>2, <3>1, FinishHands DEF GiveUp, Call
  <2> QED BY <2>1, <2>2
<1>7. ASSUME VerdictsChange
      PROVE  GateInv' /\ Promise!Judge
  <2>1. TypeOK'
    BY <1>7 DEF GateInv, TypeOK, VerdictsChange
  <2>2. ASSUME NEW c \in Clients PROVE CallInv(c)'
    BY <1>7 DEF GateInv, TypeOK, CallInv, VerdictsChange, Asking
  <2>3. Promise!Judge
    BY <1>7 DEF VerdictsChange, Promise!Judge, Asking, Clients
  <2> QED BY <2>1, <2>2, <2>3 DEF GateInv
<1>8. ASSUME NEW c \in Clients, NEW v \in Versions, Judge(c, v)
      PROVE  GateInv' /\ UNCHANGED Promise!vars
  <2>1. call[c] \in Call /\ call[c].pc # "idle"
    BY <1>8 DEF GateInv, TypeOK, CallInv, Judge
  <2>2. CASE v \in allowed
    BY <1>8, <2>1, <2>2, TurnStutters DEF Judge, Call
  <2>3. CASE v \notin allowed
    BY <1>8, <2>1, <2>3, TurnStutters DEF Judge, Call
  <2> QED BY <2>2, <2>3
<1>9. ASSUME NEW c \in Clients, NextBatch(c)
      PROVE  GateInv' /\ UNCHANGED Promise!vars
  <2>1. call[c] \in Call /\ call[c].pc # "idle" /\ call[c].open = {}
    BY <1>9 DEF GateInv, TypeOK, NextBatch
  <2>2. PICK B \in SUBSET call[c].later :
          Turn(c, B, call[c].later \ B, call[c].granted, call[c].blocked)
    BY <1>9 DEF NextBatch, Batches
  <2> QED BY <2>1, <2>2, TurnStutters DEF Call
<1>10. CASE UNCHANGED vars
  <2>1. GateInv'
    BY <1>10 DEF GateInv, TypeOK, CallInv, vars
  <2> QED BY <1>10, <2>1 DEF vars, Promise!vars, Asking
<1> QED
  BY <1>1, <1>2, <1>3, <1>4, <1>5, <1>6, <1>7, <1>8, <1>9, <1>10
  DEF Next, Proceed, Clients, Promise!Next

(* Whatever the gateway or the admission gate hands out was allowed since  *)
(* its client asked, unless the gateway was started to fail open           *)
(* (rewritePackument, tarballGate, runGate).                               *)
THEOREM EnforcementImplementsGate == Spec => ImplementsGate
<1>1. Init => GateInv /\ Promise!Init
  BY InitMaps
<1>2. GateInv /\ [Next]_vars => GateInv' /\ [Promise!Next]_(Promise!vars)
  BY StepMaps
<1> QED BY <1>1, <1>2, PTL DEF Spec, ImplementsGate, Promise!Spec

-----------------------------------------------------------------------------
(***************************************************************************)
(* Lockfiles.                                                              *)
(***************************************************************************)
\* Keys, descriptors and what they are made of.
Text == Seq(Token)

(* Texts are the same when their tokens are.                               *)
LEMMA SameText ==
  ASSUME NEW T, NEW a \in Seq(T), NEW b \in Seq(T), Len(a) = Len(b), \A i \in 1..Len(a) : a[i] = b[i]
  PROVE  a = b
OBVIOUS

(* A text that is not empty has a length; one of certain tokens is one of  *)
(* any set with them.                                                      *)
LEMMA TextIn ==
  ASSUME NEW M, NEW T, NEW s \in Seq(M), \A i \in 1..Len(s) : s[i] \in T
  PROVE  s \in Seq(T) /\ Len(s) \in Nat /\ (s # <<>> => Len(s) # 0)
OBVIOUS

(* Two texts in a row: the tokens of the one, then the other's.            *)
LEMMA JoinIs ==
  ASSUME NEW T, NEW a \in Seq(T), NEW b \in Seq(T)
  PROVE  /\ a \o b \in Seq(T) /\ Len(a \o b) = Len(a) + Len(b)
         /\ \A i \in 1..Len(a) : (a \o b)[i] = a[i]
         /\ \A i \in 1..Len(b) : (a \o b)[Len(a) + i] = b[i]
OBVIOUS

(* Cutting them apart again.                                               *)
LEMMA CutJoin ==
  ASSUME NEW T, NEW a \in Seq(T), NEW b \in Seq(T)
  PROVE  Before(a \o b, Len(a) + 1) = a /\ After(a \o b, Len(a)) = b
<1> DEFINE s == a \o b
<1>1. /\ s \in Seq(T) /\ Len(s) = Len(a) + Len(b) /\ Len(a) \in Nat /\ Len(b) \in Nat
      /\ \A i \in 1..Len(a) : s[i] = a[i]
      /\ \A i \in 1..Len(b) : s[Len(a) + i] = b[i]
  BY JoinIs
<1> HIDE DEF s
<1>2. SubSeq(s, 1, Len(a)) = a
  <2>1. SubSeq(s, 1, Len(a)) \in Seq(T) /\ Len(SubSeq(s, 1, Len(a))) = Len(a)
    BY <1>1
  <2>2. \A i \in 1..Len(a) : SubSeq(s, 1, Len(a))[i] = a[i]
    BY <1>1
  <2>3. QED
    BY <2>1, <2>2, SameText
<1>3. SubSeq(s, Len(a) + 1, Len(s)) = b
  <2>1. SubSeq(s, Len(a) + 1, Len(s)) \in Seq(T) /\ Len(SubSeq(s, Len(a) + 1, Len(s))) = Len(b)
    BY <1>1
  <2>2. \A i \in 1..Len(b) : SubSeq(s, Len(a) + 1, Len(s))[i] = b[i]
    BY <1>1
  <2>3. QED
    BY <2>1, <2>2, SameText
<1>4. Len(a) + 1 - 1 = Len(a)
  BY <1>1
<1>5. QED
  BY <1>2, <1>3, <1>4 DEF Before, After, s

(* Three texts in a row, joined in either order.                           *)
LEMMA JoinTurns ==
  ASSUME NEW T, NEW a \in Seq(T), NEW b \in Seq(T), NEW c \in Seq(T)
  PROVE  (a \o b) \o c = a \o (b \o c)
<1>1. a \o b \in Seq(T) /\ b \o c \in Seq(T) /\ Len(a \o b) = Len(a) + Len(b) /\ Len(b \o c) = Len(b) + Len(c)
  BY JoinIs
<1>2. (a \o b) \o c \in Seq(T) /\ a \o (b \o c) \in Seq(T) /\ Len((a \o b) \o c) = Len(a \o (b \o c))
  BY <1>1
<1>3. ASSUME NEW i \in 1..Len((a \o b) \o c) PROVE ((a \o b) \o c)[i] = (a \o (b \o c))[i]
  BY <1>1
<1>4. QED
  BY <1>2, <1>3, SameText

(* Where a token is last (lastIndexOf).                                    *)
LEMMA LastIs ==
  ASSUME NEW T, NEW s \in Seq(T), NEW c, NEW p \in 1..Len(s), s[p] = c, \A k \in 1..Len(s) : k > p => s[k] # c
  PROVE  lastIndexOf(s, c) = p
<1>1. DOMAIN s = 1..Len(s) /\ p \in Positions(s, c) /\ Positions(s, c) \subseteq Nat
  BY DEF Positions
<1>2. \A j \in Positions(s, c) : p >= j
  BY DEF Positions
<1>3. \A i \in Positions(s, c) : (\A j \in Positions(s, c) : i >= j) => i = p
  BY <1>1, <1>2
<1>4. QED
  BY <1>1, <1>2, <1>3 DEF lastIndexOf

(* Where it is first (indexOf).                                            *)
LEMMA FirstIs ==
  ASSUME NEW T, NEW s \in Seq(T), NEW c, NEW p \in 1..Len(s), s[p] = c, \A k \in 1..Len(s) : k < p => s[k] # c
  PROVE  indexOf(s, c) = p
<1>1. DOMAIN s = 1..Len(s) /\ p \in Positions(s, c) /\ Positions(s, c) \subseteq Nat
  BY DEF Positions
<1>2. \A j \in Positions(s, c) : p <= j
  BY DEF Positions
<1>3. \A i \in Positions(s, c) : (\A j \in Positions(s, c) : i <= j) => i = p
  BY <1>1, <1>2
<1>4. QED
  BY <1>1, <1>2, <1>3 DEF indexOf

(* That it is nowhere.                                                     *)
LEMMA NoneIs ==
  ASSUME NEW T, NEW s \in Seq(T), NEW c, \A k \in 1..Len(s) : s[k] # c
  PROVE  lastIndexOf(s, c) = Nowhere /\ indexOf(s, c) = Nowhere
<1>1. Positions(s, c) = {}
  BY DEF Positions
<1>2. QED
  BY <1>1 DEF lastIndexOf, indexOf

\* A text around a token.
Around(a, c, b) == a \o (<<c>> \o b)

(* Where the token is, and what is on its sides.                           *)
LEMMA AroundIs ==
  ASSUME NEW a \in Text, NEW c \in Token, NEW b \in Text
  PROVE  /\ Around(a, c, b) \in Text /\ Len(Around(a, c, b)) = Len(a) + 1 + Len(b)
         /\ Before(Around(a, c, b), Len(a) + 1) = a /\ After(Around(a, c, b), Len(a) + 1) = b
         /\ (\A i \in 1..Len(b) : b[i] # c) => lastIndexOf(Around(a, c, b), c) = Len(a) + 1
         /\ (\A i \in 1..Len(a) : a[i] # c) => indexOf(Around(a, c, b), c) = Len(a) + 1
<1> DEFINE s == Around(a, c, b)
           t == <<c>> \o b
           u == a \o <<c>>
<1>0. Len(a) \in Nat /\ Len(b) \in Nat /\ <<c>> \in Text /\ Len(<<c>>) = 1
  BY DEF Text
<1>1. /\ t \in Text /\ Len(t) = 1 + Len(b) /\ t[1] = c /\ \A i \in 1..Len(b) : t[1 + i] = b[i]
  BY <1>0, JoinIs DEF Text
<1>2. u \in Text /\ Len(u) = Len(a) + 1
  BY <1>0, JoinIs DEF Text
<1>3. s = u \o b
  BY <1>0, JoinTurns DEF Text, Around
<1>4. s = a \o t
  BY DEF Around
<1> HIDE DEF s, t, u
<1>5. /\ s \in Text /\ Len(s) = Len(a) + Len(t)
      /\ \A i \in 1..Len(a) : s[i] = a[i]
      /\ \A i \in 1..Len(t) : s[Len(a) + i] = t[i]
  <2>1. /\ a \o t \in Seq(Token) /\ Len(a \o t) = Len(a) + Len(t)
        /\ \A i \in 1..Len(a) : (a \o t)[i] = a[i]
        /\ \A i \in 1..Len(t) : (a \o t)[Len(a) + i] = t[i]
    <3>1. a \in Seq(Token) /\ t \in Seq(Token)
      BY <1>1 DEF Text
    <3>2. QED
      BY <3>1
  <2>2. QED
    BY <1>4, <2>1 DEF Text
<1>6. Before(s, Len(a) + 1) = a
  BY <1>1, <1>4, CutJoin DEF Text
<1>7. After(s, Len(a) + 1) = b
  BY <1>2, <1>3, CutJoin DEF Text
<1> DEFINE p == Len(a) + 1
<1>8. p \in 1..Len(s) /\ s[p] = c
  BY <1>0, <1>1, <1>5
<1>9. ASSUME \A i \in 1..Len(b) : b[i] # c PROVE lastIndexOf(s, c) = p
  <2>1. ASSUME NEW k \in 1..Len(s), k > p PROVE s[k] # c
    <3>1. k - p \in 1..Len(b) /\ k = Len(a) + (1 + (k - p)) /\ 1 + (k - p) \in 1..Len(t)
      BY <1>0, <1>1, <1>5, <2>1
    <3>2. s[k] = t[1 + (k - p)] /\ t[1 + (k - p)] = b[k - p]
      BY <1>1, <1>5, <3>1
    <3>3. QED
      BY <1>9, <3>1, <3>2
  <2> HIDE DEF p
  <2>2. QED
    BY <1>5, <1>8, <2>1, LastIs DEF Text
<1>10. ASSUME \A i \in 1..Len(a) : a[i] # c PROVE indexOf(s, c) = p
  <2>1. ASSUME NEW k \in 1..Len(s), k < p PROVE s[k] # c
    BY <1>0, <1>5, <1>10, <2>1
  <2> HIDE DEF p
  <2>2. QED
    BY <1>5, <1>8, <2>1, FirstIs DEF Text
<1>11. Len(s) = Len(a) + 1 + Len(b)
  BY <1>0, <1>1, <1>5
<1>12. QED
  BY <1>5, <1>6, <1>7, <1>9, <1>10, <1>11 DEF s

\* A name and a version as a descriptor.
Descriptor(n, v) == n \o <<"@", v>>

(* What a descriptor is cut into.                                          *)
LEMMA DescriptorIs ==
  ASSUME NEW n \in Text, n # <<>>, NEW v \in Token, v # "@"
  PROVE  /\ Descriptor(n, v) \in Text /\ Len(Descriptor(n, v)) = Len(n) + 2
         /\ \A i \in 1..Len(n) : Descriptor(n, v)[i] = n[i]
         /\ Descriptor(n, v)[Len(n) + 1] = "@" /\ Descriptor(n, v)[Len(n) + 2] = v
         /\ lastIndexOf(Descriptor(n, v), "@") = Len(n) + 1 /\ Len(n) + 1 > 1
         /\ Before(Descriptor(n, v), Len(n) + 1) = n /\ After(Descriptor(n, v), Len(n) + 1) = <<v>>
<1> DEFINE s == Descriptor(n, v)
<1>0. /\ Len(n) \in Nat /\ Len(n) > 0 /\ "@" \in Token /\ <<v>> \in Text /\ Len(<<v>>) = 1
      /\ <<"@", v>> \in Text /\ Len(<<"@", v>>) = 2 /\ <<"@", v>>[1] = "@" /\ <<"@", v>>[2] = v
  <2>1. "@" \in Token
    BY DEF Token, Marks
  <2>2. Len(n) \in Nat /\ Len(n) > 0
    BY DEF Text
  <2>3. /\ <<v>> \in Text /\ Len(<<v>>) = 1 /\ Len(<<"@", v>>) = 2
        /\ <<"@", v>>[1] = "@" /\ <<"@", v>>[2] = v
    BY DEF Text
  <2>4. <<"@", v>> \in Text
    BY <2>1 DEF Text
  <2>5. QED
    BY <2>1, <2>2, <2>3, <2>4
<1>1. <<"@", v>> = <<"@">> \o <<v>>
  OBVIOUS
<1>2. s = n \o (<<"@">> \o <<v>>)
  BY <1>1 DEF Descriptor
<1>3. \A i \in 1..Len(<<v>>) : <<v>>[i] # "@"
  BY <1>0
<1>4. /\ s \in Text /\ Len(s) = Len(n) + 1 + Len(<<v>>) /\ Before(s, Len(n) + 1) = n
      /\ After(s, Len(n) + 1) = <<v>> /\ lastIndexOf(s, "@") = Len(n) + 1
  <2>1. PICK c \in Token : c = "@"
    BY <1>0
  <2>2. PICK r \in Text : r = <<v>>
    BY <1>0
  <2>3. s = Around(n, c, r) /\ \A i \in 1..Len(r) : r[i] # c
    BY <1>2, <1>3, <2>1, <2>2 DEF Around
  <2> HIDE DEF s
  <2>4. /\ s \in Text /\ Len(s) = Len(n) + 1 + Len(r) /\ Before(s, Len(n) + 1) = n
        /\ After(s, Len(n) + 1) = r /\ lastIndexOf(s, c) = Len(n) + 1
    BY <2>3, AroundIs
  <2>5. QED
    BY <2>1, <2>2, <2>4
<1>5. /\ \A i \in 1..Len(n) : s[i] = n[i]
      /\ \A i \in 1..2 : s[Len(n) + i] = <<"@", v>>[i]
  BY <1>0, JoinIs DEF Text, Descriptor
<1>6. s[Len(n) + 1] = "@" /\ s[Len(n) + 2] = v
  BY <1>0, <1>5
<1>7. QED
  BY <1>0, <1>4, <1>5, <1>6

(* It is read back (parseDescriptor).                                      *)
LEMMA DescriptorRead ==
  ASSUME NEW n \in Text, n # <<>>, NEW v \in Token, v # "@"
  PROVE  parseDescriptor(Descriptor(n, v)) = {[name |-> n, version |-> v]}
<1> DEFINE s == Descriptor(n, v)
           at == Len(n) + 1
<1>1. lastIndexOf(s, "@") = at /\ at > 1 /\ Before(s, at) = n /\ After(s, at) = <<v>> /\ at \in Nat
  BY DescriptorIs DEF Text
<1>2. <<v>> # <<>> /\ <<v>>[1] = v
  OBVIOUS
<1> HIDE DEF s, at
<1>3. parseDescriptor(s) = {[name |-> n, version |-> v]}
  BY <1>1, <1>2 DEF parseDescriptor
<1>4. QED
  BY <1>3 DEF s

(* What stands for a dependency.                                           *)
LEMMA DepIs ==
  ASSUME NEW d \in Deps
  PROVE  /\ d.name \in Text /\ d.name # <<>> /\ Len(d.name) \in Nat \ {0} /\ d.name[1] # "/"
         /\ \A i \in 1..Len(d.name) : d.name[i] \notin {",", "(", "node_modules/"}
         /\ d.version \in Token /\ d.version \notin {"@", "/", ",", "("} /\ d.version # NoVersion
         /\ d = [name |-> d.name, version |-> d.version]
<1> DEFINE M == Words \cup {"@", "/"}
           N == Seq(M)
<1>1. d \in [name : N, version : Words]
  BY DepsAssumption DEF DepsAssumption
<1>2. d.name \in N /\ d.version \in Words /\ d = [name |-> d.name, version |-> d.version]
  <2> HIDE DEF N
  <2>1. QED
    BY <1>1
<1>3. Modules[1] = "node_modules/"
  BY DEF Modules
<1>4. /\ Marks = {"@", "/", ",", "(", "node_modules/"} /\ \A w \in Words : w \notin Marks /\ w # NoVersion
      /\ d.name # <<>> /\ d.name[1] # "/"
  BY <1>3, DepsAssumption, Zenon DEF DepsAssumption, Marks
<1>5. \A t \in M : t \notin {",", "(", "node_modules/"} /\ t \in Token
  BY <1>4 DEF Token
<1>6. d.name \in Seq(M) /\ Len(d.name) \in Nat /\ \A i \in 1..Len(d.name) : d.name[i] \in M
  <2>1. d.name \in Seq(M)
    BY <1>2
  <2> HIDE DEF N, M
  <2>2. QED
    BY <2>1
<1> HIDE DEF M, N
<1>7. \A i \in 1..Len(d.name) : d.name[i] \in Token
  BY <1>5, <1>6
<1>8. d.name \in Text /\ Len(d.name) # 0
  BY <1>4, <1>6, <1>7, TextIn DEF Text
<1>9. d.version \in Token /\ d.version \notin {"@", "/", ",", "("} /\ d.version # NoVersion
  BY <1>2, <1>4 DEF Token
<1>10. QED
  BY <1>2, <1>4, <1>5, <1>6, <1>7, <1>8, <1>9

(* The words the lockfiles are written with.                               *)
LEMMA WordsAre ==
  /\ \A w \in {"w", "v", ")", "range", "npm:", "npm:range", "patch:", "workspace:", "https:", "packages/",
               "@", "/", ",", "(", "node_modules/"} : w \in Token
  /\ \A w \in {"w", "v", ")", "range", "npm:", "npm:range", "patch:", "workspace:", "https:", "packages/"} :
       w \notin {"@", "/", ",", "(", "node_modules/"} /\ w # NoVersion
<1>1. Modules[1] = "node_modules/"
  BY DEF Modules
<1>2. Marks = {"@", "/", ",", "(", "node_modules/"}
  BY <1>1 DEF Marks
<1>3. QED
  BY <1>2, DepsAssumption, Zenon DEF DepsAssumption, Token

(* Texts that do not begin, or begin with nothing.                         *)
LEMMA NothingJoined ==
  ASSUME NEW a \in Text
  PROVE  <<>> \o a = a /\ a \o <<>> = a /\ <<>> \in Text
BY DEF Text

(* Where something behind a text is.                                       *)
LEMMA BehindIs ==
  ASSUME NEW n \in Text
  PROVE  Len(n) + 1 # Nowhere /\ (n # <<>> => ~ (Len(n) + 1 <= 1))
BY DEF Text, Nowhere

(* Nested or not, the name in a path is found (nameFromPath).              *)
LEMMA PathRead ==
  ASSUME NEW n \in Text, NEW x \in Text, \A i \in 1..Len(n) : n[i] # "node_modules/"
  PROVE  nameFromPath(x \o (Modules \o n)) = {n} /\ Modules \o n \in Text
<1>1. PICK c \in Token : c = "node_modules/"
  BY WordsAre
<1>2. Modules = <<c>> /\ Modules[1] = c /\ <<c>> \in Text
  BY <1>1 DEF Modules, Text
<1>3. x \o (Modules \o n) = Around(x, c, n) /\ Modules \o n \in Text
  BY <1>2, JoinIs DEF Around, Text
<1>4. /\ lastIndexOf(Around(x, c, n), c) = Len(x) + 1 /\ After(Around(x, c, n), Len(x) + 1) = n
  <2>1. \A i \in 1..Len(n) : n[i] # c
    BY <1>1
  <2>2. QED
    BY <2>1, AroundIs
<1>5. Len(x) + 1 # Nowhere
  BY DEF Nowhere, Text
<1>6. nameFromPath(Around(x, c, n)) = {n}
  BY <1>2, <1>4, <1>5 DEF nameFromPath
<1>7. QED
  BY <1>3, <1>6

(* The project's own directories are not taken for dependencies.           *)
LEMMA OwnNotRead ==
  ASSUME NEW key \in {<<>>, <<"packages/", "w">>}
  PROVE  nameFromPath(key) = {} /\ key \in Text
<1>1. Modules[1] = "node_modules/" /\ "packages/" # "node_modules/" /\ "w" # "node_modules/"
  BY DEF Modules
<1>2. "packages/" \in Token /\ "w" \in Token
  BY WordsAre
<1>3. key \in Text /\ \A k \in 1..Len(key) : key[k] # "node_modules/"
  <2>1. CASE key = <<>>
    BY <2>1 DEF Text
  <2>2. CASE key = <<"packages/", "w">>
    <3>1. Len(key) = 2 /\ key[1] = "packages/" /\ key[2] = "w"
      BY <2>2
    <3>2. key \in Text
      BY <1>2, <2>2 DEF Text
    <3>3. \A k \in 1..2 : k = 1 \/ k = 2
      OBVIOUS
    <3>4. QED
      BY <1>1, <3>1, <3>2, <3>3
  <2>3. QED
    BY <2>1, <2>2
<1>4. lastIndexOf(key, Modules[1]) = Nowhere
  BY <1>1, <1>3, NoneIs DEF Text
<1>5. QED
  BY <1>3, <1>4 DEF nameFromPath

(* What a header's name is read from.                                      *)
LEMMA HeaderFirst ==
  ASSUME NEW header, NEW first, NEW n, NEW at,
         first = IF indexOf(header, ",") = Nowhere THEN header ELSE Before(header, indexOf(header, ",")),
         lastIndexOf(first, "@") = at, ~ (at <= 1), Before(first, at) = n
  PROVE  nameFromDescriptors(header) = {n}
<1>1. nameFromDescriptors(header) =
        IF lastIndexOf(first, "@") <= 1 THEN {} ELSE {Before(first, lastIndexOf(first, "@"))}
  BY Zenon DEF nameFromDescriptors
<1>2. QED
  BY <1>1, Zenon

(* No character of a descriptor is one that neither part holds.            *)
LEMMA DescriptorLacks ==
  ASSUME NEW n \in Text, n # <<>>, NEW v \in Token, v # "@", NEW c, c # "@", c # v,
         \A i \in 1..Len(n) : n[i] # c
  PROVE  \A i \in 1..Len(Descriptor(n, v)) : Descriptor(n, v)[i] # c
<1> DEFINE s == Descriptor(n, v)
<1>1. PICK l \in Nat : l = Len(n)
  BY DEF Text
<1>2. /\ Len(s) = l + 2 /\ s[l + 1] = "@" /\ s[l + 2] = v /\ \A i \in 1..l : s[i] = n[i]
  BY <1>1, DescriptorIs
<1> HIDE DEF s
<1>3. ASSUME NEW i \in 1..Len(s) PROVE s[i] # c
  <2>1. i \in 1..l \/ i = l + 1 \/ i = l + 2
    BY <1>1, <1>2
  <2>2. QED
    BY <1>1, <1>2, <2>1
<1>4. QED
  BY <1>3 DEF s

(* The name of a single descriptor, and of the first of several.           *)
LEMMA HeaderRead ==
  ASSUME NEW n \in Text, n # <<>>, \A i \in 1..Len(n) : n[i] # ",", NEW v \in Token, v # "@", v # ","
  PROVE  /\ nameFromDescriptors(Descriptor(n, v)) = {n}
         /\ \A b \in Text : nameFromDescriptors(Around(Descriptor(n, v), ",", b)) = {n}
<1> DEFINE s == Descriptor(n, v)
           at == Len(n) + 1
<1>1. s \in Text /\ lastIndexOf(s, "@") = at /\ Before(s, at) = n
  BY DescriptorIs, Zenon
<1>2. \A i \in 1..Len(s) : s[i] # ","
  <2>1. "," # "@"
    OBVIOUS
  <2>2. QED
    BY <2>1, DescriptorLacks
<1>3. ~ (at <= 1)
  BY BehindIs, Zenon
<1> HIDE DEF s, at
<1>4. nameFromDescriptors(s) = {n}
  <2>1. indexOf(s, ",") = Nowhere
    BY <1>1, <1>2, NoneIs DEF Text
  <2>2. s = IF indexOf(s, ",") = Nowhere THEN s ELSE Before(s, indexOf(s, ","))
    BY <2>1, Zenon
  <2>3. QED
    BY <1>1, <1>3, <2>2, HeaderFirst
<1>5. ASSUME NEW b \in Text PROVE nameFromDescriptors(Around(s, ",", b)) = {n}
  <2>1. PICK c \in Token : c = ","
    BY WordsAre
  <2>2. indexOf(Around(s, c, b), c) = Len(s) + 1 /\ Before(Around(s, c, b), Len(s) + 1) = s
    <3>1. \A i \in 1..Len(s) : s[i] # c
      BY <1>2, <2>1
    <3>2. QED
      BY <1>1, <3>1, AroundIs
  <2>3. Len(s) + 1 # Nowhere
    BY <1>1, BehindIs, Zenon
  <2> DEFINE h == Around(s, c, b)
  <2>4. s = IF indexOf(h, ",") = Nowhere THEN h ELSE Before(h, indexOf(h, ","))
    BY <2>1, <2>2, <2>3, Zenon
  <2> HIDE DEF h
  <2>5. nameFromDescriptors(h) = {n}
    BY <1>1, <1>3, <2>4, HeaderFirst
  <2>6. QED
    BY <2>1, <2>5 DEF h
<1>6. QED
  BY <1>4, <1>5 DEF s

(* A key behind a slash.                                                   *)
LEMMA LeadIs ==
  ASSUME NEW c \in Token, NEW s \in Text
  PROVE  <<c>> \o s # <<>> /\ (<<c>> \o s)[1] = c /\ After(<<c>> \o s, 1) = s
<1>1. <<c>> \in Seq(Token) /\ s \in Seq(Token) /\ Len(<<c>>) = 1
  BY DEF Text
<1>2. After(<<c>> \o s, 1) = s
  <2>1. PICK a \in Seq(Token) : a = <<c>>
    BY <1>1
  <2>2. After(a \o s, Len(a)) = s
    BY <1>1, CutJoin
  <2>3. QED
    BY <1>1, <2>1, <2>2
<1>3. Len(<<c>> \o s) # 0 /\ (<<c>> \o s)[1] = c
  BY <1>1
<1>4. QED
  BY <1>2, <1>3

(* What begins a key with something behind it.                             *)
LEMMA BeginIs ==
  ASSUME NEW s \in Text, s # <<>>, NEW t \in Text
  PROVE  s \o t # <<>> /\ (s \o t)[1] = s[1]
<1>1. Len(s) \in Nat /\ Len(s) # 0 /\ Len(t) \in Nat
  BY DEF Text
<1>2. Len(s \o t) = Len(s) + Len(t) /\ (s \o t)[1] = s[1]
  BY <1>1 DEF Text
<1>3. QED
  BY <1>1, <1>2

(* What a pnpm key's dependency is read from.                              *)
LEMMA KeyParts ==
  ASSUME NEW rawKey, NEW key, NEW bare,
         key = IF rawKey # <<>> /\ rawKey[1] = "/" THEN After(rawKey, 1) ELSE rawKey,
         bare = IF indexOf(key, "(") = Nowhere THEN key ELSE Before(key, indexOf(key, "(")),
         "/" \notin Items(After(bare, lastIndexOf(bare, "@")))
  PROVE  parseKey(rawKey) = parseDescriptor(bare)
<1>1. parseKey(rawKey) =
        IF "/" \in Items(After(bare, lastIndexOf(bare, "@"))) THEN {} ELSE parseDescriptor(bare)
  BY Zenon DEF parseKey
<1>2. QED
  BY <1>1, Zenon

(* With or without a slash or peers, it is read (parseKey).                *)
LEMMA KeyRead ==
  ASSUME NEW n \in Text, n # <<>>, n[1] # "/", \A i \in 1..Len(n) : n[i] # "(",
         NEW v \in Token, v # "@", v # "(", v # "/"
  PROVE  /\ parseKey(Descriptor(n, v)) = {[name |-> n, version |-> v]}
         /\ parseKey(<<"/">> \o Descriptor(n, v)) = {[name |-> n, version |-> v]}
         /\ \A b \in Text :
              /\ parseKey(Around(Descriptor(n, v), "(", b)) = {[name |-> n, version |-> v]}
              /\ parseKey(<<"/">> \o Around(Descriptor(n, v), "(", b)) = {[name |-> n, version |-> v]}
<1> DEFINE s == Descriptor(n, v)
           r == {[name |-> n, version |-> v]}
<1>1. s \in Text /\ lastIndexOf(s, "@") = Len(n) + 1 /\ After(s, Len(n) + 1) = <<v>> /\ parseDescriptor(s) = r
  BY DescriptorIs, DescriptorRead, Zenon
<1>2. s # <<>> /\ s[1] = n[1]
  <2>1. <<"@", v>> \in Text
    <3>1. "@" \in Token
      BY WordsAre, Zenon
    <3>2. QED
      BY <3>1 DEF Text
  <2>2. QED
    BY <2>1, BeginIs, Zenon DEF Descriptor
<1>3. \A i \in 1..Len(s) : s[i] # "("
  <2>1. "(" # "@"
    OBVIOUS
  <2>2. QED
    BY <2>1, DescriptorLacks, Zenon
<1>4. "/" \notin Items(After(s, lastIndexOf(s, "@")))
  <2>1. Items(<<v>>) = {v}
    BY DEF Items
  <2>2. QED
    BY <1>1, <2>1, Zenon
<1> HIDE DEF s, r
<1>5. indexOf(s, "(") = Nowhere
  BY <1>1, <1>3, NoneIs, Zenon DEF Text
<1>6. s = IF indexOf(s, "(") = Nowhere THEN s ELSE Before(s, indexOf(s, "("))
  BY <1>5, Zenon
<1>7. parseKey(s) = r
  <2>1. s = IF s # <<>> /\ s[1] = "/" THEN After(s, 1) ELSE s
    BY <1>2, Zenon
  <2>2. parseKey(s) = parseDescriptor(s)
    BY <1>4, <1>6, <2>1, KeyParts, Zenon
  <2>3. QED
    BY <1>1, <2>2, Zenon
<1>8. parseKey(<<"/">> \o s) = r
  <2> DEFINE raw == <<"/">> \o s
  <2>1. "/" \in Token
    BY WordsAre, Zenon
  <2>2. raw # <<>> /\ raw[1] = "/" /\ After(raw, 1) = s
    BY <1>1, <2>1, LeadIs, Zenon
  <2> HIDE DEF raw
  <2>3. s = IF raw # <<>> /\ raw[1] = "/" THEN After(raw, 1) ELSE raw
    BY <2>2, Zenon
  <2>4. parseKey(raw) = parseDescriptor(s)
    BY <1>4, <1>6, <2>3, KeyParts, Zenon
  <2>5. QED
    BY <1>1, <2>4, Zenon DEF raw
<1>9. ASSUME NEW b \in Text PROVE parseKey(Around(s, "(", b)) = r
  <2> DEFINE raw == Around(s, "(", b)
  <2>1. "(" \in Token
    BY WordsAre, Zenon
  <2>2. raw # <<>> /\ raw[1] = s[1]
    <3>1. <<"(">> \o b \in Text
      BY <2>1 DEF Text
    <3>2. QED
      BY <1>1, <1>2, <3>1, BeginIs, Zenon DEF Around
  <2>3. indexOf(raw, "(") = Len(s) + 1 /\ Before(raw, Len(s) + 1) = s
    BY <1>1, <1>3, <2>1, AroundIs, Zenon
  <2>4. Len(s) + 1 # Nowhere
    BY <1>1, BehindIs, Zenon
  <2> HIDE DEF raw
  <2>5. raw = IF raw # <<>> /\ raw[1] = "/" THEN After(raw, 1) ELSE raw
    BY <1>2, <2>2, Zenon
  <2>6. s = IF indexOf(raw, "(") = Nowhere THEN raw ELSE Before(raw, indexOf(raw, "("))
    BY <2>3, <2>4, Zenon
  <2>7. parseKey(raw) = parseDescriptor(s)
    BY <1>4, <2>5, <2>6, KeyParts, Zenon
  <2>8. QED
    BY <1>1, <2>7, Zenon DEF raw
<1>10. ASSUME NEW b \in Text PROVE parseKey(<<"/">> \o Around(s, "(", b)) = r
  <2> DEFINE key == Around(s, "(", b)
             raw == <<"/">> \o key
  <2>1. "(" \in Token /\ "/" \in Token
    BY WordsAre, Zenon
  <2>2. key \in Text /\ indexOf(key, "(") = Len(s) + 1 /\ Before(key, Len(s) + 1) = s
    BY <1>1, <1>3, <2>1, AroundIs, Zenon
  <2>3. Len(s) + 1 # Nowhere
    BY <1>1, BehindIs, Zenon
  <2> HIDE DEF key
  <2>4. raw # <<>> /\ raw[1] = "/" /\ After(raw, 1) = key
    BY <2>1, <2>2, LeadIs, Zenon
  <2> HIDE DEF raw
  <2>5. key = IF raw # <<>> /\ raw[1] = "/" THEN After(raw, 1) ELSE raw
    BY <2>4, Zenon
  <2>6. s = IF indexOf(key, "(") = Nowhere THEN key ELSE Before(key, indexOf(key, "("))
    BY <2>2, <2>3, Zenon
  <2>7. parseKey(raw) = parseDescriptor(s)
    BY <1>4, <2>5, <2>6, KeyParts, Zenon
  <2>8. QED
    BY <1>1, <2>7, Zenon DEF raw, key
<1>11. QED
  BY <1>7, <1>8, <1>9, <1>10, Zenon DEF s, r

\* No item twice.
Distinct(s) == \A i, j \in 1..Len(s) : s[i] = s[j] => i = j

(* So many items as places.                                                *)
LEMMA CountItems ==
  ASSUME NEW D, NEW s \in Seq(D), Distinct(s)
  PROVE  Cardinality(Items(s)) = Len(s)
<1>1. Len(s) \in Nat /\ DOMAIN s = 1..Len(s) /\ Items(s) = {s[i] : i \in 1..Len(s)}
  BY DEF Items
<1>2. s \in [1..Len(s) -> Items(s)]
  BY <1>1
<1>3. s \in Injection(1..Len(s), Items(s))
  BY <1>1, <1>2 DEF Distinct, Injection, IsInjective
<1>4. s \in Surjection(1..Len(s), Items(s))
  BY <1>1, <1>2 DEF Surjection
<1>5. ExistsBijection(1..Len(s), Items(s))
  BY <1>3, <1>4 DEF ExistsBijection, Bijection
<1>6. QED
  BY <1>1, <1>5, FS_CountingElements

(* One item more.                                                          *)
LEMMA ItemMore ==
  ASSUME NEW D, NEW s \in Seq(D), Distinct(s), NEW d \in D, d \notin Items(s)
  PROVE  Append(s, d) \in Seq(D) /\ Distinct(Append(s, d)) /\ Items(Append(s, d)) = Items(s) \cup {d}
<1> DEFINE t == Append(s, d)
<1>1. PICK n \in Nat : n = Len(s)
  OBVIOUS
<1>2. /\ t \in Seq(D) /\ Len(t) = n + 1 /\ t[n + 1] = d /\ DOMAIN t = 1..(n + 1)
      /\ \A i \in 1..n : t[i] = s[i]
  BY <1>1
<1>3. DOMAIN s = 1..n /\ \A i \in 1..n : s[i] \in Items(s)
  BY <1>1 DEF Items
<1> HIDE DEF t
<1>4. \A i \in 1..(n + 1) : i \in 1..n \/ i = n + 1
  OBVIOUS
<1>5. ASSUME NEW i \in 1..(n + 1), NEW j \in 1..(n + 1), t[i] = t[j] PROVE i = j
  <2>1. CASE i \in 1..n /\ j \in 1..n
    BY <1>1, <1>2, <1>5, <2>1 DEF Distinct
  <2>2. CASE i \in 1..n /\ j = n + 1
    BY <1>2, <1>3, <1>5, <2>2
  <2>3. CASE i = n + 1 /\ j \in 1..n
    BY <1>2, <1>3, <1>5, <2>3
  <2>4. QED
    BY <1>4, <2>1, <2>2, <2>3
<1>6. Distinct(t)
  BY <1>2, <1>5 DEF Distinct
<1>7. Items(t) = Items(s) \cup {d}
  <2>1. ASSUME NEW x \in Items(t) PROVE x \in Items(s) \cup {d}
    <3>1. PICK i \in 1..(n + 1) : x = t[i]
      BY <1>2 DEF Items
    <3>2. QED
      BY <1>2, <1>3, <1>4, <3>1
  <2>2. d \in Items(t)
    <3>1. n + 1 \in DOMAIN t
      BY <1>2
    <3>2. QED
      BY <1>2, <3>1 DEF Items
  <2>3. ASSUME NEW x \in Items(s) PROVE x \in Items(t)
    <3>1. PICK i \in 1..n : x = s[i]
      BY <1>3 DEF Items
    <3>2. i \in DOMAIN t /\ x = t[i]
      BY <1>2, <3>1
    <3>3. QED
      BY <3>2 DEF Items
  <2>4. QED
    BY <2>1, <2>2, <2>3
<1>8. QED
  BY <1>2, <1>6, <1>7 DEF t

\* The states of dedupe's loop over p.
Deduped(p, n, f) ==
  /\ f[0] = <<>>
  /\ \A i \in 1..n : f[i] = IF p[i] \subseteq Items(f[i - 1]) THEN f[i - 1]
                            ELSE Append(f[i - 1], CHOOSE d \in p[i] : TRUE)

(* dedupe is such a loop.                                                  *)
LEMMA DedupeIsLoop ==
  ASSUME NEW D, NEW p \in Seq(SUBSET D)
  PROVE  \E f : f \in [0..Len(p) -> Seq(D)] /\ Deduped(p, Len(p), f) /\ dedupe(p) = f[Len(p)]
<1>1. PICK n \in Nat : n = Len(p)
  OBVIOUS
<1> DEFINE S == Seq(D)
           Keep(i, x) == IF p[i] \subseteq Items(x) THEN x ELSE Append(x, CHOOSE d \in p[i] : TRUE)
           step == [x \in (1..n) \X S |-> Keep(x[1], x[2])]
           Loop(g) == [i \in 0..Len(p) |->
                         IF i = 0 THEN <<>>
                         ELSE IF p[i] \subseteq Items(g[i - 1]) THEN g[i - 1]
                         ELSE Append(g[i - 1], CHOOSE d \in p[i] : TRUE)]
<1>2. step \in [(1..n) \X S -> S]
  <2>1. ASSUME NEW i \in 1..n, NEW x \in S PROVE Keep(i, x) \in S
    <3>1. CASE p[i] \subseteq Items(x)
      BY <3>1
    <3>2. CASE ~ (p[i] \subseteq Items(x))
      <4>1. p[i] \in SUBSET D /\ \E d \in p[i] : TRUE
        BY <1>1, <3>2
      <4> DEFINE d == CHOOSE d \in p[i] : TRUE
      <4>2. d \in D
        BY <4>1
      <4> HIDE DEF d
      <4>3. Append(x, d) \in Seq(D)
        BY <4>2
      <4>4. QED
        BY <3>2, <4>3 DEF d
    <3>3. QED
      BY <3>1, <3>2
  <2>2. QED
    BY <2>1
<1>3. PICK f : IsLoop(f, n, S, <<>>, step)
  <2>1. <<>> \in S
    OBVIOUS
  <2> HIDE DEF step, S
  <2>2. QED
    BY <1>2, <2>1, LoopExists
<1>4. f \in [0..n -> S] /\ f[0] = <<>>
  BY <1>3 DEF IsLoop
<1>5. ASSUME NEW i \in 1..n PROVE f[i] = Keep(i, f[i - 1])
  <2>1. f[i] = step[<<i, f[i - 1]>>] /\ i - 1 \in 0..n
    <3> HIDE DEF S, step
    <3>1. QED
      BY <1>3 DEF IsLoop
  <2>2. f[i - 1] \in S
    BY <1>4, <2>1
  <2>3. <<i, f[i - 1]>> \in (1..n) \X S
    BY <2>2
  <2>4. QED
    BY <2>1, <2>3
<1> HIDE DEF step
<1>6. Deduped(p, n, f)
  BY <1>4, <1>5 DEF Deduped
<1>7. f = Loop(f)
  <2>1. \A i \in 0..n : f[i] = Loop(f)[i]
    <3> TAKE i \in 0..n
    <3>1. CASE i = 0
      BY <1>1, <1>4, <3>1
    <3>2. CASE i # 0
      <4>1. i \in 1..n
        BY <3>2
      <4>2. QED
        BY <1>1, <1>5, <3>2, <4>1
    <3>3. QED
      BY <3>1, <3>2
  <2>2. QED
    BY <1>1, <1>4, <2>1
<1>8. ASSUME NEW g, g = Loop(g) PROVE g[n] = f[n]
  <2> DEFINE U == {i \in 0..n : g[i] = f[i]}
  <2>1. 0 \in U
    BY <1>1, <1>4, <1>8
  <2>2. ASSUME NEW i \in 0..n, i \in U, i < n PROVE i + 1 \in U
    <3> DEFINE k == i + 1
    <3>1. k \in 1..n /\ k # 0 /\ k - 1 = i /\ k \in 0..n
      BY <2>2
    <3> HIDE DEF k
    <3>2. g[k] = Keep(k, g[k - 1])
      BY <1>1, <1>8, <3>1
    <3>3. g[k - 1] = f[k - 1]
      BY <2>2, <3>1
    <3>4. f[k] = Keep(k, f[k - 1])
      BY <1>5, <3>1
    <3> HIDE DEF Keep
    <3>5. k \in U
      BY <3>1, <3>2, <3>3, <3>4
    <3>6. QED
      BY <3>5 DEF k
  <2>3. 0..n \subseteq U
    <3> HIDE DEF U
    <3>1. QED
      BY <2>1, <2>2, UpTo
  <2>4. QED
    BY <2>3
<1>9. dedupe(p) = (CHOOSE g : g = Loop(g))[n]
  BY <1>1 DEF dedupe
<1> HIDE DEF Loop
<1>10. dedupe(p) = f[n]
  BY <1>7, <1>8, <1>9
<1>11. QED
  BY <1>1, <1>4, <1>6, <1>10

(* Of entries that hold a dependency or nothing, dedupe keeps each one     *)
(* once.                                                                   *)
LEMMA DedupeKeepsOnce ==
  ASSUME NEW D, NEW p \in Seq(SUBSET D), \A i \in 1..Len(p) : p[i] = {} \/ \E d \in D : p[i] = {d}
  PROVE  /\ Items(dedupe(p)) = UNION {p[i] : i \in 1..Len(p)}
         /\ Len(dedupe(p)) = Cardinality(Items(dedupe(p)))
<1>1. PICK n \in Nat : n = Len(p)
  OBVIOUS
<1>2. PICK f : f \in [0..n -> Seq(D)] /\ Deduped(p, n, f) /\ dedupe(p) = f[n]
  BY <1>1, DedupeIsLoop
<1> DEFINE Found(i) == UNION {p[k] : k \in 1..i}
           Fine(i) == Distinct(f[i]) /\ Items(f[i]) = Found(i)
           U == {i \in 0..n : Fine(i)}
<1>3. 0 \in U
  <2>1. f[0] = <<>>
    BY <1>2 DEF Deduped
  <2>2. Items(<<>>) = {} /\ Distinct(<<>>)
    BY DEF Items, Distinct
  <2>3. Found(0) = {}
    OBVIOUS
  <2>4. QED
    BY <2>1, <2>2, <2>3
<1>4. ASSUME NEW i \in 0..n, i \in U, i < n PROVE i + 1 \in U
  <2> DEFINE k == i + 1
  <2>1. k \in 1..n /\ k - 1 = i /\ k \in 0..n
    BY <1>4
  <2>2. Found(k) = Found(i) \cup p[k]
    <3>1. \A j \in 1..k : j \in 1..i \/ j = k
      BY <1>4
    <3>2. \A j \in 1..i : j \in 1..k
      BY <1>4
    <3>3. k \in 1..k
      BY <2>1
    <3> HIDE DEF k
    <3>4. QED
      BY <3>1, <3>2, <3>3
  <2> HIDE DEF Found, k
  <2>3. Distinct(f[i]) /\ Items(f[i]) = Found(i) /\ f[i] \in Seq(D)
    BY <1>2, <1>4
  <2>4. f[k] = IF p[k] \subseteq Items(f[i]) THEN f[i] ELSE Append(f[i], CHOOSE d \in p[k] : TRUE)
    BY <1>2, <2>1 DEF Deduped
  <2>5. CASE p[k] \subseteq Items(f[i])
    <3>1. f[k] = f[i] /\ Found(k) = Found(i)
      BY <2>2, <2>3, <2>4, <2>5
    <3>2. QED
      BY <2>1, <2>3, <3>1 DEF k
  <2>6. CASE ~ (p[k] \subseteq Items(f[i]))
    <3>1. PICK d \in D : p[k] = {d}
      BY <1>1, <2>1, <2>6
    <3>2. (CHOOSE e \in p[k] : TRUE) = d /\ d \notin Items(f[i])
      BY <2>6, <3>1
    <3>3. f[k] = Append(f[i], d)
      BY <2>4, <2>6, <3>2
    <3>4. Distinct(f[k]) /\ Items(f[k]) = Items(f[i]) \cup {d}
      BY <2>3, <3>2, <3>3, ItemMore
    <3>5. Fine(k)
      BY <2>2, <2>3, <3>1, <3>4
    <3>6. QED
      BY <2>1, <3>5 DEF k
  <2>7. QED
    BY <2>5, <2>6
<1>5. n \in U
  <2>1. 0..n \subseteq U
    <3> HIDE DEF U
    <3>1. QED
      BY <1>3, <1>4, UpTo
  <2>2. QED
    BY <2>1
<1>6. Distinct(f[n]) /\ Items(f[n]) = Found(n) /\ f[n] \in Seq(D)
  BY <1>2, <1>5
<1>7. Cardinality(Items(f[n])) = Len(f[n])
  <2> HIDE DEF Found
  <2>1. QED
    BY <1>6, CountItems
<1>8. QED
  BY <1>1, <1>2, <1>6, <1>7

-----------------------------------------------------------------------------
(* A token before other tokens.                                            *)
LEMMA LeadOf ==
  ASSUME NEW a, NEW b, NEW c, NEW d
  PROVE  <<a, b, c, d>> = <<a>> \o <<b, c, d>>
OBVIOUS

(* The texts around what is written.                                       *)
LEMMA TextsAre ==
  /\ Modules \o <<"w">> \in Text /\ <<"@", "w", "/", "w">> \in Text /\ <<"/">> \in Text
  /\ \A v \in Token : <<"@", v>> \in Text
  /\ \E b \in Text : <<",", "w", "@", "v">> = <<",">> \o b
  /\ \E b \in Text : <<"(", "w", "@", "v", ")">> = <<"(">> \o b
<1>1. PICK w \in Token : w = "w"
  BY WordsAre, Zenon
<1>2. PICK v \in Token : v = "v"
  BY WordsAre, Zenon
<1>3. PICK at \in Token : at = "@"
  BY WordsAre, Zenon
<1>4. PICK slash \in Token : slash = "/"
  BY WordsAre, Zenon
<1>5. PICK close \in Token : close = ")"
  BY WordsAre, Zenon
<1>6. PICK mod \in Token : mod = "node_modules/"
  BY WordsAre, Zenon
<1>7. Modules \o <<"w">> \in Text
  <2>1. <<mod>> \o <<w>> \in Text
    BY DEF Text
  <2>2. QED
    BY <1>1, <1>6, <2>1, Zenon DEF Modules
<1>8. <<"@", "w", "/", "w">> \in Text
  <2>1. <<at, w, slash, w>> \in Text
    BY DEF Text
  <2>2. QED
    BY <1>1, <1>3, <1>4, <2>1, Zenon
<1>9. <<"/">> \in Text
  <2>1. <<slash>> \in Text
    BY DEF Text
  <2>2. QED
    BY <1>4, <2>1, Zenon
<1>10. \A u \in Token : <<"@", u>> \in Text
  <2>1. \A u \in Token : <<at, u>> \in Text
    BY DEF Text
  <2>2. QED
    BY <1>3, <2>1, Zenon
<1>11. \E b \in Text : <<",", "w", "@", "v">> = <<",">> \o b
  <2>1. <<w, at, v>> \in Text
    BY DEF Text
  <2>2. <<",", "w", "@", "v">> = <<",">> \o <<"w", "@", "v">>
    BY LeadOf, Zenon
  <2>3. QED
    BY <1>1, <1>2, <1>3, <2>1, <2>2, Zenon
<1>12. \E b \in Text : <<"(", "w", "@", "v", ")">> = <<"(">> \o b
  <2>1. <<w, at, v, close>> \in Text
    BY DEF Text
  <2>2. <<"(", "w", "@", "v", ")">> = <<"(">> \o <<"w", "@", "v", ")">>
    OBVIOUS
  <2>3. QED
    BY <1>1, <1>2, <1>3, <1>5, <2>1, <2>2, Zenon
<1>13. QED
  BY <1>7, <1>8, <1>9, <1>10, <1>11, <1>12, Zenon

(* The key and the version of an entry.                                    *)
LEMMA FieldsAre ==
  ASSUME NEW e, NEW k, NEW v, e = [key |-> k, version |-> v]
  PROVE  e.key = k /\ e.version = v
OBVIOUS

(* Nothing is found under no name.                                         *)
LEMMA NamedIs ==
  ASSUME NEW n, NEW v
  PROVE  /\ Named({}, v) = {} /\ Named({n}, NoVersion) = {}
         /\ n # <<>> /\ v # NoVersion => Named({n}, v) = Stray(n, v)
<1>1. Named({}, v) = {} /\ Named({n}, NoVersion) = {}
  BY DEF Named
<1>2. ASSUME n # <<>>, v # NoVersion PROVE Named({n}, v) = Stray(n, v)
  <2>1. {m \in {n} : m # <<>> /\ v # NoVersion} = {n}
    BY <1>2, Zenon
  <2>2. Named({n}, v) = {[name |-> m, version |-> v] : m \in {n}}
    BY <2>1, Zenon DEF Named
  <2>3. QED
    BY <2>2, Zenon DEF Stray
<1>3. QED
  BY <1>1, <1>2

(* The parser of each format (parseLockfile).                              *)
LEMMA ParsersAre ==
  ASSUME NEW e
  PROVE  /\ ParseEntry("npm", e) = Named(nameFromPath(e.key), e.version)
         /\ ParseEntry("npm1", e) = Named({e.key}, e.version)
         /\ ParseEntry("pnpm", e) = parseKey(e.key)
         /\ ParseEntry("yarn", e) = Named(nameFromDescriptors(e.key), e.version)
         /\ ParseEntry("berry", e) = Named(nameFromDescriptors(e.key), e.version)
         /\ ParseEntry("bun", e) = parseDescriptor(e.key)
BY Zenon DEF ParseEntry

(* Only the key and the version of an entry are parsed.                    *)
LEMMA ParsedAlike ==
  ASSUME NEW format \in Formats, NEW e, NEW f, e.key = f.key, e.version = f.version
  PROVE  ParseEntry(format, e) = ParseEntry(format, f)
BY Zenon DEF ParseEntry

(* The entry written for a dependency, in each format.                     *)
LEMMA WrittenIs ==
  ASSUME NEW d
  PROVE  /\ Plain("npm", d) = Modules \o d.name /\ Plain("npm1", d) = d.name
         /\ Plain("pnpm", d) = Descriptor(d.name, d.version) /\ Plain("bun", d) = Descriptor(d.name, d.version)
         /\ Plain("yarn", d) = Descriptor(d.name, "range") /\ Plain("berry", d) = Descriptor(d.name, "npm:range")
BY Zenon DEF Plain, Descriptor

(* Which formats give the version apart.                                   *)
LEMMA VersionIs ==
  ASSUME NEW format, NEW d, NEW front, NEW behind
  PROVE  /\ format \in {"npm", "npm1", "yarn", "berry"} =>
              Written(format, d, front, behind) = [key |-> front \o (Plain(format, d) \o behind), version |-> d.version]
         /\ format \in {"pnpm", "bun"} =>
              Written(format, d, front, behind) = [key |-> front \o (Plain(format, d) \o behind), version |-> NoVersion]
<1>1. format \in {"npm", "npm1", "yarn", "berry"} => format \notin {"pnpm", "bun"}
  OBVIOUS
<1>2. QED
  BY <1>1, Zenon DEF Written

(* What is written for a dependency is read as that dependency and no      *)
(* other, in every format, whatever is around it (parseLockfile).          *)
LEMMA EntryRead ==
  ASSUME NEW format \in Formats, NEW d \in Deps, NEW front \in Fronts(format), NEW behind \in Behinds(format)
  PROVE  ParseEntry(format, Written(format, d, front, behind)) = {d}
<1> DEFINE n == d.name
           v == d.version
           e == Written(format, d, front, behind)
<1>0. format \in {"npm", "npm1", "pnpm", "yarn", "berry", "bun"}
  BY DepsAssumption DEF DepsAssumption
<1>1. /\ n \in Text /\ n # <<>> /\ n[1] # "/"
      /\ \A i \in 1..Len(n) : n[i] # "," /\ n[i] # "(" /\ n[i] # "node_modules/"
      /\ v \in Token /\ v # "@" /\ v # "/" /\ v # "," /\ v # "(" /\ v # NoVersion
      /\ d = [name |-> n, version |-> v]
  BY DepIs, Zenon
<1>2. Named({n}, v) = {d} /\ {d} = {[name |-> n, version |-> v]}
  BY <1>1, NamedIs, Zenon DEF Stray
<1>3. <<>> \in Text /\ \A a \in Text : <<>> \o a = a /\ a \o <<>> = a
  BY <1>1, NothingJoined, Zenon
<1>4. CASE format = "npm"
  <2>1. e = [key |-> front \o ((Modules \o n) \o behind), version |-> v]
    <3>1. Plain("npm", d) = (Modules \o n)
      BY WrittenIs, Zenon
    <3>2. e = [key |-> front \o (Plain(format, d) \o behind), version |-> v]
      BY <1>4, VersionIs
    <3>3. QED
      BY <1>4, <3>1, <3>2, Zenon
  <2>2. behind = <<>>
    BY <1>4, Zenon DEF Behinds
  <2>3. front \in Text
    <3>1. front = <<>> \/ front = Modules \o <<"w">> \/ front = <<"@", "w", "/", "w">>
      BY <1>4, Zenon DEF Fronts
    <3>2. Modules \o <<"w">> \in Text /\ <<"@", "w", "/", "w">> \in Text
      BY TextsAre, Zenon
    <3>3. QED
      BY <1>3, <3>1, <3>2, Zenon
  <2>4. nameFromPath(front \o (Modules \o n)) = {n} /\ Modules \o n \in Text
    BY <1>1, <2>3, PathRead, Zenon
  <2>5. e.key = front \o (Modules \o n) /\ e.version = v
    <3>1. e.key = front \o ((Modules \o n) \o behind) /\ e.version = v
      BY <2>1, FieldsAre, Zenon
    <3>2. (Modules \o n) \o behind = Modules \o n
      BY <1>3, <2>2, <2>4, Zenon
    <3>3. QED
      BY <3>1, <3>2, Zenon
  <2>6. ParseEntry(format, e) = Named(nameFromPath(e.key), e.version)
    BY <1>4, ParsersAre, Zenon
  <2>7. QED
    BY <1>2, <2>4, <2>5, <2>6, Zenon
<1>5. CASE format = "npm1"
  <2>1. e = [key |-> front \o (n \o behind), version |-> v]
    <3>1. Plain("npm1", d) = n
      BY WrittenIs, Zenon
    <3>2. e = [key |-> front \o (Plain(format, d) \o behind), version |-> v]
      BY <1>5, VersionIs
    <3>3. QED
      BY <1>5, <3>1, <3>2, Zenon
  <2>2. front = <<>> /\ behind = <<>>
    BY <1>5, Zenon DEF Fronts, Behinds
  <2>3. e.key = n /\ e.version = v
    <3>1. e.key = front \o (n \o behind) /\ e.version = v
      BY <2>1, FieldsAre, Zenon
    <3>2. front \o (n \o behind) = n
      BY <1>1, <1>3, <2>2, Zenon
    <3>3. QED
      BY <3>1, <3>2, Zenon
  <2>4. ParseEntry(format, e) = Named({e.key}, e.version)
    BY <1>5, ParsersAre, Zenon
  <2>5. QED
    BY <1>2, <2>3, <2>4, Zenon
<1>6. CASE format = "bun"
  <2>1. e = [key |-> front \o (Descriptor(n, v) \o behind), version |-> NoVersion]
    <3>1. Plain("bun", d) = Descriptor(n, v)
      BY WrittenIs, Zenon
    <3>2. e = [key |-> front \o (Plain(format, d) \o behind), version |-> NoVersion]
      BY <1>6, VersionIs
    <3>3. QED
      BY <1>6, <3>1, <3>2, Zenon
  <2>2. front = <<>> /\ behind = <<>>
    BY <1>6, Zenon DEF Fronts, Behinds
  <2>3. Descriptor(n, v) \in Text /\ parseDescriptor(Descriptor(n, v)) = {[name |-> n, version |-> v]}
    BY <1>1, DescriptorIs, DescriptorRead, Zenon
  <2>4. e.key = Descriptor(n, v)
    <3>1. e.key = front \o (Descriptor(n, v) \o behind)
      BY <2>1, FieldsAre, Zenon
    <3>2. front \o (Descriptor(n, v) \o behind) = Descriptor(n, v)
      BY <1>3, <2>2, <2>3, Zenon
    <3>3. QED
      BY <3>1, <3>2, Zenon
  <2>5. ParseEntry(format, e) = parseDescriptor(e.key)
    BY <1>6, ParsersAre, Zenon
  <2>6. QED
    BY <1>2, <2>3, <2>4, <2>5, Zenon
<1>7. CASE format \in {"yarn", "berry"}
  <2>1. PICK g \in {"range", "npm:range"} :
          e = [key |-> front \o (Descriptor(n, g) \o behind), version |-> v]
    <3>1. Plain("yarn", d) = Descriptor(n, "range") /\ Plain("berry", d) = Descriptor(n, "npm:range")
      BY WrittenIs, Zenon
    <3>2. e = [key |-> front \o (Plain(format, d) \o behind), version |-> v]
      BY <1>7, VersionIs
    <3>3. CASE format = "yarn"
      BY <3>1, <3>2, <3>3, Zenon
    <3>4. CASE format = "berry"
      BY <3>1, <3>2, <3>4, Zenon
    <3>5. QED
      BY <1>7, <3>3, <3>4, Zenon
  <2>2. g \in Token /\ g # "@" /\ g # ","
    <3>1. \A w \in {"range", "npm:range"} : w \in Token /\ w # "@" /\ w # ","
      BY WordsAre, Zenon
    <3>2. QED
      BY <3>1, Zenon
  <2>3. /\ nameFromDescriptors(Descriptor(n, g)) = {n} /\ Descriptor(n, g) \in Text
        /\ \A b \in Text : nameFromDescriptors(Around(Descriptor(n, g), ",", b)) = {n}
    BY <1>1, <2>2, HeaderRead, DescriptorIs, Zenon
  <2>4. front = <<>> /\ (behind = <<>> \/ behind = <<",", "w", "@", "v">>)
    <3>1. CASE format = "yarn"
      BY <3>1, Zenon DEF Fronts, Behinds
    <3>2. CASE format = "berry"
      BY <3>2, Zenon DEF Fronts, Behinds
    <3>3. QED
      BY <1>7, <3>1, <3>2, Zenon
  <2>5. nameFromDescriptors(front \o (Descriptor(n, g) \o behind)) = {n}
    <3>1. CASE behind = <<>>
      BY <1>3, <2>3, <2>4, <3>1, Zenon
    <3>2. CASE behind = <<",", "w", "@", "v">>
      <4>1. PICK b \in Text : <<",", "w", "@", "v">> = <<",">> \o b
        BY TextsAre, Zenon
      <4>2. Descriptor(n, g) \o behind = Around(Descriptor(n, g), ",", b)
        BY <3>2, <4>1, Zenon DEF Around
      <4>3. "," \in Token
        BY WordsAre, Zenon
      <4>4. Around(Descriptor(n, g), ",", b) \in Text
        BY <2>3, <4>3, AroundIs, Zenon
      <4>5. QED
        BY <1>3, <2>3, <2>4, <4>2, <4>4, Zenon
    <3>3. QED
      BY <2>4, <3>1, <3>2, Zenon
  <2>6. e.key = front \o (Descriptor(n, g) \o behind) /\ e.version = v
    BY <2>1, FieldsAre, Zenon
  <2>7. ParseEntry(format, e) = Named(nameFromDescriptors(e.key), e.version)
    <3>1. CASE format = "yarn"
      BY <3>1, ParsersAre, Zenon
    <3>2. CASE format = "berry"
      BY <3>2, ParsersAre, Zenon
    <3>3. QED
      BY <1>7, <3>1, <3>2, Zenon
  <2>8. QED
    BY <1>2, <2>5, <2>6, <2>7, Zenon
<1>8. CASE format = "pnpm"
  <2> DEFINE s == Descriptor(n, v)
  <2>1. e = [key |-> front \o (s \o behind), version |-> NoVersion]
    <3>1. Plain("pnpm", d) = Descriptor(n, v)
      BY WrittenIs, Zenon
    <3>2. e = [key |-> front \o (Plain(format, d) \o behind), version |-> NoVersion]
      BY <1>8, VersionIs
    <3>3. QED
      BY <1>8, <3>1, <3>2, Zenon
  <2>2. ParseEntry(format, e) = parseKey(front \o (s \o behind))
    <3>1. ParseEntry(format, e) = parseKey(e.key)
      BY <1>8, ParsersAre, Zenon
    <3> HIDE DEF e, s
    <3>2. e.key = front \o (s \o behind)
      BY <2>1, FieldsAre, Zenon
    <3>3. QED
      BY <3>1, <3>2, Zenon
  <2>3. /\ s \in Text /\ "(" \in Token
        /\ \A b \in Text : Around(s, "(", b) \in Text
    <3>1. s \in Text /\ "(" \in Token
      BY <1>1, DescriptorIs, WordsAre, Zenon
    <3> HIDE DEF s
    <3>2. QED
      BY <3>1, AroundIs, Zenon
  <2>4. /\ parseKey(s) = {d} /\ parseKey(<<"/">> \o s) = {d}
        /\ \A b \in Text : parseKey(Around(s, "(", b)) = {d} /\ parseKey(<<"/">> \o Around(s, "(", b)) = {d}
    BY <1>1, <1>2, KeyRead, Zenon
  <2>5. front = <<>> \/ front = <<"/">>
    BY <1>8, Zenon DEF Fronts
  <2>6. behind = <<>> \/ behind = <<"(", "w", "@", "v", ")">>
    BY <1>8, Zenon DEF Behinds
  <2> HIDE DEF s
  <2>7. CASE behind = <<>>
    <3>1. s \o behind = s /\ <<>> \o s = s
      BY <1>3, <2>3, <2>7, Zenon
    <3>2. QED
      BY <2>2, <2>4, <2>5, <3>1, Zenon
  <2>8. CASE behind = <<"(", "w", "@", "v", ")">>
    <3>1. PICK b \in Text : behind = <<"(">> \o b
      BY <2>8, TextsAre, Zenon
    <3>2. s \o behind = Around(s, "(", b) /\ <<>> \o Around(s, "(", b) = Around(s, "(", b)
      BY <1>3, <2>3, <3>1, Zenon DEF Around
    <3>3. QED
      BY <2>2, <2>4, <2>5, <3>2, Zenon
  <2>9. QED
    BY <2>6, <2>7, <2>8, Zenon
<1>9. QED
  BY <1>0, <1>4, <1>5, <1>6, <1>7, <1>8, Zenon

(* No character of a joined text is one that neither part holds.           *)
LEMMA JoinedLacks ==
  ASSUME NEW a \in Text, NEW b \in Text, NEW c, \A i \in 1..Len(a) : a[i] # c, \A i \in 1..Len(b) : b[i] # c
  PROVE  a \o b \in Text /\ \A i \in 1..Len(a \o b) : (a \o b)[i] # c
<1> DEFINE n == a \o b
<1>1. PICK l \in Nat, m \in Nat : l = Len(a) /\ m = Len(b)
  BY DEF Text
<1>2. /\ n \in Text /\ Len(n) = l + m
      /\ \A i \in 1..l : n[i] = a[i]
      /\ \A i \in 1..m : n[l + i] = b[i]
  BY <1>1, JoinIs DEF Text
<1> HIDE DEF n
<1>3. ASSUME NEW i \in 1..Len(n) PROVE n[i] # c
  <2>1. i \in 1..l \/ (i - l \in 1..m /\ i = l + (i - l))
    BY <1>1, <1>2
  <2>2. QED
    BY <1>1, <1>2, <2>1
<1>4. QED
  BY <1>2, <1>3 DEF n

(* A descriptor that holds a second one is read under the whole of what    *)
(* stands before the last @ (nameFromDescriptors).                         *)
LEMMA JoinedRead ==
  ASSUME NEW a \in Text, a # <<>>, NEW b \in Text,
         \A i \in 1..Len(a) : a[i] # ",", \A i \in 1..Len(b) : b[i] # ","
  PROVE  a \o b # <<>> /\ nameFromDescriptors((a \o b) \o <<"@", "range">>) = {a \o b}
<1>1. a \o b \in Text /\ \A i \in 1..Len(a \o b) : (a \o b)[i] # ","
  BY JoinedLacks
<1>2. a \o b # <<>>
  BY BeginIs
<1>3. "range" \in Token /\ "range" # "@" /\ "range" # ","
  <2>1. \A w \in {"range"} : w \in Token /\ w # "@" /\ w # ","
    BY WordsAre, Zenon
  <2>2. QED
    BY <2>1, Zenon
<1>4. nameFromDescriptors(Descriptor(a \o b, "range")) = {a \o b}
  BY <1>1, <1>2, <1>3, HeaderRead, Zenon
<1>5. QED
  BY <1>2, <1>4, Zenon DEF Descriptor

\* What is read in an entry: nothing, or one name and version.
OneAtMost(S) == S = {} \/ \E d : S = {d}

(* The short texts other entries are made of.                              *)
LEMMA ShortTexts ==
  /\ <<"w">> \in Text /\ <<"w">> # <<>> /\ <<"w", "@", "npm:">> \in Text /\ <<"w", "@", "npm:">> # <<>>
  /\ <<"@", "patch:">> \in Text
  /\ \A i \in 1..Len(<<"w", "@", "npm:">>) : <<"w", "@", "npm:">>[i] # ","
  /\ \A i \in 1..Len(<<"@", "patch:">>) : <<"@", "patch:">>[i] # ","
  /\ \A i \in 1..Len(<<"w">>) : <<"w">>[i] \notin {",", "node_modules/"}
  /\ <<"w", "@", "workspace:">> = Descriptor(<<"w">>, "workspace:")
<1>1. PICK w \in Token : w = "w"
  BY WordsAre, Zenon
<1>2. PICK at \in Token : at = "@"
  BY WordsAre, Zenon
<1>3. PICK npm \in Token : npm = "npm:"
  BY WordsAre, Zenon
<1>4. PICK patch \in Token : patch = "patch:"
  BY WordsAre, Zenon
<1>5. /\ <<w>> \in Text /\ <<w, at, npm>> \in Text /\ <<at, patch>> \in Text
      /\ <<w>> # <<>> /\ <<w, at, npm>> # <<>>
  BY DEF Text
<1>6. /\ \A i \in 1..Len(<<w, at, npm>>) : <<w, at, npm>>[i] # ","
      /\ \A i \in 1..Len(<<at, patch>>) : <<at, patch>>[i] # ","
      /\ \A i \in 1..Len(<<w>>) : <<w>>[i] \notin {",", "node_modules/"}
  <2>1. PICK comma, mod : comma = "," /\ mod = "node_modules/"
    OBVIOUS
  <2>2. w # comma /\ at # comma /\ npm # comma /\ patch # comma /\ w # mod
    BY <1>1, <1>2, <1>3, <1>4, <2>1
  <2>3. /\ \A i \in 1..1 : i = 1
        /\ \A i \in 1..2 : i = 1 \/ i = 2
        /\ \A i \in 1..3 : i = 1 \/ i = 2 \/ i = 3
        /\ Len(<<w>>) = 1 /\ Len(<<at, patch>>) = 2 /\ Len(<<w, at, npm>>) = 3
    OBVIOUS
  <2>4. \A i \in 1..Len(<<w, at, npm>>) : <<w, at, npm>>[i] # comma
    BY <2>2, <2>3
  <2>5. \A i \in 1..Len(<<at, patch>>) : <<at, patch>>[i] # comma
    BY <2>2, <2>3
  <2>6. \A i \in 1..Len(<<w>>) : <<w>>[i] \notin {comma, mod}
    BY <2>2, <2>3
  <2>7. QED
    BY <2>1, <2>4, <2>5, <2>6, Zenon
<1>7. <<"w", "@", "workspace:">> = Descriptor(<<"w">>, "workspace:")
  BY DEF Descriptor
<1>8. QED
  BY <1>1, <1>2, <1>3, <1>4, <1>5, <1>6, <1>7, Zenon

(* The project's own packages are read as said (parseLockfile).            *)
LEMMA OwnRead ==
  ASSUME NEW format \in Formats, NEW o \in Own(format)
  PROVE  ParseEntry(format, o) = o.read /\ OneAtMost(o.read)
<1>0. format \in {"npm", "npm1", "pnpm", "yarn", "berry", "bun"}
  BY DepsAssumption DEF DepsAssumption
<1>1. /\ "workspace:" \in Token /\ "workspace:" # "@" /\ "workspace:" # "," /\ "v" # NoVersion
  <2>1. \A w \in {"workspace:", "v"} : w \in Token /\ w # "@" /\ w # "," /\ w # NoVersion
    BY WordsAre, Zenon
  <2>2. QED
    BY <2>1, Zenon
<1>2. CASE format = "npm"
  <2>1. PICK key, version :
          /\ o = Other(key, version, {})
          /\ key \in {<<>>, <<"packages/", "w">>} \/ (key = Modules \o <<"w">> /\ version = NoVersion)
    BY <1>2, Zenon DEF Own
  <2>2. o.key = key /\ o.version = version /\ o.read = {}
    BY <2>1 DEF Other
  <2>3. CASE key \in {<<>>, <<"packages/", "w">>}
    <3>1. ParseEntry(format, o) = Named(nameFromPath(o.key), o.version)
      BY <1>2, ParsersAre, Zenon
    <3>2. nameFromPath(o.key) = {}
      BY <2>2, <2>3, OwnNotRead, Zenon
    <3>3. QED
      BY <2>2, <3>1, <3>2, NamedIs, Zenon DEF OneAtMost
  <2>4. CASE key = Modules \o <<"w">> /\ version = NoVersion
    <3>1. nameFromPath(<<>> \o (Modules \o <<"w">>)) = {<<"w">>} /\ Modules \o <<"w">> \in Text
      <4>1. \A i \in 1..Len(<<"w">>) : <<"w">>[i] # "node_modules/"
        BY ShortTexts, Zenon
      <4>2. <<>> \in Text /\ <<"w">> \in Text
        BY ShortTexts, NothingJoined, Zenon
      <4>3. QED
        BY <4>1, <4>2, PathRead, Zenon
    <3>2. nameFromPath(Modules \o <<"w">>) = {<<"w">>}
      BY <3>1, NothingJoined, Zenon
    <3>3. ParseEntry(format, o) = Named(nameFromPath(o.key), o.version)
      BY <1>2, ParsersAre, Zenon
    <3>4. Named({<<"w">>}, NoVersion) = {}
      BY NamedIs, Zenon
    <3>5. QED
      BY <2>2, <2>4, <3>2, <3>3, <3>4, Zenon DEF OneAtMost
  <2>5. QED
    BY <2>1, <2>3, <2>4, Zenon
<1>3. CASE format = "berry"
  <2>1. o = Other(<<"w", "@", "workspace:">>, "v", Stray(<<"w">>, "v"))
    BY <1>3, Zenon DEF Own
  <2>2. o.key = Descriptor(<<"w">>, "workspace:") /\ o.version = "v" /\ o.read = Stray(<<"w">>, "v")
    BY <2>1, ShortTexts DEF Other
  <2>3. nameFromDescriptors(Descriptor(<<"w">>, "workspace:")) = {<<"w">>}
    <3>1. \A i \in 1..Len(<<"w">>) : <<"w">>[i] # ","
      BY ShortTexts, Zenon
    <3>2. QED
      BY <1>1, <3>1, ShortTexts, HeaderRead, Zenon
  <2>4. ParseEntry(format, o) = Named(nameFromDescriptors(o.key), o.version)
    BY <1>3, ParsersAre, Zenon
  <2>5. Named({<<"w">>}, "v") = Stray(<<"w">>, "v")
    BY <1>1, NamedIs, ShortTexts, Zenon
  <2>6. QED
    BY <2>2, <2>3, <2>4, <2>5, Zenon DEF OneAtMost, Stray
<1>4. CASE format = "bun"
  <2>1. o = Other(<<"w", "@", "workspace:">>, NoVersion, Stray(<<"w">>, "workspace:"))
    BY <1>4, Zenon DEF Own
  <2>2. o.key = Descriptor(<<"w">>, "workspace:") /\ o.version = NoVersion /\ o.read = Stray(<<"w">>, "workspace:")
    BY <2>1, ShortTexts DEF Other
  <2>3. parseDescriptor(Descriptor(<<"w">>, "workspace:")) = Stray(<<"w">>, "workspace:")
    BY <1>1, ShortTexts, DescriptorRead, Zenon DEF Stray
  <2>4. ParseEntry(format, o) = parseDescriptor(o.key)
    BY <1>4, ParsersAre, Zenon
  <2>5. QED
    BY <2>2, <2>3, <2>4, Zenon DEF OneAtMost, Stray
<1>5. CASE format \in {"npm1", "pnpm", "yarn"}
  BY <1>5, Zenon DEF Own
<1>6. QED
  BY <1>0, <1>2, <1>3, <1>4, <1>5, Zenon

(* A dependency by its address has no version to read (parseKey).          *)
LEMMA AddressRead ==
  ASSUME NEW n \in Text, n # <<>>, n[1] # "/", \A i \in 1..Len(n) : n[i] # "("
  PROVE  parseKey(n \o <<"@", "https:", "/", "w">>) = {}
<1> DEFINE b == <<"https:", "/", "w">>
           s == Around(n, "@", b)
<1>1. "@" \in Token /\ \A w \in {"https:", "/", "w"} : w \in Token /\ w # "@" /\ w # "("
  <2>1. \A w \in {"https:", "w"} : w \in Token /\ w # "@" /\ w # "("
    BY WordsAre, Zenon
  <2>2. "/" \in Token /\ "@" \in Token /\ "/" # "@" /\ "/" # "("
    BY WordsAre, Zenon
  <2>3. QED
    BY <2>1, <2>2
<1>2. b \in Text /\ Len(b) = 3 /\ \A i \in 1..3 : b[i] # "@" /\ b[i] # "("
  <2>1. PICK x \in Token, y \in Token, z \in Token : x = "https:" /\ y = "/" /\ z = "w"
    BY <1>1
  <2>2. <<x, y, z>> \in Text
    BY DEF Text
  <2>3. \A i \in 1..3 : i = 1 \/ i = 2 \/ i = 3
    OBVIOUS
  <2>4. QED
    BY <1>1, <2>1, <2>2, <2>3
<1>3. "/" \in Items(b)
  <2>1. 2 \in DOMAIN b /\ b[2] = "/"
    OBVIOUS
  <2>2. QED
    BY <2>1, Zenon DEF Items
<1>4. n \o <<"@", "https:", "/", "w">> = s
  BY LeadOf, Zenon DEF Around
<1> HIDE DEF b
<1>5. s \in Text /\ Len(s) = Len(n) + 1 + 3 /\ After(s, Len(n) + 1) = b /\ lastIndexOf(s, "@") = Len(n) + 1
  <2>1. PICK c \in Token : c = "@"
    BY <1>1
  <2>2. \A i \in 1..Len(b) : b[i] # c
    BY <1>2, <2>1
  <2>3. /\ Around(n, c, b) \in Text /\ Len(Around(n, c, b)) = Len(n) + 1 + Len(b)
        /\ After(Around(n, c, b), Len(n) + 1) = b /\ lastIndexOf(Around(n, c, b), c) = Len(n) + 1
    BY <1>2, <2>2, AroundIs
  <2>4. QED
    BY <1>2, <2>1, <2>3
<1>6. s # <<>> /\ s[1] = n[1]
  <2>1. <<"@">> \o b \in Text
    BY <1>1, <1>2 DEF Text
  <2>2. QED
    BY <2>1, BeginIs DEF Around
<1>7. \A i \in 1..Len(s) : s[i] # "("
  <2>1. <<"@">> \in Text /\ \A i \in 1..Len(<<"@">>) : <<"@">>[i] # "("
    BY <1>1 DEF Text
  <2>2. <<"@">> \o b \in Text /\ \A i \in 1..Len(<<"@">> \o b) : (<<"@">> \o b)[i] # "("
    BY <1>2, <2>1, JoinedLacks
  <2>3. QED
    BY <2>2, JoinedLacks DEF Around
<1> HIDE DEF s
<1>8. indexOf(s, "(") = Nowhere
  BY <1>5, <1>7, NoneIs DEF Text
<1>9. parseKey(s) =
        LET key == IF s # <<>> /\ s[1] = "/" THEN After(s, 1) ELSE s
            peer == indexOf(key, "(")
            bare == IF peer = Nowhere THEN key ELSE Before(key, peer)
        IN  IF "/" \in Items(After(bare, lastIndexOf(bare, "@"))) THEN {} ELSE parseDescriptor(bare)
  BY Zenon DEF parseKey
<1>10. parseKey(s) = IF "/" \in Items(After(s, lastIndexOf(s, "@"))) THEN {} ELSE parseDescriptor(s)
  BY <1>6, <1>8, <1>9, Zenon
<1>11. QED
  BY <1>3, <1>4, <1>5, <1>10, Zenon

(* What is fetched elsewhere or under another name is read as said         *)
(* (parseLockfile).                                                        *)
LEMMA RedirectedRead ==
  ASSUME NEW format \in Formats, NEW d \in Deps, NEW o \in Redirected(format, d)
  PROVE  ParseEntry(format, o) = o.read /\ OneAtMost(o.read)
<1> DEFINE n == d.name
           v == d.version
<1>0. format \in {"npm", "npm1", "pnpm", "yarn", "berry", "bun"}
  BY DepsAssumption DEF DepsAssumption
<1>1. /\ n \in Text /\ n # <<>> /\ n[1] # "/"
      /\ \A i \in 1..Len(n) : n[i] # "," /\ n[i] # "(" /\ n[i] # "node_modules/"
      /\ v # NoVersion
  BY DepIs, Zenon
<1>2. "npm:" # NoVersion
  <2>1. \A w \in {"npm:"} : w # NoVersion
    BY WordsAre, Zenon
  <2>2. QED
    BY <2>1, Zenon
<1>3. CASE format = "npm"
  <2>1. o = Other(Modules \o <<"w">>, v, Stray(<<"w">>, v))
    BY <1>3, Zenon DEF Redirected
  <2>2. o.key = Modules \o <<"w">> /\ o.version = v /\ o.read = Stray(<<"w">>, v)
    BY <2>1 DEF Other
  <2>3. nameFromPath(<<>> \o (Modules \o <<"w">>)) = {<<"w">>} /\ Modules \o <<"w">> \in Text
    <3>1. \A i \in 1..Len(<<"w">>) : <<"w">>[i] # "node_modules/"
      BY ShortTexts, Zenon
    <3>2. <<>> \in Text /\ <<"w">> \in Text
      BY ShortTexts, NothingJoined, Zenon
    <3>3. QED
      BY <3>1, <3>2, PathRead, Zenon
  <2>4. nameFromPath(Modules \o <<"w">>) = {<<"w">>}
    BY <2>3, NothingJoined, Zenon
  <2>5. QED
    <3>1. ParseEntry(format, o) = Named(nameFromPath(o.key), o.version)
      BY <1>3, ParsersAre, Zenon
    <3>2. Named({<<"w">>}, v) = Stray(<<"w">>, v)
      BY <1>1, NamedIs, ShortTexts, Zenon
    <3>3. QED
      BY <2>2, <2>4, <3>1, <3>2, Zenon DEF OneAtMost, Stray
<1>4. CASE format = "npm1"
  <2>1. o = Other(<<"w">>, "npm:", Stray(<<"w">>, "npm:"))
    BY <1>4, Zenon DEF Redirected
  <2>2. o.key = <<"w">> /\ o.version = "npm:" /\ o.read = Stray(<<"w">>, "npm:")
    BY <2>1 DEF Other
  <2>3. QED
    <3>1. ParseEntry(format, o) = Named({o.key}, o.version)
      BY <1>4, ParsersAre, Zenon
    <3>2. Named({<<"w">>}, "npm:") = Stray(<<"w">>, "npm:")
      BY <1>2, NamedIs, ShortTexts, Zenon
    <3>3. QED
      BY <2>2, <3>1, <3>2, Zenon DEF OneAtMost, Stray
<1>5. CASE format \in {"yarn", "berry"}
  <2>1. PICK name :
          /\ o = Other(name \o <<"@", "range">>, v, Stray(name, v))
          /\ name = <<"w", "@", "npm:">> \o n \/ name = n \o (<<"@", "patch:">> \o n)
    <3>1. CASE format = "yarn"
      BY <3>1, Zenon DEF Redirected
    <3>2. CASE format = "berry"
      BY <3>2, Zenon DEF Redirected
    <3>3. QED
      BY <1>5, <3>1, <3>2, Zenon
  <2>2. o.key = name \o <<"@", "range">> /\ o.version = v /\ o.read = Stray(name, v)
    BY <2>1 DEF Other
  <2>3. name # <<>> /\ nameFromDescriptors(name \o <<"@", "range">>) = {name}
    <3>1. CASE name = <<"w", "@", "npm:">> \o n
      BY <1>1, <3>1, ShortTexts, JoinedRead, Zenon
    <3>2. CASE name = n \o (<<"@", "patch:">> \o n)
      <4>1. /\ <<"@", "patch:">> \o n \in Text
            /\ \A i \in 1..Len(<<"@", "patch:">> \o n) : (<<"@", "patch:">> \o n)[i] # ","
        BY <1>1, ShortTexts, JoinedLacks, Zenon
      <4>2. QED
        BY <1>1, <3>2, <4>1, JoinedRead, Zenon
    <3>3. QED
      BY <2>1, <3>1, <3>2, Zenon
  <2>4. ParseEntry(format, o) = Named(nameFromDescriptors(o.key), o.version)
    <3>1. CASE format = "yarn"
      BY <3>1, ParsersAre, Zenon
    <3>2. CASE format = "berry"
      BY <3>2, ParsersAre, Zenon
    <3>3. QED
      BY <1>5, <3>1, <3>2, Zenon
  <2>5. Named({name}, v) = Stray(name, v)
    BY <1>1, <2>3, NamedIs, Zenon
  <2>6. QED
    BY <2>2, <2>3, <2>4, <2>5, Zenon DEF OneAtMost, Stray
<1>6. CASE format = "pnpm"
  <2>1. o = Other(n \o <<"@", "https:", "/", "w">>, NoVersion, {})
    BY <1>6, Zenon DEF Redirected
  <2>2. o.key = n \o <<"@", "https:", "/", "w">> /\ o.read = {}
    BY <2>1 DEF Other
  <2>3. parseKey(n \o <<"@", "https:", "/", "w">>) = {}
    BY <1>1, AddressRead, Zenon
  <2>4. QED
    <3>1. ParseEntry(format, o) = parseKey(o.key)
      BY <1>6, ParsersAre, Zenon
    <3>2. QED
      BY <2>2, <2>3, <3>1, Zenon DEF OneAtMost
<1>7. CASE format = "bun"
  BY <1>7, Zenon DEF Redirected
<1>8. QED
  BY <1>0, <1>3, <1>4, <1>5, <1>6, <1>7, Zenon

\* What is written in a lockfile of a format.
Forms(format) ==
  {Written(format, d, front, behind) : d \in Deps, front \in Fronts(format), behind \in Behinds(format)}
    \cup Own(format) \cup UNION {Redirected(format, d) : d \in Deps}

Entry(format) == {[key |-> e.key, version |-> e.version, within |-> k] : e \in Forms(format), k \in Nat}

\* Every entry is read as nothing or as something it was written for, and
\* everything written is read from an entry.
Readings(format, entries, found) ==
  /\ \A i \in DOMAIN entries :
       ParseEntry(format, entries[i]) = {} \/ \E d \in found : ParseEntry(format, entries[i]) = {d}
  /\ \A d \in found : \E i \in DOMAIN entries : ParseEntry(format, entries[i]) = {d}

\* An entry is nested in an earlier one, or in none.
Nested(entries) == \A i \in DOMAIN entries : entries[i].within \in 0..(i - 1)

Lock(format, entries, found) ==
  /\ format \in Formats /\ entries \in Seq(Entry(format))
  /\ Readings(format, entries, found) /\ Nested(entries)

LockIs(format, entries, deps, strays) ==
  lock = [format |-> format, entries |-> entries, deps |-> deps, strays |-> strays]

LockInv ==
  \E format, entries, deps, strays :
    LockIs(format, entries, deps, strays) /\ Lock(format, entries, deps \cup strays)

(* An entry more.                                                          *)
LEMMA ReadMore ==
  ASSUME NEW format, NEW entries, NEW found, Lock(format, entries, found),
         NEW e \in Forms(format), NEW k \in 0..Len(entries), NEW S,
         ParseEntry(format, e) = S, OneAtMost(S)
  PROVE  Lock(format, Append(entries, [key |-> e.key, version |-> e.version, within |-> k]), found \cup S)
<1> DEFINE w == [key |-> e.key, version |-> e.version, within |-> k]
           u == Append(entries, w)
<1>1. entries \in Seq(Entry(format)) /\ Readings(format, entries, found) /\ Nested(entries) /\ format \in Formats
  BY DEF Lock
<1>2. PICK n \in Nat : n = Len(entries) /\ DOMAIN entries = 1..n
  BY <1>1
<1>3. w \in Entry(format) /\ w.within = k /\ ParseEntry(format, w) = S
  <2>1. k \in Nat
    BY <1>2
  <2>2. w \in Entry(format)
    <3>1. w \in {[key |-> f.key, version |-> f.version, within |-> i] : f \in Forms(format), i \in Nat}
      BY <2>1
    <3> HIDE DEF w
    <3>2. QED
      BY <3>1 DEF Entry
  <2>3. w.key = e.key /\ w.version = e.version /\ w.within = k
    OBVIOUS
  <2> HIDE DEF w
  <2>4. ParseEntry(format, w) = S
    BY <1>1, <2>3, ParsedAlike, Zenon
  <2>5. QED
    BY <2>2, <2>3, <2>4
<1> HIDE DEF w
<1>4. /\ u \in Seq(Entry(format)) /\ DOMAIN u = 1..(n + 1) /\ u[n + 1] = w
      /\ \A i \in 1..n : u[i] = entries[i]
  BY <1>1, <1>2, <1>3
<1> HIDE DEF u
<1>5. ASSUME NEW i \in 1..(n + 1)
      PROVE  ParseEntry(format, u[i]) = {} \/ \E d \in found \cup S : ParseEntry(format, u[i]) = {d}
  <2>1. CASE i = n + 1
    BY <1>3, <1>4, <2>1 DEF OneAtMost
  <2>2. CASE i # n + 1
    <3>1. i \in 1..n
      BY <2>2
    <3>2. ParseEntry(format, entries[i]) = {} \/ \E d \in found : ParseEntry(format, entries[i]) = {d}
      BY <1>1, <1>2, <3>1 DEF Readings
    <3>3. QED
      BY <1>4, <3>1, <3>2
  <2>3. QED
    BY <2>1, <2>2
<1>6. ASSUME NEW d \in found \cup S PROVE \E i \in 1..(n + 1) : ParseEntry(format, u[i]) = {d}
  <2>1. CASE d \in S
    <3>1. S = {d}
      BY <2>1 DEF OneAtMost
    <3>2. n + 1 \in 1..(n + 1)
      OBVIOUS
    <3>3. QED
      BY <1>3, <1>4, <3>1, <3>2
  <2>2. CASE d \in found
    <3>1. PICK i \in 1..n : ParseEntry(format, entries[i]) = {d}
      BY <1>1, <1>2, <2>2 DEF Readings
    <3>2. i \in 1..(n + 1)
      OBVIOUS
    <3>3. QED
      BY <1>4, <3>1, <3>2
  <2>3. QED
    BY <2>1, <2>2
<1>7. Readings(format, u, found \cup S)
  BY <1>4, <1>5, <1>6 DEF Readings
<1>8. Nested(u)
  <2>1. ASSUME NEW i \in 1..(n + 1) PROVE u[i].within \in 0..(i - 1)
    <3>1. CASE i = n + 1
      BY <1>2, <1>3, <1>4, <3>1
    <3>2. CASE i # n + 1
      <4>1. i \in 1..n
        BY <3>2
      <4>2. QED
        BY <1>1, <1>2, <1>4, <4>1 DEF Nested
    <3>3. QED
      BY <3>1, <3>2
  <2>2. QED
    BY <1>4, <2>1 DEF Nested
<1>9. QED
  BY <1>1, <1>4, <1>7, <1>8 DEF Lock, u, w

(* An empty lockfile.                                                      *)
LEMMA LockStart == LockInit => LockInv
<1> SUFFICES ASSUME LockInit PROVE LockInv
  OBVIOUS
<1>1. PICK format \in Formats : LockIs(format, <<>>, {}, {})
  BY DEF LockInit, LockIs
<1>2. Lock(format, <<>>, {} \cup {})
  BY DEF Lock, Readings, Nested
<1>3. QED
  BY <1>1, <1>2, Zenon DEF LockInv

(* What EXCEPT makes of a lockfile.                                        *)
LEMMA LockMade ==
  ASSUME NEW format, NEW entries, NEW deps, NEW strays, NEW w, NEW D, NEW S, NEW s, NEW t,
         s = [format |-> format, entries |-> entries, deps |-> deps, strays |-> strays],
         t = [s EXCEPT !.entries = Append(@, w), !.deps = @ \cup D, !.strays = @ \cup S]
  PROVE  /\ t = [format |-> format, entries |-> Append(entries, w), deps |-> deps \cup D, strays |-> strays \cup S]
         /\ s.format = format /\ s.entries = entries /\ s.deps = deps /\ s.strays = strays
BY Zenon

(* Every entry keeps it so.                                                *)
LEMMA LockStep == LockInv /\ [LockNext]_lock => LockInv'
<1> SUFFICES ASSUME LockInv, [LockNext]_lock PROVE LockInv'
  OBVIOUS
<1>1. PICK format, entries, deps, strays :
        LockIs(format, entries, deps, strays) /\ Lock(format, entries, deps \cup strays)
  BY Zenon DEF LockInv
<1>2. lock.format = format /\ lock.entries = entries /\ format \in Formats
  BY <1>1 DEF LockIs, Lock
<1>3. CASE UNCHANGED lock
  BY <1>1, <1>3, Zenon DEF LockInv, LockIs
<1>4. CASE LockNext
  <2>1. PICK place \in Places :
          \/ \E d \in Deps, front \in Fronts(format), behind \in Behinds(format) : Add(d, front, behind, place)
          \/ \E o \in Own(format) : AddOther(o, place)
          \/ \E d \in Deps : \E o \in Redirected(format, d) : AddOther(o, place)
    BY <1>2, <1>4, Zenon DEF LockNext
  <2>2. place \in 0..Len(entries)
    <3>1. Len(entries) \in Nat
      BY <1>1 DEF Lock
    <3>2. QED
      BY <1>2, <3>1 DEF Places
  <2>3. ASSUME NEW e \in Forms(format), NEW D, NEW S,
               ParseEntry(format, e) = D \cup S, OneAtMost(D \cup S), Enter(e, place, D, S)
        PROVE  LockInv'
    <3> DEFINE w == [key |-> e.key, version |-> e.version, within |-> place]
    <3>1. lock' = [lock EXCEPT !.entries = Append(@, w), !.deps = @ \cup D, !.strays = @ \cup S]
      BY <2>3, Zenon DEF Enter
    <3>2. Lock(format, Append(entries, w), (deps \cup strays) \cup (D \cup S))
      BY <1>1, <2>2, <2>3, ReadMore
    <3> HIDE DEF w
    <3>3. lock' = [format |-> format, entries |-> Append(entries, w), deps |-> deps \cup D, strays |-> strays \cup S]
      BY <1>1, <3>1, LockMade, Zenon DEF LockIs
    <3>4. (deps \cup strays) \cup (D \cup S) = (deps \cup D) \cup (strays \cup S)
      OBVIOUS
    <3>5. Lock(format, Append(entries, w), (deps \cup D) \cup (strays \cup S))
      BY <3>2, <3>4, Zenon
    <3>6. QED
      BY <3>3, <3>5, Zenon DEF LockInv, LockIs
  <2>4. CASE \E d \in Deps, front \in Fronts(format), behind \in Behinds(format) : Add(d, front, behind, place)
    <3>1. PICK d \in Deps, front \in Fronts(format), behind \in Behinds(format) : Add(d, front, behind, place)
      BY <2>4
    <3> DEFINE e == Written(format, d, front, behind)
    <3>2. e \in Forms(format) /\ ParseEntry(format, e) = {d}
      <4>1. ParseEntry(format, e) = {d}
        BY <1>2, EntryRead
      <4>2. e \in {Written(format, x, y, z) : x \in Deps, y \in Fronts(format), z \in Behinds(format)}
        OBVIOUS
      <4> HIDE DEF e
      <4>3. QED
        BY <4>1, <4>2 DEF Forms
    <3>3. Enter(e, place, {d}, {})
      BY <1>2, <3>1, Zenon DEF Add
    <3> HIDE DEF e
    <3>4. {d} \cup {} = {d} /\ OneAtMost({d})
      BY DEF OneAtMost
    <3>5. QED
      BY <2>3, <3>2, <3>3, <3>4
  <2>5. ASSUME NEW o \in Forms(format), AddOther(o, place), ParseEntry(format, o) = o.read, OneAtMost(o.read)
        PROVE  LockInv'
    <3>1. {} \cup o.read = o.read
      OBVIOUS
    <3>2. Enter(o, place, {}, o.read)
      BY <2>5, Zenon DEF AddOther
    <3>3. QED
      BY <2>3, <2>5, <3>1, <3>2
  <2>6. CASE \E o \in Own(format) : AddOther(o, place)
    <3>1. PICK o \in Own(format) : AddOther(o, place)
      BY <2>6
    <3>2. o \in Forms(format)
      BY DEF Forms
    <3>3. QED
      BY <1>2, <2>5, <3>1, <3>2, OwnRead, Zenon
  <2>7. CASE \E d \in Deps : \E o \in Redirected(format, d) : AddOther(o, place)
    <3>1. PICK d \in Deps : \E o \in Redirected(format, d) : AddOther(o, place)
      BY <2>7
    <3>2. PICK o \in Redirected(format, d) : AddOther(o, place)
      BY <3>1
    <3>3. o \in Forms(format)
      BY DEF Forms
    <3>4. QED
      BY <1>2, <2>5, <3>2, <3>3, RedirectedRead, Zenon
  <2>8. QED
    BY <2>1, <2>4, <2>6, <2>7
<1>5. QED
  BY <1>3, <1>4

(* Going into every entry reached, each entry is reached (collectV1).      *)
LEMMA AllReached ==
  ASSUME NEW T, NEW entries \in Seq(T), Nested(entries)
  PROVE  \A i \in DOMAIN entries : i \in collectV1(entries)
<1>1. PICK n \in Nat : n = Len(entries) /\ DOMAIN entries = 1..n
  OBVIOUS
<1> DEFINE Loop(g) == [i \in 0..Len(entries) |->
                         IF i = 0 THEN {0}
                         ELSE IF entries[i].within \in g[i - 1] THEN g[i - 1] \cup {i}
                         ELSE g[i - 1]]
           f == [i \in 0..n |-> 0..i]
<1>2. \A i \in 1..n : entries[i].within \in 0..(i - 1)
  BY <1>1 DEF Nested
<1>3. f = Loop(f)
  <2>1. ASSUME NEW i \in 0..n PROVE f[i] = Loop(f)[i]
    <3>1. CASE i = 0
      BY <1>1, <3>1
    <3>2. CASE i # 0
      <4>1. i \in 1..n /\ i - 1 \in 0..n /\ entries[i].within \in f[i - 1]
        BY <1>2, <3>2
      <4>2. 0..i = 0..(i - 1) \cup {i}
        OBVIOUS
      <4>3. QED
        BY <1>1, <3>2, <4>1, <4>2
    <3>3. QED
      BY <3>1, <3>2
  <2>2. QED
    BY <1>1, <2>1
<1>4. ASSUME NEW g, g = Loop(g) PROVE g[n] = 0..n
  <2> DEFINE U == {i \in 0..n : g[i] = 0..i}
  <2>1. 0 \in U
    BY <1>1, <1>4
  <2>2. ASSUME NEW i \in 0..n, i \in U, i < n PROVE i + 1 \in U
    <3> DEFINE k == i + 1
    <3>1. k \in 1..n /\ k # 0 /\ k - 1 = i /\ k \in 0..n /\ 0..k = 0..i \cup {k}
      BY <2>2
    <3> HIDE DEF k
    <3>2. entries[k].within \in 0..i
      BY <1>2, <3>1
    <3>3. g[k] = IF entries[k].within \in g[k - 1] THEN g[k - 1] \cup {k} ELSE g[k - 1]
      BY <1>1, <1>4, <3>1
    <3>4. g[k] = 0..k
      BY <2>2, <3>1, <3>2, <3>3
    <3>5. QED
      BY <3>1, <3>4 DEF k
  <2>3. 0..n \subseteq U
    <3> HIDE DEF U
    <3>1. QED
      BY <2>1, <2>2, UpTo
  <2>4. QED
    BY <2>3
<1>5. collectV1(entries) = (CHOOSE g : g = Loop(g))[n]
  BY <1>1 DEF collectV1
<1> HIDE DEF Loop, f
<1>6. collectV1(entries) = 0..n
  BY <1>3, <1>4, <1>5
<1>7. QED
  BY <1>1, <1>6

(* So everything written in a lockfile is in the list, once.               *)
LEMMA LockCovered == LockInv => LockfileIsCovered
<1> SUFFICES ASSUME LockInv PROVE LockfileIsCovered
  OBVIOUS
<1>1. PICK format, entries, deps, strays :
        LockIs(format, entries, deps, strays) /\ Lock(format, entries, deps \cup strays)
  BY Zenon DEF LockInv
<1>2. lock.format = format /\ lock.entries = entries /\ lock.deps = deps /\ lock.strays = strays
  BY <1>1, Zenon DEF LockIs
<1> DEFINE found == deps \cup strays
           p == [i \in DOMAIN entries |-> ParseEntry(format, entries[i])]
<1>3. parseLockfile = dedupe(p)
  <2>1. \A i \in DOMAIN entries : i \in Visited(format, entries)
    <3>1. \A i \in DOMAIN entries : i \in collectV1(entries)
      BY <1>1, AllReached DEF Lock
    <3>2. QED
      BY <3>1, Zenon DEF Visited
  <2>2. [i \in DOMAIN entries |-> IF i \in Visited(format, entries) THEN ParseEntry(format, entries[i]) ELSE {}] = p
    BY <2>1, Zenon
  <2>3. QED
    BY <1>2, <2>2, Zenon DEF parseLockfile
<1>4. PICK n \in Nat : n = Len(entries) /\ DOMAIN entries = 1..n
  BY <1>1 DEF Lock
<1>5. \A i \in 1..n : p[i] = {} \/ \E d \in found : p[i] = {d}
  BY <1>1, <1>4 DEF Lock, Readings
<1>6. \A d \in found : \E i \in 1..n : p[i] = {d}
  BY <1>1, <1>4 DEF Lock, Readings
<1> HIDE DEF found
<1>7. p \in Seq(SUBSET found) /\ Len(p) = n
  <2>1. ASSUME NEW i \in 1..n PROVE p[i] \in SUBSET found
    <3>1. p[i] = {} \/ \E d \in found : p[i] = {d}
      BY <1>5
    <3> HIDE DEF p
    <3>2. QED
      BY <3>1
  <2>2. DOMAIN p = 1..n /\ p = [i \in 1..n |-> p[i]]
    BY <1>4
  <2> HIDE DEF p
  <2>3. QED
    BY <2>1, <2>2
<1> HIDE DEF p
<1>8. UNION {p[i] : i \in 1..n} = found
  BY <1>5, <1>6
<1>9. Items(dedupe(p)) = UNION {p[i] : i \in 1..Len(p)} /\ Len(dedupe(p)) = Cardinality(Items(dedupe(p)))
  BY <1>5, <1>7, DedupeKeepsOnce
<1>10. Items(parseLockfile) = found /\ Len(parseLockfile) = Cardinality(found)
  BY <1>3, <1>7, <1>8, <1>9
<1>11. QED
  BY <1>2, <1>10, Zenon DEF LockfileIsCovered, found

(* For any dependencies and any number of entries, in every format, each   *)
(* dependency of a lockfile is checked, once; so is what the package       *)
(* manager lists of the project's own or fetches under another name, under *)
(* the name the parsers take it for; and nothing else is (parseLockfile,   *)
(* collectV1 and dedupe of admission/src/lockfiles).                       *)
THEOREM LockfilesAreCovered == LockInit /\ [][LockNext]_lock => []LockfileIsCovered
<1>1. LockInit => LockInv
  BY LockStart
<1>2. LockInv /\ [LockNext]_lock => LockInv'
  BY LockStep
<1>3. LockInv => LockfileIsCovered
  BY LockCovered
<1>4. QED
  BY <1>1, <1>2, <1>3, PTL
=============================================================================
