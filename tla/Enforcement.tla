----------------------------- MODULE Enforcement -----------------------------
(***************************************************************************)
(* The enforcement points that ask the engine before they hand out a       *)
(* release: the registry gateway (src/gateway: the packument filter and    *)
(* the tarball gate) and the CI admission gate (src/admission).  They run  *)
(* beside an engine whose verdicts change at any time, which answers a     *)
(* packument version by version, late, with an error or not at all.        *)
(*                                                                         *)
(* A client is one request to the gateway or one run of the admission      *)
(* gate.  Of an answer only ALLOW matters: both clients read everything    *)
(* else, an unknown value included, as not allowed.                        *)
(***************************************************************************)
EXTENDS Naturals, FiniteSets, FiniteSetsExt

CONSTANTS
  Versions,     \* releases: versions of a package, dependencies of a lockfile
  Fetchers,     \* requests of package managers to the gateway
  Runs,         \* runs of the admission gate
  Concurrency   \* how many dependencies a run resolves at a time

Clients == Fetchers \cup Runs

ASSUME ClientsAssumption == Fetchers \cap Runs = {}
ASSUME ConcurrencyAssumption == Concurrency \in Nat \ {0}

VARIABLES
  failOpen,  \* the gateway's setting, read when it starts
  allowed,   \* the releases the engine answers ALLOW for at this moment
  call,      \* each client's request
  handed,    \* what each client got last
  since      \* history: what was allowed at some moment since the client asked

vars == <<failOpen, allowed, call, handed, since>>

\* asked is what the caller wants judged, open what the engine still has to judge
\* in the call (or the batch of calls) under way, later the batches to come.
Call == [pc : {"idle", "packument", "tarball", "batch"},
         asked : SUBSET Versions, open : SUBSET Versions, later : SUBSET Versions,
         granted : SUBSET Versions, blocked : SUBSET Versions, tags : SUBSET Versions]

\* What a client sees: releases, and what the dist-tags of a packument point to.
Handed == [outcome : {"none", "passed", "refused", "unavailable", "untouched"},
           versions : SUBSET Versions, tags : SUBSET Versions]

Nothing == [outcome |-> "none", versions |-> {}, tags |-> {}]

Idle == [pc |-> "idle", asked |-> {}, open |-> {}, later |-> {},
               granted |-> {}, blocked |-> {}, tags |-> {}]

Asking == {c \in Clients : call[c].pc # "idle"}

(* Every variable has its type.                                            *)
TypeOK ==
  /\ failOpen \in BOOLEAN
  /\ allowed \in SUBSET Versions
  /\ call \in [Clients -> Call]
  /\ handed \in [Clients -> Handed]
  /\ since \in [Clients -> SUBSET Versions]

Init ==
  /\ failOpen \in BOOLEAN
  /\ allowed \in SUBSET Versions
  /\ call = [c \in Clients |-> Idle]
  /\ handed = [c \in Clients |-> Nothing]
  /\ since = [c \in Clients |-> {}]

-----------------------------------------------------------------------------
\* An admission gate has no such setting.
failClosed(c) == failOpen => c \in Runs

Start(c, pc, asked, batch, rest, tags) ==
  /\ call[c].pc = "idle"
  /\ call' = [call EXCEPT ![c] = [pc |-> pc, asked |-> asked, open |-> batch, later |-> rest,
                                  granted |-> {}, blocked |-> {}, tags |-> tags]]
  /\ handed' = [handed EXCEPT ![c] = Nothing]
  /\ since' = [since EXCEPT ![c] = allowed]
  /\ UNCHANGED <<failOpen, allowed>>

Turn(c, open, later, granted, blocked) ==
  /\ call' = [call EXCEPT ![c] = [pc |-> call[c].pc, asked |-> call[c].asked, open |-> open,
                                  later |-> later, granted |-> granted, blocked |-> blocked,
                                  tags |-> call[c].tags]]
  /\ UNCHANGED <<failOpen, allowed, handed, since>>

Finish(c, outcome, versions, tags) ==
  /\ call' = [call EXCEPT ![c] = Idle]
  /\ handed' = [handed EXCEPT ![c] = [outcome |-> outcome, versions |-> versions, tags |-> tags]]
  /\ since' = [since EXCEPT ![c] = {}]
  /\ UNCHANGED <<failOpen, allowed>>

-----------------------------------------------------------------------------
\* One call asks for all versions of the packument.
filter_metadata(c, versions, tags) == Start(c, "packument", versions, versions, {}, tags)

\* Other methods and paths that name no tarball go to the next handler unasked
\* and have no action.
tarballGate(c, v) == Start(c, "tarball", {v}, {v}, {}, {})

\* Mutated: without a base nothing is taken to have changed.
changedDeps_NoBaseNoChange(base, known, head) == IF known THEN head \ base ELSE {}

\* Without a base (a new lockfile, or a ref git cannot show) all of it changed.
changedDeps(base, known, head) == head \ (IF known THEN base ELSE {})

\* The next slice, in the order of the lockfile, whatever that is.
Batches(S) == {B \in SUBSET S : Cardinality(B) = Min({Concurrency, Cardinality(S)})}

\* asked is what a run that passes vouches for.
runGate(c, base, known, head) ==
  \E B \in Batches(changedDeps(base, known, head)) :
    Start(c, "batch", head \ (IF known THEN base ELSE {}), B,
          changedDeps(base, known, head) \ B, {})

-----------------------------------------------------------------------------
\* Mutated: a HOLD counts as an ALLOW.
Judge_HoldPasses(c, v) ==
  /\ v \in call[c].open
  /\ Turn(c, call[c].open \ {v}, call[c].later, call[c].granted \cup {v}, call[c].blocked)

\* The engine judges one release of the call with what holds now.  In a packument
\* it takes them one after the other, in a batch each is a call of its own.
Judge(c, v) ==
  /\ v \in call[c].open
  /\ IF v \in allowed
     THEN Turn(c, call[c].open \ {v}, call[c].later, call[c].granted \cup {v}, call[c].blocked)
     ELSE Turn(c, call[c].open \ {v}, call[c].later, call[c].granted, call[c].blocked \cup {v})

\* The answer of ResolvePackument is there: keep what it allows, and the tags into it.
rewritePackument(c) ==
  /\ call[c].pc = "packument" /\ call[c].open = {} /\ call[c].asked # {}
  /\ Finish(c, "passed", call[c].granted, call[c].tags \cap call[c].granted)

\* A packument without versions is not worth a call.
PassEmpty(c) ==
  /\ call[c].pc = "packument" /\ call[c].asked = {}
  /\ Finish(c, "untouched", {}, call[c].tags)

TarballAnswered(c) ==
  /\ call[c].pc = "tarball" /\ call[c].open = {}
  /\ \/ call[c].granted # {} /\ Finish(c, "passed", call[c].granted, {})
     \/ call[c].granted = {} /\ Finish(c, "refused", {}, {})

\* A batch is over when all its calls are.
NextBatch(c) ==
  /\ call[c].pc = "batch" /\ call[c].open = {} /\ call[c].later # {}
  /\ \E B \in Batches(call[c].later) :
       Turn(c, B, call[c].later \ B, call[c].granted, call[c].blocked)

evaluate(c) ==
  /\ call[c].pc = "batch" /\ call[c].open = {} /\ call[c].later = {}
  /\ \/ call[c].blocked = {} /\ Finish(c, "passed", call[c].asked, {})
     \/ call[c].blocked # {} /\ Finish(c, "refused", {}, {})

\* Mutated: a run waits for the engine without a deadline.
Unanswered_NoDeadline(c) == call[c].pc \in {"packument", "tarball"}

\* An error of the engine, of one version of the packument or of one call of the
\* batch, a lost connection, or the deadline: at any time until the answer is there.
Unanswered(c) ==
  \/ call[c].pc \in {"packument", "tarball"} /\ call[c].asked # {}
  \/ call[c].pc = "batch" /\ call[c].open # {}

\* Mutated: a rewrite that failed serves what came from upstream.
GiveUp_ServesUpstream(c) ==
  /\ Unanswered(c)
  /\ IF failClosed(c) /\ call[c].pc # "packument"
     THEN Finish(c, "unavailable", {}, {})
     ELSE Finish(c, "untouched", call[c].asked, call[c].tags)

GiveUp(c) ==
  /\ Unanswered(c)
  /\ IF failClosed(c)
     THEN Finish(c, "unavailable", {}, {})
     ELSE Finish(c, "untouched", call[c].asked, call[c].tags)

\* The engine changes its mind about any release at any time.
VerdictsChange ==
  /\ allowed' \in SUBSET Versions \ {allowed}
  /\ since' = [c \in Clients |-> IF c \in Asking THEN since[c] \cup allowed' ELSE since[c]]
  /\ UNCHANGED <<failOpen, call, handed>>

\* The steps a client's own runtime takes.
Proceed(c) ==
  \/ rewritePackument(c) \/ PassEmpty(c) \/ TarballAnswered(c)
  \/ NextBatch(c) \/ evaluate(c) \/ GiveUp(c)

Next ==
  \/ \E c \in Fetchers, S, tags \in SUBSET Versions : filter_metadata(c, S, tags)
  \/ \E c \in Fetchers, v \in Versions : tarballGate(c, v)
  \/ \E c \in Runs, base, head \in SUBSET Versions, known \in BOOLEAN : runGate(c, base, known, head)
  \/ \E c \in Clients, v \in Versions : Judge(c, v)
  \/ \E c \in Clients : Proceed(c)
  \/ VerdictsChange

Spec == Init /\ [][Next]_vars

\* The event loop runs what is ready, and every call has a deadline.  The engine owes nothing.
FairSpec == Spec /\ \A c \in Clients : WF_vars(Proceed(c))

-----------------------------------------------------------------------------
Promise == INSTANCE Gate WITH
             open <- IF failOpen THEN Fetchers ELSE {},
             asking <- Asking,
             handed <- [c \in Clients |-> handed[c].versions]

(* A release passes the packument filter, the tarball gate or the          *)
(* admission gate only if the engine allowed it since the client asked; a  *)
(* run that passes vouches for every dependency of the new lockfile that   *)
(* the old one lacks.  Only a gateway set to fail open serves more.        *)
(* (rewritePackument, tarballGate, runGate)                                *)
ImplementsGate == Promise!Spec

(* Every request and every run ends, even when the engine is silent or     *)
(* answers some of the calls only (callOptions, EngineClient, evaluate).   *)
RequestsEnd == \A c \in Clients : call[c].pc # "idle" ~> call[c].pc = "idle"
=============================================================================
