------------------------------- MODULE Sandbox -------------------------------
(***************************************************************************)
(* The install sandbox: the child installs a seccomp filter, hands its     *)
(* listener to the parent over a socket pair and runs the install command; *)
(* the parent answers every connect() of its threads (and watches their    *)
(* openat() calls for the read-a-secret-then-send chain), reaps the child  *)
(* and reports what it saw (runner.rs, seccomp.rs, chain.rs, main.rs).     *)
(* Other threads may rewrite what a call that waits points to.             *)
(* The kernel's half follows seccomp_unotify(2).                           *)
(***************************************************************************)
EXTENDS Integers, FiniteSets, SequencesExt

CONSTANTS
  Setups,     \* the pairs of --detect-chain and the kernel's behaviour that are tried
  Tasks,      \* thread ids of the supervised processes; a dead one may be reused
  Main,       \* the child itself
  Hosts,      \* IP destinations
  Calls,      \* the calls made: to a host, to a Local socket, opening a secret or a plain file
  Allowed,    \* loopback and the allowlist
  Window,     \* chain_window_ms, in ticks
  MaxTime,    \* bound: ticks
  MaxCalls,   \* bound: notified calls and rewritten addresses or paths
  MaxFaults   \* bound: failing ioctls and unreadable memory

VARIABLES
  detect,     \* detect_chain: openat() is notified too
  hangup,     \* the kernel ends a receive when no thread is left
  child,      \* the child's set-up: "forked", "sent" (the listener) or "failed"
  live,       \* the threads that run
  asking,     \* what each thread waits for: a notification or Nothing
  requests,   \* the kernel's count of notifications not yet received
  parent,     \* "waiting", "supervising", "reaping", "reporting", "done" or "failed"
  cur,        \* the notification in the supervisor's hands
  secrets, fired,    \* the chain detector
  blocked, chains,   \* the events collected
  reported,   \* events handed to the engine, or lost on the way there
  now, calls, faults,
  log         \* history: what was examined and what the calls came to

kernel == <<child, live, asking, requests>>
detector == <<secrets, fired>>
events == <<blocked, chains>>
config == <<detect, hangup>>
vars == <<config, kernel, parent, cur, detector, events, reported, now, calls, faults, log>>

Nothing == [id |-> 0]
Unread == "unread"
Local == "local"                   \* a socket that is not IP
Connects == Hosts \cup {Local}
Opens == {"secret", "plain"}
Never == -1

ASSUME CallsAssumption == Calls \subseteq Connects \cup Opens /\ Allowed \subseteq Hosts /\ Main \in Tasks
ASSUME SetupsAssumption == Setups \subseteq BOOLEAN \X BOOLEAN
ASSUME HostsAssumption == Hosts \cap ({Local, Unread} \cup Opens) = {}
ASSUME TimeAssumption == Window \in Nat /\ MaxTime \in Nat

Log == [seen |-> <<>>, tried |-> {}, reached |-> {}, unread |-> {}, swapped |-> {},
        refused |-> <<>>, vanished |-> FALSE]

Init ==
  /\ \E s \in Setups : detect = s[1] /\ hangup = s[2]
  /\ child = "forked" /\ live = {Main} /\ requests = 0
  /\ asking = [t \in Tasks |-> Nothing]
  /\ parent = "waiting" /\ cur = Nothing
  /\ secrets = [t \in Tasks |-> Never] /\ fired = {}
  /\ blocked = <<>> /\ chains = <<>> /\ reported = 0
  /\ now = 0 /\ calls = 0 /\ faults = 0 /\ log = Log

(* --- the child and the threads of the install command ---------------- *)

\* Namespaces, filter, sending the listener: each may fail and end the child.
child_main ==
  /\ child = "forked"
  /\ \/ child' = "sent" /\ UNCHANGED live
     \/ child' = "failed" /\ live' = {}
  /\ UNCHANGED <<config, asking, requests, parent, cur, detector, events, reported, now, calls, faults, log>>

Listening == parent \in {"waiting", "supervising", "reaping"}

\* The filter notifies connect(), and openat() when chains are looked for.
Notified(c) == c \in Connects \/ detect

\* What a thread's calls were pointed at so far.
Aimed(t, c) == IF c \in Hosts THEN log.tried \cup {[pid |-> t, dest |-> c]} ELSE log.tried

Call(t, c) ==
  /\ child = "sent" /\ t \in live /\ Listening /\ asking[t] = Nothing
  /\ Notified(c) /\ calls < MaxCalls
  /\ calls' = calls + 1
  /\ asking' = [asking EXCEPT ![t] = [id |-> calls + 1, call |-> c, fresh |-> TRUE]]
  /\ requests' = requests + 1
  /\ log' = [log EXCEPT !.tried = Aimed(t, c)]
  /\ UNCHANGED <<config, child, live, parent, cur, detector, events, reported, now, faults>>

Fork(t) ==
  /\ child = "sent" /\ live # {} /\ t \notin live /\ Listening
  /\ live' = live \cup {t}
  /\ UNCHANGED <<config, child, asking, requests, parent, cur, detector, events, reported, now, calls, faults, log>>

\* A notification whose thread is killed or interrupted is gone; the kernel's
\* count still wakes a receiver for it.
Withdrawn(t) ==
  /\ asking' = [asking EXCEPT ![t] = Nothing]
  /\ log' = [log EXCEPT !.vanished = @ \/ (asking[t] # Nothing /\ asking[t].fresh)]
  /\ UNCHANGED <<config, child, requests, parent, cur, detector, events, reported, now, calls, faults>>

Exit(t) == child = "sent" /\ Listening /\ t \in live /\ live' = live \ {t} /\ Withdrawn(t)

Interrupt(t) == Listening /\ asking[t] # Nothing /\ UNCHANGED live /\ Withdrawn(t)

Valid == asking[cur.task].id = cur.id

Examined == cur # Nothing /\ cur.answer # "none"

\* Another thread rewrites the address or the path a call that waits points to.
Swap(t, c) ==
  /\ child = "sent" /\ Listening /\ asking[t] # Nothing /\ live \ {t} # {}
  /\ calls < MaxCalls /\ calls' = calls + 1
  /\ c # asking[t].call /\ {c, asking[t].call} \in (SUBSET Connects) \cup (SUBSET Opens)
  /\ asking' = [asking EXCEPT ![t].call = c]
  /\ log' = [log EXCEPT !.tried = Aimed(t, c),
                         !.swapped = IF Examined /\ cur.task = t /\ Valid THEN @ \cup {cur.id} ELSE @]
  /\ UNCHANGED <<config, child, live, requests, parent, cur, detector, events, reported, now, faults>>

(* --- the parent ------------------------------------------------------ *)

\* The listener is closed: the calls that wait return ENOSYS.
Closed == asking' = [t \in Tasks |-> Nothing]

recv_fd ==
  /\ parent = "waiting" /\ child = "sent"
  /\ parent' = "supervising"
  /\ UNCHANGED <<config, kernel, cur, detector, events, reported, now, calls, faults, log>>

\* Time passes while the supervisor waits. Of the call only its kind (the
\* system call's number) is known before the memory is read.
Receive(t) ==
  /\ parent = "supervising" /\ cur = Nothing /\ requests > 0
  /\ asking[t] # Nothing /\ asking[t].fresh
  /\ requests' = requests - 1
  /\ asking' = [asking EXCEPT ![t].fresh = FALSE]
  /\ now' \in now..MaxTime
  /\ cur' = [id |-> asking[t].id, task |-> t, call |-> asking[t].call, at |-> now', answer |-> "none"]
  /\ UNCHANGED <<config, child, live, parent, detector, events, reported, calls, faults, log>>

\* Woken for a notification that is gone, or nobody is left and the kernel says
\* so: seccomp_unotify(2) has the receive block for ever then (BUGS).
NoneToReceive ==
  /\ parent = "supervising" /\ cur = Nothing
  /\ \A t \in Tasks : asking[t] # Nothing => ~asking[t].fresh
  /\ requests > 0 \/ (hangup /\ live = {})
  /\ requests' = IF requests > 0 THEN requests - 1 ELSE 0

\* Mutated: ENOENT is taken for an interruption and the loop goes on.
ReceiveNothing_Retries ==
  /\ NoneToReceive
  /\ UNCHANGED <<config, child, live, asking, parent, cur, detector, events, reported, now, calls, faults, log>>

\* ENOENT ends the supervision.
ReceiveNothing ==
  /\ NoneToReceive
  /\ parent' = "reaping"
  /\ UNCHANGED <<config, child, live, asking, cur, detector, events, reported, now, calls, faults, log>>

decide(d) == IF d \in Allowed \cup {Local, Unread} THEN "continue" ELSE "eperm"

\* Mutated: every completed pair is reported.
Completes_EveryTime(t, at) == secrets[t] # Never /\ at - secrets[t] <= Window

Completes(t, at) == t \notin fired /\ secrets[t] # Never /\ at - secrets[t] <= Window

\* The detector sees an egress that was parsed; only an unlisted one completes.
observe_egress(d) ==
  LET hit == detect /\ d \in Hosts \ Allowed /\ Completes(cur.task, cur.at)
  IN  /\ fired' = IF hit THEN fired \cup {cur.task} ELSE fired
      /\ chains' = IF hit THEN Append(chains, [pid |-> cur.task, dest |-> d]) ELSE chains

Captured(d) == IF d \in Hosts \ Allowed THEN Append(blocked, [pid |-> cur.task, dest |-> d]) ELSE blocked

\* Mutated: without the detector connections are only observed.
OnConnect_DetectOnly(d) ==
  /\ cur' = [cur EXCEPT !.call = d, !.answer = IF detect THEN decide(d) ELSE "continue"]
  /\ blocked' = Captured(d)
  /\ observe_egress(d)
  /\ UNCHANGED secrets

OnConnect(d) ==
  /\ cur' = [cur EXCEPT !.call = d, !.answer = decide(d)]
  /\ blocked' = Captured(d)
  /\ observe_egress(d)
  /\ UNCHANGED secrets

OnOpenat(p) ==
  /\ cur' = [cur EXCEPT !.call = p, !.answer = "continue"]
  /\ secrets' = IF p = "secret" THEN [secrets EXCEPT ![cur.task] = cur.at] ELSE secrets
  /\ UNCHANGED <<fired, events>>

Examining == parent = "supervising" /\ cur # Nothing /\ cur.answer = "none"

\* The memory as it is when it is read.
Memory == asking[cur.task].call

Seen == IF detect /\ Memory \in {"secret"} \cup (Hosts \ Allowed)
        THEN [log EXCEPT !.seen = Append(@, [pid |-> cur.task, call |-> Memory, at |-> cur.at])] ELSE log

On(c) == IF c \in Connects THEN OnConnect(c) ELSE OnOpenat(c)

\* Mutated: the notification is used although its thread is gone; the memory
\* read is that of whoever has the thread's id now.
Examine_Stale ==
  /\ Examining
  /\ \/ Valid /\ On(Memory) /\ log' = Seen
     \/ ~Valid /\ log' = log /\ \E c \in IF cur.call \in Connects THEN Hosts ELSE Opens : On(c)
  /\ UNCHANGED <<config, kernel, parent, reported, now, calls, faults>>

\* Mutated: a notification that is gone ends the supervision.
Examine_Leaves ==
  /\ Examining
  /\ IF Valid THEN On(Memory) /\ log' = Seen /\ UNCHANGED parent
              ELSE cur' = Nothing /\ parent' = "reaping" /\ UNCHANGED <<detector, events, log>>
  /\ UNCHANGED <<config, kernel, reported, now, calls, faults>>

\* What was read counts only while the notification stands.
Examine ==
  /\ Examining
  /\ IF Valid THEN On(Memory) /\ log' = Seen
              ELSE cur' = Nothing /\ UNCHANGED <<detector, events, log>>
  /\ UNCHANGED <<config, kernel, parent, reported, now, calls, faults>>

\* The thread's memory cannot be read: no destination, no path.
ExamineUnread ==
  /\ Examining /\ Valid /\ faults < MaxFaults
  /\ faults' = faults + 1
  /\ cur' = [cur EXCEPT !.answer = decide(Unread)]
  /\ log' = [log EXCEPT !.unread = @ \cup {cur.id}]
  /\ UNCHANGED <<config, kernel, parent, detector, events, reported, now, calls>>

\* The kernel resumes the thread the answer belongs to, and a call that
\* continues reads the memory again; ENOENT when the thread is gone.
Answer ==
  /\ parent = "supervising" /\ Examined
  /\ cur' = Nothing
  /\ IF Valid
     THEN /\ asking' = [asking EXCEPT ![cur.task] = Nothing]
          /\ log' = CASE cur.answer = "eperm" -> [log EXCEPT !.refused = Append(@, [pid |-> cur.task, dest |-> cur.call])]
                      [] cur.answer = "continue" /\ Memory \in Hosts ->
                           [log EXCEPT !.reached = @ \cup {[id |-> cur.id, dest |-> Memory]}]
                      [] OTHER -> log
     ELSE UNCHANGED <<asking, log>>
  /\ UNCHANGED <<config, child, live, requests, parent, detector, events, reported, now, calls, faults>>

\* Any other error of an ioctl ends the run with the child left as it is.
SuperviseFails ==
  /\ parent = "supervising" /\ faults < MaxFaults
  /\ faults' = faults + 1 /\ parent' = "failed" /\ cur' = Nothing /\ Closed
  /\ UNCHANGED <<config, child, live, requests, detector, events, reported, now, calls, log>>

reap ==
  /\ parent = "reaping" /\ Main \notin live
  /\ parent' = "reporting" /\ Closed
  /\ UNCHANGED <<config, child, live, requests, cur, detector, events, reported, now, calls, faults, log>>

ToReport == reported < Len(blocked) + Len(chains)

\* Blocked egresses first, then chains; a report that fails is only logged. It
\* has no deadline: an engine that never answers holds the parent here.
report ==
  /\ parent = "reporting" /\ ToReport
  /\ reported' = reported + 1
  /\ UNCHANGED <<config, kernel, parent, cur, detector, events, now, calls, faults, log>>

finish ==
  /\ parent = "reporting" /\ ~ToReport
  /\ parent' = "done"
  /\ UNCHANGED <<config, kernel, cur, detector, events, reported, now, calls, faults, log>>

Next ==
  \/ child_main \/ \E t \in Tasks, c \in Calls : Call(t, c) \/ Swap(t, c)
  \/ \E t \in Tasks : Fork(t) \/ Exit(t) \/ Interrupt(t)
  \/ recv_fd \/ (\E t \in Tasks : Receive(t)) \/ ReceiveNothing
  \/ Examine \/ ExamineUnread \/ Answer \/ SuperviseFails \/ reap \/ report \/ finish

Spec == Init /\ [][Next]_vars

\* The parent is scheduled; nothing is asked of the command it runs, nor of the
\* engine it reports to.
FairSpec ==
  /\ Spec
  /\ WF_vars(child_main) /\ WF_vars(recv_fd)
  /\ WF_vars((\E t \in Tasks : Receive(t)) \/ ReceiveNothing)
  /\ WF_vars(Examine) /\ WF_vars(Answer) /\ WF_vars(reap) /\ WF_vars(finish)

(* --- properties ------------------------------------------------------ *)

(* A call reaches a destination that is neither loopback nor on the        *)
(* allowlist only when its address could not be read or when another       *)
(* thread rewrote it after it was examined and before the kernel went on   *)
(* (seccomp.rs:286-299; README.md:46-49 of the sandbox).                   *)
NothingSlipsOut == \A r \in log.reached : r.dest \in Allowed \/ r.id \in log.unread \cup log.swapped

CountOf(s, x) == Cardinality({i \in DOMAIN s : s[i] = x})

(* The blocked egresses account for the refusals: a thread is named only   *)
(* for a destination one of its calls pointed to, also when addresses are  *)
(* rewritten, thread ids are reused and threads die in between, and no     *)
(* refusal is missing.                                                     *)
BlockedAccounts ==
  /\ ToSet(blocked) \subseteq log.tried
  /\ \A x \in ToSet(log.refused) : CountOf(log.refused, x) <= CountOf(blocked, x)

\* Reference: the first unlisted egress that follows a read by the same thread
\* id within the window.
Qualifies(s, i) ==
  /\ s[i].call \in Hosts \ Allowed
  /\ \E j \in 1..(i - 1) : s[j].pid = s[i].pid /\ s[j].call = "secret" /\ s[i].at - s[j].at <= Window
Firsts(s) == {i \in DOMAIN s : Qualifies(s, i) /\ \A j \in 1..(i - 1) : s[j].pid = s[i].pid => ~Qualifies(s, j)}

(* A chain is reported for exactly the first egress of each thread id that *)
(* completes one, however reads, attempts and time interleave.             *)
ChainsAreTheFirst ==
  LET s == log.seen
  IN  IF detect
      THEN /\ Len(chains) = Cardinality(Firsts(s))
           /\ ToSet(chains) = {[pid |-> s[i].pid, dest |-> s[i].call] : i \in Firsts(s)}
      ELSE chains = <<>>

(* A thread that waits for an answer gets one, unless a notification       *)
(* vanished before it was received: then the supervisor may have left.     *)
CallsAreAnswered == \A t \in Tasks : asking[t] # Nothing ~> asking[t] = Nothing \/ log.vanished

(* When every thread has exited the run ends or has come to a report the   *)
(* engine does not answer, unless the child failed before it handed over   *)
(* the listener (the parent waits for ever) or the kernel does not end a   *)
(* receive when nobody is left (the supervisor waits for ever).            *)
RunEnds ==
  live = {} ~> \/ parent \in {"failed", "done"} \/ child = "failed"
               \/ parent = "reporting" /\ ToReport
               \/ parent = "supervising" /\ ~hangup
=============================================================================
