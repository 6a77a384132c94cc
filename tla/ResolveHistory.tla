--------------------------- MODULE ResolveHistory ---------------------------
(***************************************************************************)
(* ResolveEngine with a history of facts: what has been true of this       *)
(* version, without interruption, since a request began, and since the     *)
(* request began whose verdict is in the cache.  A request may miss what   *)
(* changed while it ran; it may not miss what held all along.              *)
(***************************************************************************)
EXTENDS ResolveEngine

VARIABLES
  since,       \* facts that held since the request began (event: since it was recorded)
  cacheSince   \* the same for the request that set the cached verdict

hvars == <<vars, since, cacheSince>>

Fact == {"listed", "advisory", "flagged", "unapproved"}

Facts ==
  {f \in Fact :
     \/ f = "listed" /\ listed
     \/ f = "advisory" /\ Has(signals, "advisory_match")
     \/ f = "flagged" /\ ChainPositive(signals)
     \/ /\ f = "unapproved"
        /\ \A a \in Approvals : approvals[a].status # "active" \/ approvals[a].expires <= now}

HInit == Init /\ since = [t \in Tasks |-> {}] /\ cacheSince = {}

Record ==
  /\ since' = [t \in Tasks |->
       IF task'[t].pc = "idle" THEN {}
       ELSE IF task[t].pc = "idle" \/ (task[t].pc = "append" /\ task'[t].pc = "drop") THEN Facts'
       ELSE since[t] \cap Facts']
  /\ cacheSince' =
       IF cache' = NoVerdict THEN {}
       ELSE IF \E t \in Tasks : task[t].pc = "set" /\ task'[t].pc = "done"
       THEN since[CHOOSE t \in Tasks : task[t].pc = "set" /\ task'[t].pc = "done"]
       ELSE cacheSince \cap Facts'

HNext == Next /\ Record

HSpec == HInit /\ [][HNext]_hvars

-----------------------------------------------------------------------------
\* What a verdict owes to facts that held all along.
Respects(v, facts) ==
  /\ {"listed", "advisory"} \cap facts # {} => v.verdict = "DENY"
  /\ "flagged" \in facts => v.verdict # "ALLOW" \/ "approved_exception" \in v.reasons
  /\ "unapproved" \in facts => "approved_exception" \notin v.reasons

(* A verdict a request computes reflects every listing, advisory and       *)
(* signal that was there during the whole request, and uses no approval    *)
(* that was not, however its reads interleave with extractions, reports    *)
(* and operators.                                                          *)
ComputedRespectsFacts ==
  \A t \in Tasks : task[t].pc \in {"approval", "upsert", "set"} => Respects(task[t].out, since[t])

(* A cached verdict contradicts only facts younger than the request that   *)
(* computed it.                                                            *)
CachedRespectsFacts ==
  cache # NoVerdict => Respects(cache.verdict, cacheSince)

-----------------------------------------------------------------------------
(* What a comment of engine_svc.rs promises and the code does not keep:    *)
(* re-resolve so the caller learns the post-event verdict.  Here: an event *)
(* whose signal is still recorded is not answered ALLOW.                   *)
ReporterLearnsPostEventVerdict ==
  \A t \in Tasks :
    At(t, "done") /\ task[t].kind = "event" /\ "flagged" \in since[t]
    => task[t].out.verdict # "ALLOW" \/ "approved_exception" \in task[t].out.reasons
=============================================================================
