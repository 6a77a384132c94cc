------------------------------ MODULE MCTables ------------------------------
(***************************************************************************)
(* The watchlist with its tracker, the policies table, the admin API's     *)
(* keys and the audit log of one handler on small instances: a behaviour   *)
(* exercises one of the four, which share nothing here.                    *)
(***************************************************************************)
EXTENDS Watchlist, PolicyStore, Tokens, AuditChain

VARIABLE about   \* the part that moves

TableVars == <<about, vars, pvars, tvars, auditVars>>

TablesInit ==
  /\ about \in {"watchlist", "policies", "tokens", "audit"}
  /\ Init /\ PolicyInit /\ TokensInit /\ AuditInit

\* Only the part in question moves.
Moving(part) ==
  /\ about = part /\ about' = about
  /\ part # "watchlist" => UNCHANGED vars
  /\ part # "policies" => UNCHANGED pvars
  /\ part # "tokens" => UNCHANGED tvars
  /\ part # "audit" => UNCHANGED auditVars

Tracks == Moving("watchlist") /\ run_pass
Extracts == Moving("watchlist") /\ track_one
Marks == Moving("watchlist") /\ mark_checked

TablesNext ==
  \/ \E n \in Names, kind \in Whats : Moving("watchlist") /\ add_watchlist(n, kind)
  \/ \E n \in Names : Moving("watchlist") /\ update_watchlist(n)
  \/ \E n \in Names : Moving("watchlist") /\ delete_watchlist(n)
  \/ \E n \in Names : Moving("watchlist") /\ Elapse(n) /\ UNCHANGED tracked
  \/ Tracks \/ Extracts \/ Marks
  \/ Moving("watchlist") /\ Stop
  \/ \E e \in Engines : Moving("policies") /\ Look(e)
  \/ \E c \in Callers : Moving("policies") /\ Begin(c)
  \/ \E c \in Callers : Moving("policies") /\ Snapshot(c)
  \/ \E c \in Callers : Moving("policies") /\ Update(c)
  \/ \E c \in Callers : Moving("policies") /\ Commit(c)
  \/ \E c \in Callers : Moving("policies") /\ Rollback(c)
  \/ \E c \in Callers : Moving("policies") /\ AppendAudit(c)
  \/ \E e \in Entry : Moving("tokens") /\ Publish(e)
  \/ Moving("tokens") /\ Withdraw
  \/ Moving("tokens") /\ EngineStarts
  \/ Moving("tokens") /\ EngineStops
  \/ Moving("tokens") /\ Respond
  \/ \E t \in Token, h \in {"responder"} : Moving("tokens") /\ from_request_parts(t, h)
  \/ \E w \in Writers, e \in Entries : Moving("audit") /\ Start(w, e)
  \/ \E w \in Writers : Moving("audit") /\ Progress(w)
  \/ \E w \in Writers : Moving("audit") /\ WriteFails(w)

\* The worker ticks for ever, and the calls of an extraction have timeouts.
TablesSpec ==
  /\ TablesInit /\ [][TablesNext]_TableVars
  /\ WF_TableVars(Tracks) /\ WF_TableVars(Extracts) /\ WF_TableVars(Marks)

KindsOfTargets == {"package", "scope"}
AnyKid == {"", "k1"}
=============================================================================
