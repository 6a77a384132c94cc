------------------------------- MODULE Tokens -------------------------------
(***************************************************************************)
(* Who may use the admin API (auth.rs): the engine loads the signing keys  *)
(* of the identity provider once, when it starts, while the provider       *)
(* rotates them, and judges every request by what it loaded.               *)
(***************************************************************************)
EXTENDS Naturals, Sequences

CONSTANTS
  Kids,         \* key ids, "" for an entry of a JWKS without one
  NoKid,        \* the kid of a token without one
  KeyPairs,     \* signing keys
  Roles,        \* role strings a token may claim
  admin_roles, responder_roles,
  MaxKeys       \* bound on the length of the published document

ASSUME RolesAssumption == admin_roles \subseteq Roles /\ responder_roles \subseteq Roles
ASSUME KidsAssumption == NoKid \notin Kids

VARIABLES
  jwks,    \* the published document
  auth,    \* AuthState of the running engine, NoEngine while it is down
  loaded,  \* history: the document this engine loaded
  answer   \* the request at hand and what became of it

tvars == <<jwks, auth, loaded, answer>>

Entry == [kid : Kids, key : KeyPairs, rsa : BOOLEAN]

\* intact: well formed, not expired, from the right issuer for the right audience.
Token == [kid : Kids \cup {NoKid}, key : KeyPairs, roles : SUBSET Roles, intact : BOOLEAN]

NoEngine == [mode |-> "down"]
NoAnswer == [ok |-> FALSE]   \* no request since the last response

TokensInit ==
  jwks = <<>> /\ auth = NoEngine /\ loaded = <<>> /\ answer = NoAnswer

-----------------------------------------------------------------------------
(* The identity provider.                                                  *)

Publish(e) ==
  /\ Len(jwks) < MaxKeys
  /\ \A i \in DOMAIN jwks : jwks[i].key # e.key
  /\ jwks' = Append(jwks, e)
  /\ UNCHANGED <<auth, loaded, answer>>

Withdraw ==
  /\ jwks # <<>>
  /\ jwks' = Tail(jwks)
  /\ UNCHANGED <<auth, loaded, answer>>

-----------------------------------------------------------------------------
(* The engine.                                                             *)

Usable(doc) == {i \in DOMAIN doc : doc[i].rsa}

\* kid to key: entries that are no RSA key are skipped, a later entry replaces an
\* earlier one of its kid.
parse_jwks(doc) ==
  [kid \in {doc[i].kid : i \in Usable(doc)} |->
     doc[CHOOSE i \in Usable(doc) : doc[i].kid = kid /\ \A j \in Usable(doc) : doc[j].kid = kid => j <= i].key]

\* Mutated: without keys the engine starts in the open mode.
build_FailsOpen(mode) ==
  /\ auth' = [mode |-> IF mode = "oidc" /\ Usable(jwks) = {} THEN "disabled" ELSE mode,
              keys |-> IF mode = "oidc" THEN parse_jwks(jwks) ELSE <<>>, asked |-> mode]
  /\ loaded' = IF mode = "oidc" THEN jwks ELSE <<>>

\* With oidc and no usable key, or an unreachable provider, the engine does not start.
build(mode) ==
  /\ mode = "oidc" => Usable(jwks) # {}
  /\ auth' = [mode |-> mode, keys |-> IF mode = "oidc" THEN parse_jwks(jwks) ELSE <<>>, asked |-> mode]
  /\ loaded' = IF mode = "oidc" THEN jwks ELSE <<>>

EngineStarts ==
  /\ auth = NoEngine
  /\ \E mode \in {"oidc", "dev", "disabled"} : build(mode)
  /\ UNCHANGED <<jwks, answer>>

EngineStops ==
  /\ auth # NoEngine /\ auth' = NoEngine /\ loaded' = <<>> /\ answer' = NoAnswer
  /\ UNCHANGED jwks

role_for(claims) ==
  IF claims \cap admin_roles # {} THEN "admin"
  ELSE IF claims \cap responder_roles # {} THEN "responder" ELSE "viewer"

\* Mutated: any of the loaded keys is tried, whatever kid the token names.
Candidates_Any(t) == {auth.keys[kid] : kid \in DOMAIN auth.keys}

\* The keys a token may be verified with: the one its kid names, else (it has none,
\* or none that is loaded) whichever the map yields first.
Candidates(t) ==
  IF t.kid \in DOMAIN auth.keys THEN {auth.keys[t.kid]} ELSE {auth.keys[kid] : kid \in DOMAIN auth.keys}

verify_token(t) ==
  \E key \in Candidates(t) :
    answer' = IF t.key = key /\ t.intact
              THEN [ok |-> TRUE, token |-> t, role |-> role_for(t.roles)]
              ELSE [ok |-> FALSE, token |-> t]

\* A request is judged by its token, by its header, or not at all.
from_request_parts(t, header) ==
  /\ auth # NoEngine /\ answer = NoAnswer
  /\ \/ auth.mode = "oidc" /\ verify_token(t)
     \/ auth.mode = "dev" /\ answer' = [ok |-> TRUE, role |-> header]
     \/ auth.mode = "disabled" /\ answer' = [ok |-> TRUE, role |-> "admin"]
  /\ UNCHANGED <<jwks, auth, loaded>>

\* The response goes out: nothing of a request stays.
Respond ==
  /\ answer # NoAnswer /\ answer' = NoAnswer
  /\ UNCHANGED <<jwks, auth, loaded>>

TokensNext ==
  \/ \E e \in Entry : Publish(e)
  \/ Withdraw \/ EngineStarts \/ EngineStops \/ Respond
  \/ \E t \in Token, header \in {"viewer", "responder", "admin"} : from_request_parts(t, header)

-----------------------------------------------------------------------------
Judged == auth # NoEngine /\ auth.asked = "oidc" /\ answer # NoAnswer

(* An engine asked for oidc lets nobody in without an intact token that a  *)
(* key of the document it loaded signed, whatever was withdrawn, doubled   *)
(* or empty in that document (build, verify_token).                        *)
OnlySignersEnter ==
  Judged /\ answer.ok =>
    /\ "token" \in DOMAIN answer /\ answer.token.intact
    /\ \E i \in Usable(loaded) : loaded[i].key = answer.token.key

(* A holder of an intact token is not turned away by chance: not if its    *)
(* kid names one usable entry of the loaded document and that entry signed *)
(* it, nor, whatever its kid, if the document had a single usable key; and *)
(* the most privileged of its roles counts (verify_token, role_for).       *)
HoldersEnter ==
  Judged /\ "token" \in DOMAIN answer /\ answer.token.intact =>
    LET t == answer.token
        named == {i \in Usable(loaded) : loaded[i].kid = t.kid}
        signers == {i \in Usable(loaded) : loaded[i].key = t.key}
    IN  /\ named = signers /\ signers # {} => answer.ok
        /\ Usable(loaded) = signers /\ signers # {} => answer.ok
        /\ answer.ok /\ t.roles \cap admin_roles # {} => answer.role = "admin"
=============================================================================
