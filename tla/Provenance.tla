----------------------------- MODULE Provenance -----------------------------
(***************************************************************************)
(* The provenance check (provenance/sigstore.rs): an attestation counts    *)
(* when its leaf certificate signed it, chains by signatures to a trust    *)
(* anchor and names an accepted issuer, if any are configured, and the     *)
(* declared repository, if the package declares one.  Signatures are a     *)
(* relation between certificates; the certificates that a bundle presents  *)
(* are numbered from the leaf, 1.                                          *)
(***************************************************************************)
EXTENDS Integers, Sequences

CONSTANTS
  Presented,   \* how many certificates the bundle presents
  Anchors,     \* certificates of the trust root; a presented one may be among them
  Steps,       \* the bound of the walk (8 in the code)
  Attestations, \* the kinds of attestation tried
  MaxAttestations

\* What may be wrong with an attestation: it is no provenance, its envelope, its
\* signature or the identity in its leaf is broken, or the identity is not the one asked for.
Flaw == {"other", "broken", "issuer", "repo"}

ASSUME AttestationsAssumption == Attestations \subseteq SUBSET Flaw
ASSUME WalkAssumption == Presented \in Nat \ {0} /\ Steps \in Nat \ {0} /\ 0 \notin Anchors

VARIABLES
  signed,      \* which certificate signed which: the pairs <<issuer, subject>>
  configured,  \* whether a trust root is configured
  compared,    \* what identities are compared with: accepted issuers, a declared repository
  atts         \* the attestations of the response, each as what is wrong with it

Certs == 1..Presented
Issuers == Certs \cup Anchors

ChainInit ==
  signed = {} /\ configured \in BOOLEAN /\ compared \in SUBSET {"issuer", "repo"} /\ atts = <<>>

Sign(i, s) == i # s /\ <<i, s>> \notin signed /\ signed' = signed \cup {<<i, s>>} /\ UNCHANGED <<configured, compared, atts>>
Present(f) == Len(atts) < MaxAttestations /\ atts' = Append(atts, f) /\ UNCHANGED <<configured, compared, signed>>

ChainNext == (\E i \in Issuers, s \in Certs : Sign(i, s)) \/ (\E f \in Attestations : Present(f))

AtAnchor(c) == c \in Anchors \/ \E a \in Anchors : <<a, c>> \in signed

\* Mutated: the certificates are taken to be in order, without checking the link.
NextLink_InOrder(c) == IF c < Presented THEN c + 1 ELSE 0

\* The other presented certificates that signed c.
Up(c) == {d \in Certs : d # c /\ <<d, c>> \in signed}

\* The first of them, or 0.
NextLink(c) == IF Up(c) = {} THEN 0 ELSE CHOOSE d \in Up(c) : \A e \in Up(c) : d <= e

\* One step of the walk; 0 is nowhere.
Follow(c) == IF c = 0 \/ AtAnchor(c) THEN c ELSE NextLink(c)

\* Mutated: one step short.
chain_trusted_ShortWalk ==
  LET at[k \in 0..(Steps - 1)] == IF k = 0 THEN 1 ELSE Follow(at[k - 1])
  IN  Steps >= 2 /\ at[Steps - 2] # 0 /\ AtAnchor(at[Steps - 2])

\* The walk looks for an anchor Steps times, each time but the last from the next link.
chain_trusted ==
  LET at[k \in 0..(Steps - 1)] == IF k = 0 THEN 1 ELSE Follow(at[k - 1])
  IN  at[Steps - 1] # 0 /\ AtAnchor(at[Steps - 1])

\* Mutated: the declared repository is not compared.
verify_one_AnyRepo(f) ==
  IF "other" \in f THEN "skip"
  ELSE IF "broken" \notin f /\ chain_trusted /\ f \cap (compared \ {"repo"}) = {} THEN "verified" ELSE "error"

\* The signature, the chain, then the issuer and the repository as far as there is
\* something to compare them with.
verify_one(f) ==
  IF "other" \in f THEN "skip"
  ELSE IF "broken" \notin f /\ chain_trusted /\ f \cap compared = {} THEN "verified" ELSE "error"

\* Without a trust root nothing is verified; otherwise the first decisive result.
verify_attestations ==
  IF configured /\ \E i \in DOMAIN atts : verify_one(atts[i]) = "verified" THEN "verified" ELSE "invalid"

-----------------------------------------------------------------------------
\* Reference: the presented certificates reached from the leaf by signatures, the
\* least set that holds the leaf and every presented issuer of its members.
Closed(S) == 1 \in S /\ \A c \in S, d \in Certs : <<d, c>> \in signed => d \in S
Reached == {c \in Certs : \A S \in SUBSET Certs : Closed(S) => c \in S}

\* Nothing is wrong with an attestation as far as it can be told.
Sound(f) == f \cap ({"other", "broken"} \cup compared) = {}

(* A version is verified only by one attestation that is sound, by an      *)
(* accepted issuer if some are configured and for the declared repository  *)
(* if one is declared, whose leaf a path of signatures connects with an    *)
(* anchor, in whatever order the certificates are presented, circles among *)
(* them included.                                                          *)
VerifiedIsBound ==
  verify_attestations = "verified" =>
    configured /\ (\E i \in DOMAIN atts : Sound(atts[i])) /\ (\E c \in Reached : AtAnchor(c))

\* Reference: every way up from the leaf comes to an anchor: none of the certificates
\* on it that are not at one is a dead end, and they form no circle.
EveryWayUp ==
  \A S \in SUBSET {c \in Reached : ~AtAnchor(c)} : S # {} => \E c \in S : Up(c) # {} /\ Up(c) \cap S = {}

(* A sound attestation is refused only for a certificate among those that  *)
(* lead up from its leaf that is a dead end or on a circle (the walk takes *)
(* the first issuer and never goes back): however many paths there are, in *)
(* whatever order, they are found if each leads to an anchor and the walk  *)
(* is as long as the bundle (sigstore.rs:260-287).                         *)
SoundPathIsFound ==
  /\ configured /\ Presented <= Steps /\ EveryWayUp
  /\ \E i \in DOMAIN atts : Sound(atts[i])
  => verify_attestations = "verified"
=============================================================================
