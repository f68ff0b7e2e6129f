------------------------------ MODULE ApiTokens ------------------------------
(***************************************************************************)
(* Refresh tokens of one account of the API, staff or candidate: a token   *)
(* is exchanged for a new one and is recorded as revoked.  The tokens are  *)
(* signed and kept by the client; only the revoked ones are rows.          *)
(***************************************************************************)
EXTENDS Integers, Sequences

CONSTANTS
  Requests,
  MaxTokens  \* bound

ApiTokensAssumption == MaxTokens \in Nat

VARIABLES
  allowed,  \* the account is active, and its network and organization are let in
  tokens,   \* tokens issued, each with the number issued in exchange for it
  requests  \* what each request does next

vars == <<allowed, tokens, requests>>

Token    == [revoked : BOOLEAN, successors : Nat]
Request  == [next : {"idle", "revoke", "answer"}, token : 0 .. MaxTokens]
Idle     == [next |-> "idle", token |-> 0]
NewToken == [revoked |-> FALSE, successors |-> 0]

TypeOK ==
  /\ allowed \in BOOLEAN
  /\ tokens \in Seq(Token)
  /\ requests \in [Requests -> Request]
  /\ \A r \in Requests : requests[r].token <= Len(tokens)

Init ==
  allowed = TRUE /\ tokens = <<>> /\ requests = [r \in Requests |-> Idle]

\* login
login ==
  /\ allowed /\ Len(tokens) < MaxTokens
  /\ tokens' = Append(tokens, NewToken)
  /\ UNCHANGED <<allowed, requests>>

\* refresh, candidate_refresh: the token has not been used and the account is in order
refresh(r, t) ==
  /\ requests[r] = Idle /\ allowed /\ ~tokens[t].revoked
  /\ requests' = [requests EXCEPT ![r] = [next |-> "revoke", token |-> t]]
  /\ UNCHANGED <<allowed, tokens>>

\* Mutant: jti is not unique.
NoKey(t) == t \in DOMAIN tokens

\* revoked_tokens.jti is unique
KeyFree(t) == ~tokens[t].revoked

Revoke(r) ==
  LET t == requests[r].token IN
  /\ requests[r].next = "revoke" /\ KeyFree(t)
  /\ tokens' = [tokens EXCEPT ![t].revoked = TRUE]
  /\ requests' = [requests EXCEPT ![r].next = "answer"]
  /\ UNCHANGED allowed

\* IntegrityError, or the worker is killed
Drop(r) ==
  /\ requests[r] # Idle
  /\ requests' = [requests EXCEPT ![r] = Idle]
  /\ UNCHANGED <<allowed, tokens>>

Answer(r) ==
  LET t == requests[r].token IN
  /\ requests[r].next = "answer" /\ Len(tokens) < MaxTokens
  /\ tokens' = Append([tokens EXCEPT ![t].successors = @ + 1], NewToken)
  /\ requests' = [requests EXCEPT ![r] = Idle]
  /\ UNCHANGED allowed

\* Deactivated, deleted, suspended, moved to another network; or let in again
Change == allowed' = ~allowed /\ UNCHANGED <<tokens, requests>>

Next ==
  \/ login \/ Change
  \/ \E r \in Requests : Revoke(r) \/ Drop(r) \/ Answer(r)
  \/ \E r \in Requests : \E t \in DOMAIN tokens : refresh(r, t)

Spec == Init /\ [][Next]_vars

\* A refresh token "works only once": a login is followed by one chain of tokens,
\* however many requests send the same token at the same time.
RefreshedOnce ==
  \A t \in DOMAIN tokens :
    /\ tokens[t].successors <= 1
    /\ tokens[t].successors = 1 => tokens[t].revoked

\* The invariant behind it: who is to answer with a new token has revoked the old one,
\* alone
IInv ==
  /\ TypeOK /\ Len(tokens) <= MaxTokens
  /\ RefreshedOnce
  /\ \A r \in Requests : requests[r].next # "idle" => requests[r].token \in DOMAIN tokens
  /\ \A r \in Requests : requests[r].next = "answer" =>
       /\ tokens[requests[r].token].revoked /\ tokens[requests[r].token].successors = 0
       /\ \A q \in Requests \ {r} : requests[q].next = "answer" => requests[q].token # requests[r].token
==============================================================================
