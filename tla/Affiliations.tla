---------------------------- MODULE Affiliations ----------------------------
(***************************************************************************)
(* query_muc_affiliation of xmpp/affiliations.py: an IQ with a timeout,    *)
(* asked again after a delay while the error is transient by the caller's  *)
(* policy.  A timeout ends the wait, not the request: the server answers   *)
(* late, and that answer is nobody's.                                      *)
(***************************************************************************)
EXTENDS Naturals, Sequences

CONSTANTS
    Conditions,   \* IQ error conditions
    Transient,    \* policy.transient_conditions
    Usual,        \* _DEFAULT_TRANSIENT_CONDITIONS
    MaxQueries    \* policy.attempts

ASSUME AffiliationAssumption ==
    /\ Transient \cup Usual \subseteq Conditions
    /\ "timeout" \notin Conditions /\ "error" \notin Conditions
    /\ MaxQueries \in Nat \ {0}

VARIABLES
    query,    \* the call: where it is, its attempt and what each has come to
    answers   \* external: per attempt, what the server has answered

affiliationVars == <<query, answers>>

QueryEnds == {"ok", "failed", "cancelled"}

\* Fault: the usual conditions decide.
RetryableUsually(kind) == kind = "timeout" \/ kind \in Usual

\* A timeout, or a condition of the policy
Retryable(kind) == kind = "timeout" \/ kind \in Transient

ServerAnswers(n) ==
    /\ n <= query.attempt /\ answers[n] = "none"
    /\ \E answer \in Conditions \cup {"items", "error"} : answers' = [answers EXCEPT ![n] = answer]
    /\ UNCHANGED query

\* The attempt has failed, as _exception_kind says.
AttemptFails(kind) ==
    /\ query' = [query EXCEPT
         !.came = Append(@, kind),
         !.at = IF ~Retryable(kind) \/ query.attempt = MaxQueries THEN "failed" ELSE "pausing"]
    /\ UNCHANGED answers

RequestEnds ==
    /\ query.at = "asking"
    /\ \/ /\ answers[query.attempt] = "items"
          /\ query' = [query EXCEPT !.at = "ok", !.came = Append(@, "items")]
          /\ UNCHANGED answers
       \/ /\ answers[query.attempt] \notin {"none", "items"}
          /\ AttemptFails(answers[query.attempt])
       \/ answers[query.attempt] = "none" /\ AttemptFails("timeout")

AskAgain ==
    /\ query.at = "pausing"
    /\ query' = [query EXCEPT !.at = "asking", !.attempt = @ + 1]
    /\ UNCHANGED answers

CancelQuery ==
    /\ query.at \in {"asking", "pausing"}
    /\ query' = [query EXCEPT !.at = "cancelled"]
    /\ UNCHANGED answers

AffiliationInit ==
    /\ query = [at |-> "asking", attempt |-> 1, came |-> <<>>]
    /\ answers = [n \in 1..MaxQueries |-> "none"]

AffiliationNext ==
    \/ RequestEnds \/ AskAgain \/ CancelQuery
    \/ \E n \in 1..MaxQueries : ServerAnswers(n)

AffiliationSpec == AffiliationInit /\ [][AffiliationNext]_affiliationVars

-----------------------------------------------------------------------------
(***************************************************************************)
(* Properties.                                                             *)
(***************************************************************************)
\* A query that fails has either used up its attempts or met an error that
\* the caller's policy does not call transient, and it has met no such error
\* before; what it returns as items, the server answered in that attempt, not
\* late to an earlier one.
QueriesAsThePolicySays ==
    /\ query.at = "ok" => answers[query.attempt] = "items"
    /\ \A i \in DOMAIN query.came :
          LET kind == query.came[i]
              transient == kind = "timeout" \/ kind \in Transient
          IN  /\ i < query.attempt => transient
              /\ query.at = "failed" /\ i = Len(query.came) => ~transient \/ i = MaxQueries
    /\ query.at \in {"ok", "failed"} => Len(query.came) = query.attempt
=============================================================================
