--------------------------- MODULE OmemoTransport ---------------------------
(***************************************************************************)
(* One incoming and one outgoing stanza of xmpp/omemo/transport.py:        *)
(* decrypt_incoming_message with its wait for the OMEMO session, and       *)
(* encrypt_and_send, which leaves out the recipients that an error names   *)
(* and tries again.  The plugin is external: inspection, decryption,       *)
(* encryption and sending may all fail, and encryption may leave some of   *)
(* the recipients or namespaces out with errors that the code drops.       *)
(* Recipients are bare JIDs.                                               *)
(***************************************************************************)
EXTENDS Naturals, FiniteSets

CONSTANTS
    Recipients,  \* of the outgoing stanza
    Namespaces   \* an encrypted stanza is sent for each

\* A call without recipients raises at once and is left out.
ASSUME TransportAssumption ==
    IsFiniteSet(Recipients) /\ Recipients # {} /\ IsFiniteSet(Namespaces)

VARIABLES
    inbound,   \* the incoming stanza and the options of the call
    ready,     \* external: ready_event
    outbound,  \* the call that sends: recipients left, attempts, the stanzas made
               \* for whom, and the namespaces whose stanza was sent
    wire       \* history: who each namespace's last stanza was encrypted for

transportVars == <<inbound, ready, outbound, wire>>

Receives(end, result) == inbound' = [inbound EXCEPT !.at = end, !.result = result]

\* decrypt_incoming_message up to its first await
Inspect ==
    /\ inbound.at = "called"
    /\ \/ ~inbound.payload /\ Receives("ended", "original")
       \* OMEMO is off or being reset, or is_encrypted fails or denies it.
       \/ inbound.payload /\ Receives("ended", "rejected")
       \/ /\ inbound.payload /\ inbound.enabled /\ ~inbound.reset /\ inbound.plugin
          /\ Receives("waiting", "none")
    /\ UNCHANGED <<ready, outbound, wire>>

\* wait_for_omemo_ready
ReadyOrTimeout ==
    /\ inbound.at = "waiting"
    /\ \/ ready /\ Receives("decrypting", "none")
       \/ ~ready /\ Receives("ended", "rejected")
    /\ UNCHANGED <<ready, outbound, wire>>

Decrypted ==
    /\ inbound.at = "decrypting"
    /\ Receives("ended", "decrypted") \/ Receives("ended", "rejected")
    /\ UNCHANGED <<ready, outbound, wire>>

BecomeReady ==
    /\ ~ready
    /\ ready' = TRUE
    /\ UNCHANGED <<inbound, outbound, wire>>

-----------------------------------------------------------------------------
SendsTo(place) == outbound' = [outbound EXCEPT !.at = place]

NoStanzas == [ns \in {} |-> {}]

\* What encrypt_message may return for these recipients: a stanza for at least
\* one namespace, for at least one recipient; its errors, which may name the
\* rest, are dropped.
Stanzas(left) ==
    UNION {[made -> (SUBSET left) \ {{}}] : made \in (SUBSET Namespaces) \ {{}}}

\* Fault: one attempt per recipient; the loop may give up with some left.
AttemptsFew == Cardinality(Recipients) - 1

\* range(max(1, len(current) + 1))
Attempts == Cardinality(Recipients) + 1

\* The attempt has failed with an error that names some JIDs.
LeaveOut(named) ==
    LET left == outbound.left \ named
    IN  IF ~outbound.many \/ left = outbound.left \/ left = {}
        THEN SendsTo("raised")
        ELSE outbound' = [outbound EXCEPT
               !.left = left, !.named = @ \cup named, !.attempt = @ + 1,
               !.made = NoStanzas, !.done = {},
               !.at = IF outbound.attempt < Attempts THEN "encrypting" ELSE "exhausted"]

\* encrypt_message, for the recipients left; no stanza at all is an error that
\* names nobody.
Encrypt ==
    /\ outbound.at = "encrypting"
    /\ \/ \E made \in Stanzas(outbound.left) :
             outbound' = [outbound EXCEPT !.at = "sending", !.made = made]
       \/ \E named \in SUBSET Recipients : LeaveOut(named)
    /\ UNCHANGED <<inbound, ready, wire>>

\* send() of one of the encrypted stanzas, which may raise too
SendStanza(ns) ==
    /\ outbound.at = "sending" /\ ns \in DOMAIN outbound.made \ outbound.done
    /\ \/ /\ wire' = [wire EXCEPT ![ns] = outbound.made[ns]]
          /\ outbound' = [outbound EXCEPT !.done = @ \cup {ns},
               !.at = IF outbound.done \cup {ns} = DOMAIN outbound.made THEN "sent" ELSE @]
       \/ UNCHANGED wire /\ \E named \in SUBSET Recipients : LeaveOut(named)
    /\ UNCHANGED <<inbound, ready>>

TransportInit ==
    /\ inbound \in [at : {"called"}, result : {"none"}, payload : BOOLEAN, reset : BOOLEAN,
                    enabled : BOOLEAN, plugin : BOOLEAN]
    /\ ready \in BOOLEAN
    /\ outbound \in [at : {"encrypting"}, left : {Recipients}, named : {{}}, made : {NoStanzas},
                     done : {{}}, attempt : {1}, many : BOOLEAN]
    /\ wire = [ns \in Namespaces |-> {}]

Receive == Inspect \/ ReadyOrTimeout \/ Decrypted \/ BecomeReady

SendOut == Encrypt \/ \E ns \in Namespaces : SendStanza(ns)

TransportNext == Receive \/ SendOut

TransportSpec == TransportInit /\ [][TransportNext]_transportVars

-----------------------------------------------------------------------------
(***************************************************************************)
(* Properties.                                                             *)
(***************************************************************************)
\* "Deliberately fail-closed": a stanza with an encrypted payload is never
\* passed on as it came, nor decrypted while OMEMO is off or being reset.  The
\* call asks for everyone but those an error named, and never for nobody; one
\* that sent has sent what the last encryption made, and all of it, whatever
\* earlier attempts had sent before they failed: at least one stanza, each for
\* nobody but those asked for.  (Who among them has no stanza was left out by the
\* plugin, with an error that is "intentionally non-fatal".)  And the loop never
\* gives up while there is someone left to try.
TransportFailsClosed ==
    /\ inbound.result = "original" => ~inbound.payload
    /\ inbound.result = "decrypted" => inbound.enabled /\ ~inbound.reset /\ ready
    /\ outbound.left # {} /\ outbound.left = Recipients \ outbound.named
    /\ outbound.at = "sent" =>
          /\ DOMAIN outbound.made # {}
          /\ \A ns \in DOMAIN outbound.made :
                /\ wire[ns] = outbound.made[ns]
                /\ wire[ns] # {} /\ wire[ns] \subseteq outbound.left
    /\ outbound.at # "exhausted"
=============================================================================
