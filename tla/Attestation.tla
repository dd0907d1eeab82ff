----------------------------- MODULE Attestation -----------------------------
(***************************************************************************)
(* What remote attestation promises: the provider gives its secret away    *)
(* one session at a time.  A client that exchanges keys takes the session  *)
(* from whoever holds it, a failure may leave it to nobody, and the secret *)
(* is offered only to the client that holds the session with its present   *)
(* attempt.                                                                *)
(***************************************************************************)
EXTENDS Integers

CONSTANTS
    Clients,
    Nobody,         \* no holder
    MaxAttempts     \* attempts per client

VARIABLES
    attempt,        \* number of each client's present or last attempt
    holder,         \* the client and attempt that hold the session
    offered,        \* clients the secret is on its way to
    trusted         \* clients that have got it

attestationVars == <<attempt, holder, offered, trusted>>

Init ==
    /\ attempt = [c \in Clients |-> 0]
    /\ holder = Nobody
    /\ offered = {}
    /\ trusted = {}

Begin(c) ==
    /\ c \notin offered \cup trusted
    /\ attempt[c] < MaxAttempts
    /\ attempt' = [attempt EXCEPT ![c] = @ + 1]
    /\ UNCHANGED <<holder, offered, trusted>>

(* An attempt its client has given up may still take the session.          *)
Take(c) ==
    /\ \E n \in 1 .. attempt[c] : holder' = <<c, n>>
    /\ UNCHANGED <<attempt, offered, trusted>>

Spoil ==
    /\ holder' = Nobody
    /\ UNCHANGED <<attempt, offered, trusted>>

Offer(c) ==
    /\ holder = <<c, attempt[c]>>
    /\ c \notin offered \cup trusted
    /\ offered' = offered \cup {c}
    /\ UNCHANGED <<attempt, holder, trusted>>

Deliver(c) ==
    /\ c \in offered
    /\ offered' = offered \ {c}
    /\ trusted' = trusted \cup {c}
    /\ UNCHANGED <<attempt, holder>>

Lose(c) ==
    /\ c \in offered
    /\ offered' = offered \ {c}
    /\ UNCHANGED <<attempt, holder, trusted>>

Next ==
    \/ \E c \in Clients :
          Begin(c) \/ Take(c) \/ Offer(c) \/ Deliver(c) \/ Lose(c)
    \/ Spoil

Spec == Init /\ [][Next]_attestationVars

=============================================================================
