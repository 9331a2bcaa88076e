----------------------------- MODULE TrustConsent -----------------------------
(***************************************************************************)
(* What an operator's consent means (docs/security-and-trust.md, Approval  *)
(* Model), with no database, prompt, clock or process: a consent is given, *)
(* covers uses while it stands, and once over is never used again.  A      *)
(* consent "for once" is over with its first use.                          *)
(***************************************************************************)
EXTENDS Naturals

CONSTANT Consents

VARIABLES
    consent,  \* none, once (given for one use), standing, or over
    uses      \* how many actions each consent has covered

vars == <<consent, uses>>

Init ==
    /\ consent = [c \in Consents |-> "none"]
    /\ uses = [c \in Consents |-> 0]

\* Any step may also end consents: a clock, a restart or an operator did.
End(S, now) == [c \in Consents |-> IF c \in S /\ now[c] # "none" THEN "over" ELSE now[c]]

Lapse(S) ==
    /\ consent' = End(S, consent)
    /\ UNCHANGED uses

Give(c, kind) ==
    /\ consent[c] = "none"
    /\ consent' = [consent EXCEPT ![c] = kind]
    /\ UNCHANGED uses

Use(c, S) ==
    /\ consent[c] \in {"once", "standing"}
    /\ uses' = [uses EXCEPT ![c] = @ + 1]
    /\ consent' = End(IF consent[c] = "once" THEN S \cup {c} ELSE S, consent)

\* The answer that gives a consent may come with the first action it covers.
GiveAndUse(c, kind) ==
    /\ consent[c] = "none"
    /\ uses' = [uses EXCEPT ![c] = @ + 1]
    /\ consent' = [consent EXCEPT ![c] = IF kind = "once" THEN "over" ELSE kind]

Next ==
    \/ \E S \in SUBSET Consents : Lapse(S)
    \/ \E c \in Consents, kind \in {"once", "standing"} : Give(c, kind) \/ GiveAndUse(c, kind)
    \/ \E c \in Consents, S \in SUBSET Consents : Use(c, S)

Spec == Init /\ [][Next]_vars
===============================================================================
