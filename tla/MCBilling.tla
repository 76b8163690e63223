------------------------------ MODULE MCBilling ------------------------------
(* Small instances of Billing for TLC.                                     *)
EXTENDS Billing

(* The events as if Stripe sent one only when those before it are          *)
(* answered, and one webhook received them.                                *)
InOrder ==
    \A w \in Hooks : ~HookAt(w, "idle") =>
        /\ \A i \in unanswered : hook[w].event <= i
        /\ \A v \in Hooks \ {w} : HookAt(v, "idle")

OrderlySpec == Init /\ [][Next /\ InOrder']_vars
=============================================================================
