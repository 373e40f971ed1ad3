--------------------------------- MODULE Gate ---------------------------------
(***************************************************************************)
(* gate.Gate: the verdict on one tool call.  A matcher is opaque here; what *)
(* MatcherFor and Dangerous make of the input comes in with the call.      *)
(***************************************************************************)

\* "other" is a mode the gate does not know, which it reads as strict.
Modes == {"off", "permissive", "strict", "other"}

Verdict(ask, decision, by) == [ask |-> ask, decision |-> decision, by |-> by]

\* Mutant: allowances are consulted before the dangerous set.
Evaluate_AllowancesFirst(in) ==
    CASE in.safety = "safe" -> Verdict(FALSE, "allow", "class")
      [] in.safety # "safe" /\ in.mode = "off" -> Verdict(FALSE, "allow", "mode")
      [] in.safety # "safe" /\ in.mode # "off" /\ in.matcher \in in.allowances ->
            Verdict(FALSE, "allow", "allowance")
      [] in.safety # "safe" /\ in.mode = "permissive" /\ in.matcher \notin in.allowances
         /\ ~in.dangerous -> Verdict(FALSE, "allow", "mode")
      [] OTHER -> IF in.asker THEN Verdict(TRUE, "none", "none")
                              ELSE Verdict(FALSE, "deny", "no_asker")

\* A safe tool runs; off runs everything; a dangerous call asks ahead of every
\* allowance; an allowance runs; then the mode decides.  Nobody to ask is a deny.
Evaluate(in) ==
    CASE in.safety = "safe" -> Verdict(FALSE, "allow", "class")
      [] in.safety # "safe" /\ in.mode = "off" -> Verdict(FALSE, "allow", "mode")
      [] in.safety # "safe" /\ in.mode # "off" /\ ~in.dangerous
         /\ in.matcher \in in.allowances -> Verdict(FALSE, "allow", "allowance")
      [] in.safety # "safe" /\ in.mode = "permissive" /\ ~in.dangerous
         /\ in.matcher \notin in.allowances -> Verdict(FALSE, "allow", "mode")
      [] OTHER -> IF in.asker THEN Verdict(TRUE, "none", "none")
                              ELSE Verdict(FALSE, "deny", "no_asker")
=============================================================================
