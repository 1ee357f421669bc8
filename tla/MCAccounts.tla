----------------------------- MODULE MCAccounts -----------------------------
(* Signing in and rights use none of each other's tables: in a behaviour    *)
(* one of the two is at work, and the run checks both.                      *)
EXTENDS SignIn, Access, TLC

CONSTANTS ann, bob, flow1, flow2, id1, id2, r1, r2, old, new, s1, s2

VARIABLE part

Init == part \in {"sign-in", "rights"} /\ SignInInit /\ AccessInit

Next ==
    \/ part = "sign-in" /\ SignInNext /\ UNCHANGED <<part, accessVars>>
    \/ part = "rights" /\ AccessNext /\ UNCHANGED <<part, signInVars>>

Spec == Init /\ [][Next]_<<part, signInVars, accessVars>>

(* All but the development login's account are treated alike.               *)
Symmetry ==
    UNION {Permutations({flow1, flow2}), Permutations({id1, id2}), Permutations({r1, r2}),
           Permutations({old, new}), Permutations({s1, s2})}
=============================================================================
