---------------------------- MODULE MCRunOutcome ----------------------------
(* Small instances of RunOutcome for TLC: exit code 0 and one that does    *)
(* not fit a byte; each option alone and with those it interacts with.     *)
EXTENDS RunOutcome

MCRequests ==
    {{}, {"out"}, {"push"}, {"out", "wall"}, {"push", "wall"},
     {"secrets"}, {"secrets", "wall"}, {"witness"}, {"witness", "out"}}
=============================================================================
