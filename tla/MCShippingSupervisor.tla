------------------------ MODULE MCShippingSupervisor ------------------------
(***************************************************************************)
(* ShippingSupervisor with every small contract, and with each of them     *)
(* short of one part.                                                      *)
(***************************************************************************)
EXTENDS ShippingSupervisor

Contracts ==
  LET parts(m, p, q, e) ==
        {"builder.command", "verification", "exactSha.testedShaCommand", "goldenPath"}
        \cup (IF m = 0 THEN {} ELSE {"builder.repairCommand"})
        \cup (IF p THEN {"preview.deployCommand", "preview.uat"} ELSE {})
        \cup (IF q THEN {"production.deployCommand", "production.uat"} ELSE {})
        \cup (IF e THEN {"exactSha.deployedShaCommand"} ELSE {})
      whole == {[maxRepairAttempts |-> m, preview |-> p, production |-> q, exact |-> e,
                 has |-> parts(m, p, q, e)] :
                  m \in 0..1, p \in BOOLEAN, q \in BOOLEAN, e \in BOOLEAN}
  IN whole \cup {[c EXCEPT !.has = @ \ {part}] :
                   c \in whole, part \in {"builder.repairCommand", "exactSha.deployedShaCommand"}}
=============================================================================
