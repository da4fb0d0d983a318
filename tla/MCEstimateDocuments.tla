-------------------------- MODULE MCEstimateDocuments --------------------------
(* Small instances of EstimateDocuments for TLC. *)
EXTENDS EstimateDocuments, TLC

CONSTANTS run1, upload1

MCCost == [r \in Run |-> 27]
MCOrganizationRule == [type \in Type |-> IF type = "basic_design" THEN 11 ELSE None]
MCSystemRule == [type \in Type |-> IF type = "estimate" THEN None ELSE 16]
MCDefaultPrice == [type \in Type |-> IF type = "estimate" THEN 15 ELSE 20]

\* Nothing, an item for the AI run beside a tax item, and one for an artifact beside a
\* discount that is larger
MCInput == {{},
            {[amount |-> 14, tax |-> FALSE, names |-> run1],
             [amount |-> 3, tax |-> TRUE, names |-> None]},
            {[amount |-> 4, tax |-> FALSE, names |-> upload1],
             [amount |-> -20, tax |-> FALSE, names |-> None]}}

Symmetry == Permutations(Estimate) \cup Permutations(Attempt) \cup Permutations(Format)
=============================================================================
