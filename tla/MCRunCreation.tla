--------------------------- MODULE MCRunCreation ---------------------------
(***************************************************************************)
(* Requests under two idempotency keys: "a" and "b" share key, case and so *)
(* the run_id, and differ in purpose; "c" uses the same key for another    *)
(* case, so another run_id; "d" has a key of its own.                      *)
(***************************************************************************)
EXTENDS RunCreation

MCKeyOf == [r \in Requests |-> IF r = "d" THEN "key2" ELSE "key1"]
MCRunOf == [r \in Requests |-> IF r = "d" THEN "run3"
                               ELSE IF r = "c" THEN "run2" ELSE "run1"]
=============================================================================
