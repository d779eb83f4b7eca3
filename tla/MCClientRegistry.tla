-------------------------- MODULE MCClientRegistry --------------------------
(* ClientRegistry with two threads: descriptors 1 and 3 fall to one, 2 to   *)
(* the other.  One device whose connections fail in every way and overlap;  *)
(* two devices; passes of CfgUpdateTimer; a database that fails.            *)
EXTENDS ClientRegistry

CONSTANTS d1, d2

Failing(ds, n, may) == [devs |-> ds, fails |-> n, may |-> may]

Unsteady == {Failing({d1}, 2, {"lost", "restart"}),
             Failing({d1}, 1, {"lost", "retire"}), Failing({d1}, 1, {"retire", "slow"}),
             Failing({d1}, 1, {"retire", "pass", "db"}),
             Failing({d1, d2}, 1, {})}

=============================================================================
