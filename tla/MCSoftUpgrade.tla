--------------------------- MODULE MCSoftUpgrade ---------------------------
(* SoftUpgrade with two or three devices and two threads.  With             *)
(* upgrade_limit 0, its default, the server upgrades one device at a time.  *)
EXTENDS SoftUpgrade, TLC

Symmetry == Permutations(Device) \cup Permutations(Thread) \cup Permutations(Job)

With(devices, auto, room, may) ==
    [limit |-> 0, table |-> room, on |-> devices, auto |-> auto, may |-> may]

\* all devices while upgrades take less than 1800 seconds, with room in the table
\* and without; devices that are not to be upgraded, and one, when all goes wrong
Rough ==
    {With(Device, a, n, {"window"}) : a \in {Device, {}}, n \in 0..2}
        \cup {With(Device, {}, 2, {"slow", "outage"})}
        \cup {With({d}, Device, 2, Happenings) : d \in Device}
        \cup {With(Device \ {d}, Device, 2, m) : d \in Device, m \in {{"late"}, {"fail", "db"}}}

\* two devices when nothing goes wrong; two that find their entry taken again and
\* again; one when links are lost, and when all goes wrong
Lively ==
    {With(Device, Device, 2, {}), [With(Device, {}, 2, {"slow", "late"}) EXCEPT !.limit = 1]}
        \cup {With({d}, Device, 2, m) : d \in Device, m \in {{"outage"}, Happenings}}

Limited == {[With(Device, Device, 2, {}) EXCEPT !.limit = 1]}

=============================================================================
