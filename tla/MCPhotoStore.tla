---------------------------- MODULE MCPhotoStore ----------------------------
(* PhotoStore with two photos and two days; a photo is more than the quota  *)
(* of a day.  Failures; a disk that runs full; edits of the limit; restarts; *)
(* threads that meet at midnight.                                           *)
EXTENDS PhotoStore

Quotas(ps, l, d, may) == [photos |-> ps, limit |-> l, disk |-> d, may |-> may]
One == {CHOOSE p \in Photo : TRUE}

Ways == {Quotas(Photo, 1, 0, {"fail", "loss"}),
         Quotas(One, 2, 0, {"fail", "late"}),
         Quotas(Photo, 0, 2, {"disk"}),
         Quotas(One, 1, 0, {"edit"}),
         Quotas(One, 1, 0, {"restart", "fail"}),
         Quotas(One, 1, 0, {"early"}),
         Quotas(Photo, 1, 0, {"race", "late"})}

=============================================================================
