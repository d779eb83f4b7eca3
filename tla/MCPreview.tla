----------------------------- MODULE MCPreview -----------------------------
(* Preview with at most two requests and two threads: nothing wrong; links  *)
(* that end between messages; links that end anywhere and restarts; a link  *)
(* that ends on an unconfirmed request; the camera program failing or slow; *)
(* preview.ini missed; requests that overlap.                               *)
EXTENDS Preview

Only(n, may) == [last |-> n, may |-> may]

Rough == {Only(2, {}),
          Only(2, {"link", "early", "rsync"}),
          Only(2, {"loss", "early", "rsync", "restart"}),
          Only(1, {"cut"}),
          Only(1, {"camera"}), Only(1, {"late"}),
          Only(2, {"wget"}), Only(2, {"again"})}

=============================================================================
