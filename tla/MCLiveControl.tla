--------------------------- MODULE MCLiveControl ---------------------------
(* Two workers, one of which may come after the other has gone, and two       *)
(* actions of one attempt.                                                    *)
EXTENDS LiveControl

=============================================================================
