--------------------------- MODULE MCStageStream ---------------------------
(* Small instances of StageStream: two starts and one other piece of work. *)
EXTENDS StageStream

CONSTANTS other, r1, c1

=============================================================================
