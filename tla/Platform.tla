------------------------------ MODULE Platform ------------------------------
(* What the commands ask runtime.GOOS for (cmd/hookrun, internal/update).  *)
VARIABLE windows    \* Windows, or a Unix

=============================================================================
