---------------------------- MODULE MCReconfigure ----------------------------
(* Reconfigure with the server's token, which is a secret, and a restart-only
   port; the files as they are found at a start. *)
EXTENDS Reconfigure, TLC

MCTemplate == [k \in Keys |-> "a"]
MCDefaults == [k \in Keys |-> "b"]

Symmetry == Permutations(Admins)

Only(key, value) == [k \in Keys |-> IF k = key THEN value ELSE Absent]

Found(managed, process) ==
  [repo |-> Only("token", "b"), managed |-> managed, explicit |-> EmptyFile,
   process |-> process]

MCInitialLayers == {Found(EmptyFile, Only("token", "b")), Found(Only("port", "b"), EmptyFile)}
=============================================================================
