-------------------------- MODULE OperationIdentity --------------------------
(***************************************************************************)
(* The identities the target-operation components share.  An operation key *)
(* is the SHA-256 of the whole intent (dataset, kind, target, effective    *)
(* config hash, input fingerprint, semantic version), so equal keys mean   *)
(* equal intents and a key stands for its intent.  A dataset run is one    *)
(* physical attempt with its own dataset_run_id; attempts of the same      *)
(* logical mutation carry the same key.                                    *)
(***************************************************************************)
EXTENDS Naturals

CONSTANTS Ops,          \* operation keys
          Runs,         \* dataset runs (physical attempts)
          KeyOf         \* Runs -> Ops: the intent's operation_key

ASSUME KeyOfAssumption == KeyOf \in [Runs -> Ops]
=============================================================================
