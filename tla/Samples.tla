------------------------------ MODULE Samples ------------------------------
(***************************************************************************)
(* Functions are checked and proved about on samples: records with the     *)
(* arguments of one function, which the field of names.                    *)
(***************************************************************************)
VARIABLE sample

Of(kind) == sample.of = kind

=============================================================================
