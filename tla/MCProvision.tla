---------------------------- MODULE MCProvision ----------------------------
(***************************************************************************)
(* Instance of Provision for TLC: the service's plugin with requirements   *)
(* of its own and of an install, and another plugin.                       *)
(***************************************************************************)
EXTENDS Provision

MCFiles == {[gem |-> "plugin", name |-> "requirements.txt"],
            [gem |-> "plugin", name |-> "requirements__1.txt"],
            [gem |-> "other", name |-> "lib"]}
MCRequirements ==
  LET listed == {f \in MCFiles : f.name # "lib"}
  IN {Fingerprint(d, files) : d \in [MCFiles -> Stored], files \in SUBSET listed}
=============================================================================
