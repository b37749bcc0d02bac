------------------------------ MODULE HostFiles ------------------------------
(***************************************************************************)
(* What the app makes of the plugin files below host_files                 *)
(* (src/hostfiles.rs): the manifest it sends to the hub, the scan after a  *)
(* sync, and the Python dependencies of one microservice with their        *)
(* fingerprint.                                                            *)
(*                                                                         *)
(* A file is in a gem's directory and has a name. requirements.txt stands  *)
(* for pyproject.toml as well, requirements__1.txt for the files of one    *)
(* install of the plugin, lib for what is below lib and targets/*/lib. Its *)
(* content is a revision; the hashes are taken to be free of collisions.   *)
(***************************************************************************)
EXTENDS Integers

CONSTANTS
  Files,        (* the files there may be: records of a gem and a name        *)
  MaxRevision   (* bound: revisions of a file                                 *)

Names == {"requirements.txt", "requirements__1.txt", "lib"}

ASSUME FilesAssumption == MaxRevision \in Nat \ {0}

NoFile == 0
Torn   == -2
Served == 0..MaxRevision          (* at the hub                               *)
Stored == Served \cup {Torn}      (* on disk                                  *)

There(disk, files) == {f \in files : disk[f] # NoFile}

\* walk, sha256_hex.
Manifest(disk) == {<<f, disk[f]>> : f \in There(disk, Files)}

\* scan. A lib directory is there while it holds a file (remove_empty_dirs).
Scan(disk) ==
  [requirements |-> {f \in There(disk, Files) : f.name = "requirements.txt"},
   libs |-> {f.gem : f \in {g \in There(disk, Files) : g.name = "lib"}}]

\* pip_fingerprint skips what it cannot read.
Fingerprint(disk, requirements) == {<<f, disk[f]>> : f \in There(disk, requirements)}

\* The files of a microservice's own plugin, in the version of its install if
\* that is there (dependencies).
InstallFile(f) == [f EXCEPT !.name = "requirements__1.txt"]

OfPlugin(requirements, disk, plugin) ==
  {IF InstallFile(f) \in There(disk, Files) THEN InstallFile(f) ELSE f :
     f \in {g \in requirements : g.gem = plugin}}
=============================================================================
