------------------------------ MODULE Certgen ------------------------------
(***************************************************************************)
(* cmd/certgen: runs of the tool on one output directory, one after the    *)
(* other, any of which may be cut short.  A run makes its own CA, and its  *)
(* leaf certificates are signed by the CA key it holds in memory; the      *)
(* number of the run stands for that CA.                                   *)
(***************************************************************************)
EXTENDS Naturals, Sequences

CONSTANTS
    MaxRuns      \* BOUND: how often the tool is started

ASSUME MaxRunsAssumption == MaxRuns \in Nat

VARIABLES
    dir,     \* dir[f]: the run that wrote file f, Absent or Torn
    run,     \* the latest run: [n, pc]; pc counts the files it has opened
    exit     \* how it ended

certVars == <<dir, run, exit>>

(* writePair for the CA, then for every leaf: certificate, then key. *)
Files == <<"ca.crt", "ca.key", "server.crt", "server.key", "client.crt", "client.key",
           "unauthorized-client.crt", "unauthorized-client.key">>

FileNames == {Files[i] : i \in DOMAIN Files}
Absent == 0
Torn == MaxRuns + 1      \* created, but not (completely) written
Over == Len(Files) + 1

Empty == \A f \in FileNames : dir[f] = Absent

(* Mutant of Starts: what is in the directory is not looked at. *)
StartsAnyway ==
    /\ exit # "none" /\ run.n < MaxRuns
    /\ \E valid \in BOOLEAN :
          /\ run' = [n |-> run.n + 1, pc |-> IF valid THEN 0 ELSE Over]
          /\ exit' = IF valid THEN "none" ELSE "error"
    /\ UNCHANGED dir

(* The tool is started.  A directory with anything in it, and then an      *)
(* unusable client URI, end the run before it has written a file.          *)
Starts ==
    /\ exit # "none" /\ run.n < MaxRuns
    /\ \E valid \in BOOLEAN :
          LET go == Empty /\ valid
          IN  /\ run' = [n |-> run.n + 1, pc |-> IF go THEN 0 ELSE Over]
              /\ exit' = IF go THEN "none" ELSE "error"
    /\ UNCHANGED dir

(* os.WriteFile: the file is created (or emptied) ... *)
Creates ==
    /\ exit = "none" /\ run.pc < Len(Files)
    /\ run.pc > 0 => dir[Files[run.pc]] # Torn
    /\ dir' = [dir EXCEPT ![Files[run.pc + 1]] = Torn]
    /\ run' = [run EXCEPT !.pc = run.pc + 1]
    /\ UNCHANGED exit

(* ... and then written. *)
Writes ==
    /\ exit = "none" /\ run.pc \in 1..Len(Files)
    /\ dir[Files[run.pc]] = Torn
    /\ dir' = [dir EXCEPT ![Files[run.pc]] = run.n]
    /\ UNCHANGED <<run, exit>>

Succeeds ==
    /\ exit = "none" /\ run.pc = Len(Files)
    /\ dir[Files[run.pc]] # Torn
    /\ exit' = "ok"
    /\ UNCHANGED <<dir, run>>

(* An error of the file system or of the random source, or the end of the  *)
(* process: what was written stays.                                        *)
Stops ==
    /\ exit = "none"
    /\ exit' = "error"
    /\ UNCHANGED <<dir, run>>

(* "... or remove it explicitly": also part of it, by mistake. *)
Removed ==
    /\ exit # "none"
    /\ \E gone \in {FileNames} \cup {{f} : f \in FileNames} :
          dir' = [f \in FileNames |-> IF f \in gone THEN Absent ELSE dir[f]]
    /\ UNCHANGED <<run, exit>>

CertInit ==
    /\ dir = [f \in FileNames |-> Absent]
    /\ run = [n |-> 0, pc |-> Over]
    /\ exit = "error"

CertNext == Starts \/ Creates \/ Writes \/ Succeeds \/ Stops \/ Removed

CertSpec == CertInit /\ [][CertNext]_certVars

-----------------------------------------------------------------------------
(* Certificates, keys and CA that lie together belong together: whatever   *)
(* was interrupted, repeated or removed, there are never files of two runs *)
(* in the directory, so no server is given a certificate that its clients' *)
(* CA has not signed.  "Existing identities are preserved by rejecting a   *)
(* nonempty output directory."                                             *)
OneIdentitySet ==
    \A f, g \in FileNames : dir[f] \in 1..MaxRuns /\ dir[g] \in 1..MaxRuns => dir[f] = dir[g]
=============================================================================
