---------------------------- MODULE CertIssuance ----------------------------
(***************************************************************************)
(* Certificate issuance (endpoint/scripts/gen_certs.sh): steps over files, *)
(* under set -e, any of which may fail or be interrupted.  One operator    *)
(* runs one issue at a time and may run it again.  A file is absent, torn  *)
(* (a write that failed half-way) or whole; openssl is external, and reads *)
(* no torn file.                                                           *)
(***************************************************************************)
EXTENDS Naturals, Sequences

CONSTANTS
  Targets,    \* the names certificates are issued for: devices, servers, admins
  Admins,     \* those that get a browser bundle as well
  MaxKeys,    \* bound on the keys generated
  CA          \* what gen_ca issues for

ASSUME CertAssumption ==
  /\ Admins \subseteq Targets
  /\ MaxKeys \in Nat
  /\ CA \notin Targets

VARIABLES
  key,      \* key[n]: the private key of n, or of the CA
  csr,      \* csr[t]: the key a signing request is for
  pem,      \* pem[n]: the certificate: the key it is for and the key it is signed with
  p12,      \* p12[t]: the bundle of an admin: its key and certificate
  keys,     \* keys generated so far
  script,   \* the run under way
  \* history
  issued,   \* the names whose last run went to its end
  broken    \* the names a run with FORCE=1 was interrupted for

vars == <<key, csr, pem, p12, keys, script, issued, broken>>

Names == Targets \cup {CA}

Absent == [state |-> "absent"]
Torn == [state |-> "torn"]
Whole(x) == [state |-> "whole", is |-> x]

Exists(f) == f # Absent

NoRun == [name |-> "none", force |-> FALSE, at |-> 0]

Init ==
  /\ key = [n \in Names |-> Absent]
  /\ csr = [n \in Names |-> Absent]
  /\ pem = [n \in Names |-> Absent]
  /\ p12 = [n \in Names |-> Absent]
  /\ keys = 0
  /\ script = NoRun
  /\ issued = {}
  /\ broken = {}

\* What gen_ca, gen_device and gen_server, and gen_admin do after their checks.
Steps(n) ==
  CASE n = CA                   -> <<"key", "self_sign">>
    [] n \in Targets \ Admins   -> <<"key", "csr", "sign", "rm">>
    [] n \in Admins             -> <<"key", "csr", "sign", "rm", "p12">>

\* require_ca
HasCA == Exists(key[CA]) /\ Exists(pem[CA])

\* Mutant: the check looks for the key, as that of gen_ca does.
GuardedFileKey(n) == key[n]

\* The file that refuse_overwrite looks for.
GuardedFile(n) == IF n = CA THEN key[n] ELSE pem[n]

\* Mutant: what exists is overwritten without being asked to.
MayStartAlways(n, force) == n = CA \/ HasCA

MayStart(n, force) ==
  /\ n = CA \/ HasCA
  /\ force \/ ~ Exists(GuardedFile(n))

\* qs certs ca | device | server | admin, with the checks in front.  A run that
\* dies there changes nothing.
Start(n, force) ==
  /\ script = NoRun
  /\ MayStart(n, force)
  /\ keys < MaxKeys
  /\ script' = [name |-> n, force |-> force, at |-> 1]
  \* a new CA "invalidates every issued cert"
  /\ issued' = IF n = CA THEN {} ELSE issued \ {n}
  /\ UNCHANGED <<key, csr, pem, p12, keys, broken>>

\* The step the run is at.
At(step) == script # NoRun /\ Steps(script.name)[script.at] = step

\* On to the next step, or the end.
Proceed ==
  LET n == script.name IN
  IF script.at < Len(Steps(n))
  THEN script' = [script EXCEPT !.at = @ + 1] /\ UNCHANGED <<issued, broken>>
  ELSE /\ script' = NoRun
       /\ issued' = issued \cup {n}
       /\ broken' = broken \ {n}

\* new_key
NewKey ==
  /\ At("key")
  /\ keys' = keys + 1
  /\ key' = [key EXCEPT ![script.name] = Whole(keys + 1)]
  /\ Proceed
  /\ UNCHANGED <<csr, pem, p12>>

\* openssl req -x509, in gen_ca
SelfSign ==
  /\ At("self_sign")
  /\ key[CA].state = "whole"
  /\ pem' = [pem EXCEPT ![CA] = Whole([key |-> key[CA].is, ca |-> key[CA].is])]
  /\ Proceed
  /\ UNCHANGED <<key, csr, p12, keys>>

\* Mutant: a request that is there is used again.
RequestKeepsOld ==
  /\ At("csr")
  /\ csr' = IF Exists(csr[script.name]) THEN csr
            ELSE [csr EXCEPT ![script.name] = key[script.name]]
  /\ Proceed
  /\ UNCHANGED <<key, pem, p12, keys>>

\* openssl req -new
Request ==
  /\ At("csr")
  /\ key[script.name].state = "whole"
  /\ csr' = [csr EXCEPT ![script.name] = key[script.name]]
  /\ Proceed
  /\ UNCHANGED <<key, pem, p12, keys>>

\* openssl signs only with the key that belongs to the CA's certificate.
CanSign ==
  /\ csr[script.name].state = "whole"
  /\ key[CA].state = "whole"
  /\ pem[CA].state = "whole"
  /\ pem[CA].is.key = key[CA].is

\* sign_csr
Sign ==
  /\ At("sign")
  /\ CanSign
  /\ pem' = [pem EXCEPT ![script.name] =
               Whole([key |-> csr[script.name].is, ca |-> key[CA].is])]
  /\ Proceed
  /\ UNCHANGED <<key, csr, p12, keys>>

\* rm -f
RemoveRequest ==
  /\ At("rm")
  /\ csr' = [csr EXCEPT ![script.name] = Absent]
  /\ Proceed
  /\ UNCHANGED <<key, pem, p12, keys>>

\* openssl pkcs12 and chmod, in gen_admin
Bundle ==
  /\ At("p12")
  /\ key[script.name].state = "whole" /\ pem[script.name].state = "whole"
  /\ p12' = [p12 EXCEPT ![script.name] =
               Whole([key |-> key[script.name].is, pem |-> pem[script.name].is])]
  /\ Proceed
  /\ UNCHANGED <<key, csr, pem, keys>>

\* A step fails, or the run is interrupted in it; set -e ends the script.  What
\* the step was to write is as it was, or torn.
Fail ==
  /\ script # NoRun
  /\ LET n == script.name IN
     /\ \/ UNCHANGED <<key, csr, pem, p12>>
        \/ At("key") /\ key' = [key EXCEPT ![n] = Torn] /\ UNCHANGED <<csr, pem, p12>>
        \/ At("csr") /\ csr' = [csr EXCEPT ![n] = Torn] /\ UNCHANGED <<key, pem, p12>>
        \/ /\ At("sign") \/ At("self_sign")
           /\ pem' = [pem EXCEPT ![n] = Torn]
           /\ UNCHANGED <<key, csr, p12>>
        \/ At("p12") /\ p12' = [p12 EXCEPT ![n] = Torn] /\ UNCHANGED <<key, csr, pem>>
     /\ broken' = IF script.force THEN broken \cup {n} ELSE broken
  /\ script' = NoRun
  /\ UNCHANGED <<keys, issued>>

Step == NewKey \/ SelfSign \/ Request \/ Sign \/ RemoveRequest \/ Bundle

Next == (\E n \in Names, force \in BOOLEAN : Start(n, force)) \/ Step \/ Fail

Spec == Init /\ [][Next]_vars

\* An operator who runs a failed issue again, without FORCE.
Fairness ==
  /\ WF_vars(Step)
  /\ \A t \in Targets : SF_vars(Start(t, FALSE))

LiveSpec == Spec /\ Fairness

-----------------------------------------------------------------------------
(***************************************************************************)
(* Properties.                                                             *)
(***************************************************************************)

\* What verify_chain checks of the certificate of n.
Verifies(n) ==
  /\ pem[n].state = "whole" /\ pem[CA].state = "whole" /\ key[n].state = "whole"
  /\ pem[n].is.key = key[n].is
  /\ pem[n].is.ca = pem[CA].is.key

\* A run that went to its end leaves a certificate for the key beside it, signed
\* by the CA that is there, whatever earlier runs had left behind; and an admin
\* a bundle of the two.
IssuedVerifies ==
  \A n \in issued :
    /\ Verifies(n)
    /\ n \in Admins => p12[n] = Whole([key |-> key[n].is, pem |-> pem[n].is])

\* Without FORCE=1 no run, however it ends, leaves a key beside a certificate
\* that was issued for another one (refuse_overwrite).
NoSilentMismatch ==
  \A n \in Names : script.name # n /\ pem[n].state = "whole" /\ n \notin broken =>
    key[n] = Whole(pem[n].is.key)

\* While the CA is in order and steps do not fail, running an issue again
\* without FORCE gets the name a certificate, whatever keys and requests an
\* interrupted run left.  A torn certificate is taken for one.
RerunRepairs ==
  \A t \in Targets :
    <>[](Verifies(CA) /\ keys < MaxKeys) /\ <>[][~ Fail]_vars => <>Exists(pem[t])
=============================================================================
