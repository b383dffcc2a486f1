------------------------ MODULE CertIssuance_proofs -------------------------
(***************************************************************************)
(* Theorems about certificate issuance: what a run that went to its end    *)
(* leaves behind, and what no run leaves behind.                           *)
(***************************************************************************)
EXTENDS CertIssuance, TLAPS

Files(S) == {Absent, Torn} \cup {Whole(x) : x \in S}

Certificates == [key : Nat, ca : Nat]

\* script.at is between the steps of the run; TLC's instance has five at most.
TypeOK ==
  /\ key \in [Names -> Files(Nat)]
  /\ csr \in [Names -> Files(Nat)]
  /\ pem \in [Names -> Files(Certificates)]
  /\ p12 \in [Names -> Files([key : Nat, pem : Certificates])]
  /\ keys \in Nat
  /\ script \in {NoRun} \cup [name : Names, force : BOOLEAN, at : 1 .. 5]
  /\ issued \subseteq Names
  /\ broken \subseteq Names

\* What the steps already run have established, step by step; and a run without
\* FORCE has found no certificate.
RunInv ==
  script # NoRun =>
    LET n == script.name IN
    /\ script.at <= Len(Steps(n))
    /\ n \notin issued
    /\ n = CA => issued = {}
    /\ script.at > 1 => key[n].state = "whole"
    /\ n # CA /\ script.at = 3 => csr[n] = key[n]
    /\ n # CA /\ script.at > 3 => Verifies(n)
    /\ ~ script.force /\ script.at <= (IF n = CA THEN 2 ELSE 3) => pem[n] = Absent

\* A certificate is for the key beside it, but while a run is changing the two
\* or one with FORCE has been interrupted.
KeyMatches ==
  \A n \in Names :
    pem[n].state = "whole" /\ n \notin broken =>
      \/ key[n] = Whole(pem[n].is.key)
      \/ script # NoRun /\ script.name = n

\* refuse_overwrite looks for the CA's key; without it there is no certificate.
KeyFirst == key[CA] = Absent => pem[CA] = Absent

IInv == TypeOK /\ RunInv /\ KeyMatches /\ KeyFirst /\ IssuedVerifies

-----------------------------------------------------------------------------

\* The steps of each kind of run, by their place.
LEMMA StepsOfRuns ==
  ASSUME NEW n \in Names
  PROVE  /\ n = CA => Steps(n) = <<"key", "self_sign">>
         /\ n # CA /\ n \notin Admins => Steps(n) = <<"key", "csr", "sign", "rm">>
         /\ n # CA /\ n \in Admins => Steps(n) = <<"key", "csr", "sign", "rm", "p12">>
         /\ Len(Steps(n)) = IF n = CA THEN 2 ELSE IF n \in Admins THEN 5 ELSE 4
<1>1. CASE n = CA
  BY <1>1, CertAssumption DEF Steps
<1>2. CASE n # CA
  BY <1>2, CertAssumption DEF Steps, Names
<1>3. QED
  BY <1>1, <1>2

\* The place each step has in the plan of a name.
LEMMA PlaceOfStep ==
  ASSUME NEW n \in Names, NEW i \in 1 .. 5, i <= Len(Steps(n))
  PROVE  /\ Steps(n)[i] = "key" <=> i = 1
         /\ Steps(n)[i] = "self_sign" <=> i = 2 /\ n = CA
         /\ Steps(n)[i] = "csr" <=> i = 2 /\ n # CA
         /\ Steps(n)[i] = "sign" <=> i = 3
         /\ Steps(n)[i] = "rm" <=> i = 4
         /\ Steps(n)[i] = "p12" <=> i = 5
         /\ i > 2 => n # CA
         /\ i = 5 => n \in Admins
<1>1. CASE n = CA
  <2>1. Steps(n) = <<"key", "self_sign">> /\ Len(Steps(n)) = 2
    BY <1>1, StepsOfRuns
  <2>2. i = 1 \/ i = 2
    BY <2>1
  <2>3. QED
    BY <1>1, <2>1, <2>2
<1>2. CASE n # CA /\ n \notin Admins
  <2>1. Steps(n) = <<"key", "csr", "sign", "rm">> /\ Len(Steps(n)) = 4
    BY <1>2, StepsOfRuns
  <2>2. i = 1 \/ i = 2 \/ i = 3 \/ i = 4
    BY <2>1
  <2>3. QED
    BY <1>2, <2>1, <2>2
<1>3. CASE n # CA /\ n \in Admins
  <2>1. Steps(n) = <<"key", "csr", "sign", "rm", "p12">> /\ Len(Steps(n)) = 5
    BY <1>3, StepsOfRuns
  <2>2. i = 1 \/ i = 2 \/ i = 3 \/ i = 4 \/ i = 5
    OBVIOUS
  <2>3. QED
    BY <1>3, <2>1, <2>2
<1>4. QED
  BY <1>1, <1>2, <1>3

\* Where a run is when it is at a step.
LEMMA AtStep ==
  ASSUME TypeOK, RunInv, script # NoRun
  PROVE  /\ script.name \in Names
         /\ script.at \in 1 .. 5
         /\ At("key") <=> script.at = 1
         /\ At("self_sign") <=> script.at = 2 /\ script.name = CA
         /\ At("csr") <=> script.at = 2 /\ script.name # CA
         /\ At("sign") <=> script.at = 3
         /\ At("rm") <=> script.at = 4
         /\ At("p12") <=> script.at = 5
         /\ script.at > 2 => script.name # CA
         /\ script.at = 5 => script.name \in Admins
<1>1. script.name \in Names /\ script.at \in 1 .. 5
  BY DEF TypeOK
<1>2. script.at <= Len(Steps(script.name))
  BY DEF RunInv
<1>3. QED
  BY <1>1, <1>2, PlaceOfStep DEF At

\* Proceed goes on to the next step, or ends the run.
LEMMA ProceedStep ==
  ASSUME TypeOK, RunInv, script # NoRun, Proceed
  PROVE  \/ /\ script' # NoRun
            /\ script'.name = script.name /\ script'.force = script.force
            /\ script'.at = script.at + 1
            /\ script' \in [name : Names, force : BOOLEAN, at : 1 .. 5]
            /\ script'.at <= Len(Steps(script.name))
            /\ issued' = issued /\ broken' = broken
         \/ /\ script' = NoRun
            /\ script.at = IF script.name = CA THEN 2
                           ELSE IF script.name \in Admins THEN 5 ELSE 4
            /\ issued' = issued \cup {script.name}
            /\ broken' = broken \ {script.name}
<1> DEFINE n == script.name
           last == Len(Steps(n))
<1>1. /\ script \in [name : Names, force : BOOLEAN, at : 1 .. 5]
      /\ script.at <= last
  BY DEF TypeOK, RunInv
<1>2. last \in 1 .. 5 /\ last = IF n = CA THEN 2 ELSE IF n \in Admins THEN 5 ELSE 4
  <2>1. n \in Names
    BY <1>1
  <2>2. last = IF n = CA THEN 2 ELSE IF n \in Admins THEN 5 ELSE 4
    BY <2>1, StepsOfRuns
  <2> HIDE DEF last
  <2>3. QED
    BY <2>2
<1>3. CASE script.at < last
  <2>1. script' = [script EXCEPT !.at = @ + 1] /\ issued' = issued /\ broken' = broken
    BY <1>3 DEF Proceed
  <2>2. script.at + 1 \in 1 .. 5 /\ script.at + 1 <= last /\ script.at + 1 # 0
    BY <1>1, <1>2, <1>3
  <2>3. script' # NoRun
    BY <1>1, <2>1, <2>2 DEF NoRun
  <2>4. QED
    BY <1>1, <2>1, <2>2, <2>3
<1>4. CASE ~ script.at < last
  BY <1>1, <1>2, <1>4 DEF Proceed
<1>5. QED
  BY <1>3, <1>4

\* A file is whole with a content, and only a whole file has one.
LEMMA FileShapes ==
  ASSUME NEW S
  PROVE  /\ Absent \in Files(S) /\ Torn \in Files(S)
         /\ \A x \in S : Whole(x) \in Files(S)
         /\ \A x : Whole(x).state = "whole" /\ Whole(x).is = x /\ Whole(x) # Absent
         /\ Absent.state = "absent" /\ Torn.state = "torn" /\ Torn # Absent
         /\ \A f \in Files(S) : f.state = "whole" => f.is \in S /\ f = Whole(f.is)
<1>1. /\ \A x : Whole(x).state = "whole" /\ Whole(x).is = x
      /\ Absent.state = "absent" /\ Torn.state = "torn"
  BY DEF Whole, Absent, Torn
<1>2. \A f \in Files(S) : f.state = "whole" => \E x \in S : f = Whole(x)
  BY <1>1 DEF Files
<1>3. \A f \in Files(S) : f.state = "whole" => f.is \in S /\ f = Whole(f.is)
  BY <1>1, <1>2
<1>4. (\A x : Whole(x) # Absent) /\ Torn # Absent
  BY <1>1
<1>5. QED
  BY <1>1, <1>3, <1>4, Zenon DEF Files

\* A run that goes on keeps its name and its FORCE; a run that is over, or goes
\* on, has changed no file but its own.  So what was issued stays issued.
LEMMA OthersStay ==
  ASSUME IInv, script # NoRun,
         \A m \in Names \ {script.name} :
           key'[m] = key[m] /\ pem'[m] = pem[m] /\ p12'[m] = p12[m]
  PROVE  \A m \in issued :
           /\ m # script.name
           /\ Verifies(m)'
           /\ m \in Admins => p12'[m] = Whole([key |-> key'[m].is, pem |-> pem'[m].is])
<1>1. script.name \in Names /\ issued \subseteq Names
  BY DEF IInv, TypeOK
<1>2. script.name \notin issued /\ (script.name = CA => issued = {})
  BY DEF IInv, RunInv
<1>3. SUFFICES ASSUME NEW m \in issued
               PROVE  /\ m # script.name
                      /\ Verifies(m)'
                      /\ m \in Admins =>
                           p12'[m] = Whole([key |-> key'[m].is, pem |-> pem'[m].is])
  OBVIOUS
<1>4. m # script.name /\ CA # script.name /\ CA \in Names
  BY <1>2 DEF Names
<1>5. /\ key'[m] = key[m] /\ pem'[m] = pem[m] /\ p12'[m] = p12[m]
      /\ pem'[CA] = pem[CA]
  BY <1>1, <1>4
<1>6. Verifies(m) /\ (m \in Admins => p12[m] = Whole([key |-> key[m].is, pem |-> pem[m].is]))
  BY DEF IInv, IssuedVerifies
<1>7. QED
  BY <1>4, <1>5, <1>6 DEF Verifies

\* The types of the files and of the run.
LEMMA TypeStep == IInv /\ [Next]_vars => TypeOK'
<1> SUFFICES ASSUME IInv, [Next]_vars PROVE TypeOK'
  OBVIOUS
<1> USE DEF TypeOK
<1>0. TypeOK /\ RunInv
  BY DEF IInv
<1>1. ASSUME NEW n \in Names, NEW force \in BOOLEAN, Start(n, force) PROVE TypeOK'
  <2>1. script' \in [name : Names, force : BOOLEAN, at : 1 .. 5]
    BY <1>1 DEF Start
  <2>2. issued' \subseteq Names
    BY <1>0, <1>1 DEF Start
  <2>3. QED
    BY <1>0, <1>1, <2>1, <2>2 DEF Start
<1>2. ASSUME script # NoRun, Proceed
      PROVE  /\ script' \in {NoRun} \cup [name : Names, force : BOOLEAN, at : 1 .. 5]
             /\ issued' \subseteq Names
             /\ broken' \subseteq Names
  BY <1>0, <1>2, ProceedStep
<1>3. CASE NewKey
  <2>1. script # NoRun /\ keys + 1 \in Nat
    BY <1>0, <1>3 DEF NewKey, At
  <2>2. Whole(keys + 1) \in Files(Nat)
    BY <2>1, FileShapes
  <2>3. QED
    BY <1>0, <1>2, <1>3, <2>1, <2>2 DEF NewKey
<1>4. CASE SelfSign
  <2>1. script # NoRun
    BY <1>4 DEF SelfSign, At
  <2>2. key[CA].is \in Nat
    BY <1>0, <1>4, FileShapes DEF SelfSign, Names
  <2>3. Whole([key |-> key[CA].is, ca |-> key[CA].is]) \in Files(Certificates)
    BY <2>2, FileShapes DEF Certificates
  <2>4. QED
    BY <1>0, <1>2, <1>4, <2>1, <2>3 DEF SelfSign
<1>5. CASE Request
  <2>1. script # NoRun /\ script.name \in Names
    BY <1>0, <1>5 DEF Request, At
  <2>2. QED
    BY <1>0, <1>2, <1>5, <2>1 DEF Request
<1>6. CASE Sign
  <2>1. script # NoRun /\ script.name \in Names
    BY <1>0, <1>6 DEF Sign, At
  <2>2. key[CA].is \in Nat /\ csr[script.name].is \in Nat
    BY <1>0, <1>6, <2>1, FileShapes DEF Sign, CanSign, Names
  <2>3. Whole([key |-> csr[script.name].is, ca |-> key[CA].is]) \in Files(Certificates)
    BY <2>2, FileShapes DEF Certificates
  <2>4. QED
    BY <1>0, <1>2, <1>6, <2>1, <2>3 DEF Sign
<1>7. CASE RemoveRequest
  <2>1. script # NoRun
    BY <1>7 DEF RemoveRequest, At
  <2>2. Absent \in Files(Nat)
    BY FileShapes
  <2>3. QED
    BY <1>0, <1>2, <1>7, <2>1, <2>2 DEF RemoveRequest
<1>8. CASE Bundle
  <2>1. script # NoRun /\ script.name \in Names
    BY <1>0, <1>8 DEF Bundle, At
  <2>2. key[script.name].is \in Nat /\ pem[script.name].is \in Certificates
    BY <1>0, <1>8, <2>1, FileShapes DEF Bundle
  <2>3. Whole([key |-> key[script.name].is, pem |-> pem[script.name].is])
          \in Files([key : Nat, pem : Certificates])
    BY <2>2, FileShapes
  <2>4. QED
    BY <1>0, <1>2, <1>8, <2>1, <2>3 DEF Bundle
<1>9. CASE Fail
  <2>1. script.name \in Names
    BY <1>0, <1>9 DEF Fail
  <2>2. /\ Torn \in Files(Nat) /\ Torn \in Files(Certificates)
        /\ Torn \in Files([key : Nat, pem : Certificates])
    BY FileShapes
  <2>3. QED
    BY <1>0, <1>9, <2>1, <2>2 DEF Fail
<1>10. CASE UNCHANGED vars
  BY <1>0, <1>10 DEF vars
<1>11. QED
  BY <1>1, <1>3, <1>4, <1>5, <1>6, <1>7, <1>8, <1>9, <1>10 DEF Next, Step

\* A run begins.
LEMMA StartKeeps ==
  ASSUME IInv, NEW n \in Names, NEW force \in BOOLEAN, Start(n, force), TypeOK'
  PROVE  IInv'
<1>0. TypeOK /\ KeyMatches /\ KeyFirst /\ IssuedVerifies
  BY DEF IInv
<1>1. /\ script = NoRun /\ MayStart(n, force)
      /\ script' # NoRun
      /\ script'.name = n /\ script'.force = force /\ script'.at = 1
      /\ issued' = IF n = CA THEN {} ELSE issued \ {n}
      /\ UNCHANGED <<key, csr, pem, p12, keys, broken>>
  BY DEF Start, NoRun
<1>2. ~ force => pem[n] = Absent
  <2>1. CASE n = CA
    BY <1>0, <1>1, <2>1 DEF MayStart, GuardedFile, Exists, KeyFirst
  <2>2. CASE n # CA
    BY <1>1, <2>2 DEF MayStart, GuardedFile, Exists
  <2>3. QED
    BY <2>1, <2>2
<1>3. RunInv'
  <2>1. 1 <= Len(Steps(n))
    BY StepsOfRuns
  <2>2. n \notin issued' /\ (n = CA => issued' = {})
    BY <1>1
  <2>3. QED
    BY <1>1, <1>2, <2>1, <2>2 DEF RunInv
<1>4. KeyMatches'
  BY <1>0, <1>1 DEF KeyMatches
<1>5. KeyFirst'
  BY <1>0, <1>1 DEF KeyFirst
<1>6. IssuedVerifies'
  <2>1. issued' \subseteq issued
    BY <1>1
  <2>2. QED
    BY <1>0, <1>1, <2>1 DEF IssuedVerifies, Verifies
<1>7. QED
  BY <1>3, <1>4, <1>5, <1>6 DEF IInv

\* Each run of a name begins with a new key.
LEMMA NewKeyKeeps ==
  ASSUME IInv, NewKey, TypeOK' PROVE IInv'
<1> DEFINE n == script.name
<1>0. TypeOK /\ RunInv /\ KeyMatches /\ KeyFirst
  BY DEF IInv
<1>1. script # NoRun /\ At("key") /\ Proceed
  BY DEF NewKey, At
<1>2. n \in Names /\ script.at = 1
  BY <1>0, <1>1, AtStep
<1>3. /\ script' # NoRun /\ script'.name = n /\ script'.force = script.force
      /\ script'.at = 2 /\ 2 <= Len(Steps(n))
      /\ issued' = issued /\ broken' = broken
  BY <1>0, <1>1, <1>2, ProceedStep
<1>4. /\ key'[n] = Whole(keys + 1)
      /\ \A m \in Names \ {n} : key'[m] = key[m]
      /\ pem' = pem /\ p12' = p12 /\ csr' = csr
  BY <1>0, <1>2 DEF NewKey, TypeOK
<1>5. RunInv'
  BY <1>0, <1>1, <1>2, <1>3, <1>4, FileShapes DEF RunInv
<1>6. KeyMatches'
  BY <1>0, <1>1, <1>3, <1>4 DEF KeyMatches
<1>7. KeyFirst'
  <2>1. CA \in Names
    BY DEF Names
  <2>2. QED
    BY <1>0, <1>4, <2>1, FileShapes DEF KeyFirst
<1>8. IssuedVerifies'
  BY <1>1, <1>3, <1>4, OthersStay DEF IssuedVerifies, Verifies
<1>9. QED
  BY <1>5, <1>6, <1>7, <1>8 DEF IInv

\* The CA signs its own certificate, and its run is over.
LEMMA SelfSignKeeps ==
  ASSUME IInv, SelfSign, TypeOK' PROVE IInv'
<1>0. TypeOK /\ RunInv /\ KeyMatches /\ CA \in Names /\ CA \notin Admins
  BY CertAssumption DEF IInv, Names
<1>1. script # NoRun /\ At("self_sign") /\ Proceed /\ key[CA].state = "whole"
  BY DEF SelfSign, At
<1>2. script.name = CA /\ script.at = 2
  BY <1>0, <1>1, AtStep
<1>3. script' = NoRun /\ issued' = issued \cup {CA} /\ broken' = broken \ {CA}
  <2>1. Len(Steps(CA)) = 2
    BY <1>0, StepsOfRuns
  <2>2. QED
    BY <1>0, <1>1, <1>2, <2>1, ProceedStep
<1>4. /\ pem'[CA] = Whole([key |-> key[CA].is, ca |-> key[CA].is])
      /\ \A m \in Names \ {CA} : pem'[m] = pem[m]
      /\ key' = key /\ p12' = p12 /\ csr' = csr
  BY <1>0 DEF SelfSign, TypeOK
<1>5. key[CA] = Whole(key[CA].is)
  BY <1>0, <1>1, FileShapes DEF TypeOK
<1>6. RunInv'
  BY <1>3 DEF RunInv
<1>7. KeyMatches'
  BY <1>0, <1>2, <1>3, <1>4, <1>5, FileShapes DEF KeyMatches
<1>8. KeyFirst'
  BY <1>4, <1>5, FileShapes DEF KeyFirst
<1>9. IssuedVerifies'
  <2>1. Verifies(CA)'
    BY <1>1, <1>4, FileShapes DEF Verifies
  <2>2. issued = {}
    BY <1>0, <1>1, <1>2 DEF RunInv
  <2>3. QED
    BY <1>0, <1>3, <2>1, <2>2 DEF IssuedVerifies
<1>10. QED
  BY <1>6, <1>7, <1>8, <1>9 DEF IInv

\* The request carries the key of the run.
LEMMA RequestKeeps ==
  ASSUME IInv, Request, TypeOK' PROVE IInv'
<1> DEFINE n == script.name
<1>0. TypeOK /\ RunInv /\ KeyMatches /\ KeyFirst
  BY DEF IInv
<1>1. script # NoRun /\ At("csr") /\ Proceed /\ key[n].state = "whole"
  BY DEF Request, At
<1>2. n \in Names /\ n # CA /\ script.at = 2
  BY <1>0, <1>1, AtStep
<1>3. /\ script' # NoRun /\ script'.name = n /\ script'.force = script.force
      /\ script'.at = 3 /\ 3 <= Len(Steps(n))
      /\ issued' = issued /\ broken' = broken
  BY <1>0, <1>1, <1>2, ProceedStep
<1>4. csr'[n] = key[n] /\ key' = key /\ pem' = pem /\ p12' = p12
  BY <1>0, <1>2 DEF Request, TypeOK
<1>5. RunInv'
  BY <1>0, <1>1, <1>2, <1>3, <1>4 DEF RunInv
<1>6. KeyMatches' /\ KeyFirst'
  BY <1>0, <1>1, <1>3, <1>4 DEF KeyMatches, KeyFirst
<1>7. IssuedVerifies'
  BY <1>1, <1>3, <1>4, OthersStay DEF IssuedVerifies, Verifies
<1>8. QED
  BY <1>5, <1>6, <1>7 DEF IInv

\* The CA signs the key of the run with its own, which its certificate is for.
LEMMA SignKeeps ==
  ASSUME IInv, Sign, TypeOK' PROVE IInv'
<1> DEFINE n == script.name
<1>0. TypeOK /\ RunInv /\ KeyMatches /\ KeyFirst /\ CA \in Names
  BY DEF IInv, Names
<1>1. script # NoRun /\ At("sign") /\ Proceed /\ CanSign
  BY DEF Sign, At
<1>2. n \in Names /\ n # CA /\ script.at = 3
  BY <1>0, <1>1, AtStep
<1>3. /\ script' # NoRun /\ script'.name = n /\ script'.force = script.force
      /\ script'.at = 4 /\ 4 <= Len(Steps(n))
      /\ issued' = issued /\ broken' = broken
  BY <1>0, <1>1, <1>2, ProceedStep
<1>4. /\ pem'[n] = Whole([key |-> csr[n].is, ca |-> key[CA].is])
      /\ \A m \in Names \ {n} : pem'[m] = pem[m]
      /\ key' = key /\ p12' = p12 /\ csr' = csr
  BY <1>0, <1>2 DEF Sign, TypeOK
<1>5. key[n].state = "whole" /\ csr[n] = key[n]
  BY <1>0, <1>1, <1>2 DEF RunInv
<1>6. Verifies(n)'
  <2>1. pem'[CA].state = "whole" /\ pem'[CA].is.key = key[CA].is
    BY <1>0, <1>1, <1>2, <1>4 DEF CanSign
  <2>2. pem'[n].state = "whole" /\ pem'[n].is = [key |-> key[n].is, ca |-> key[CA].is]
    BY <1>4, <1>5, FileShapes
  <2>3. QED
    BY <1>3, <1>4, <1>5, <2>1, <2>2 DEF Verifies
<1>7. RunInv'
  BY <1>0, <1>1, <1>2, <1>3, <1>4, <1>5, <1>6 DEF RunInv
<1>8. KeyMatches'
  BY <1>0, <1>1, <1>3, <1>4 DEF KeyMatches
<1>9. KeyFirst'
  BY <1>0, <1>2, <1>4 DEF KeyFirst
<1>10. IssuedVerifies'
  BY <1>1, <1>3, <1>4, OthersStay DEF IssuedVerifies, Verifies
<1>11. QED
  BY <1>7, <1>8, <1>9, <1>10 DEF IInv

\* A run that ends leaves a certificate that verifies and, for an admin, the
\* bundle that goes with it.
LEMMA RunEnds ==
  ASSUME IInv, script # NoRun, script' = NoRun,
         key' = key, pem' = pem,
         \A m \in Names \ {script.name} : p12'[m] = p12[m],
         issued' = issued \cup {script.name}, broken' = broken \ {script.name},
         script.name # CA, script.at > 3,
         script.name \in Admins =>
           p12'[script.name] = Whole([key |-> key[script.name].is,
                                      pem |-> pem[script.name].is])
  PROVE  RunInv' /\ KeyMatches' /\ KeyFirst' /\ IssuedVerifies'
<1> DEFINE n == script.name
<1>0. TypeOK /\ RunInv /\ KeyMatches /\ KeyFirst /\ n \in Names
  BY DEF IInv, TypeOK
<1>1. Verifies(n)
  BY <1>0 DEF RunInv
<1>2. key[n] = Whole(pem[n].is.key)
  BY <1>0, <1>1, FileShapes DEF Verifies, TypeOK
<1>3. RunInv'
  BY DEF RunInv
<1>4. KeyMatches'
  BY <1>0, <1>2 DEF KeyMatches
<1>5. KeyFirst'
  BY <1>0 DEF KeyFirst
<1>6. IssuedVerifies'
  <2>1. ASSUME NEW m \in issued'
        PROVE  /\ Verifies(m)'
               /\ m \in Admins => p12'[m] = Whole([key |-> key'[m].is, pem |-> pem'[m].is])
    <3>1. CASE m = n
      BY <1>1, <3>1 DEF Verifies
    <3>2. CASE m # n
      BY <2>1, <3>2, OthersStay
    <3>3. QED
      BY <3>1, <3>2
  <2>2. QED
    BY <2>1 DEF IssuedVerifies, Verifies
<1>7. QED
  BY <1>3, <1>4, <1>5, <1>6

\* The request is removed; the run of a device or a server is over.
LEMMA RemoveRequestKeeps ==
  ASSUME IInv, RemoveRequest, TypeOK' PROVE IInv'
<1> DEFINE n == script.name
<1>0. TypeOK /\ RunInv /\ KeyMatches /\ KeyFirst
  BY DEF IInv
<1>1. /\ script # NoRun /\ At("rm") /\ Proceed
      /\ key' = key /\ pem' = pem /\ p12' = p12
  BY DEF RemoveRequest, At
<1>2. n \in Names /\ n # CA /\ script.at = 4
  BY <1>0, <1>1, AtStep
<1>3. CASE script' # NoRun
  <2>1. /\ script'.name = n /\ script'.force = script.force
        /\ script'.at = 5 /\ 5 <= Len(Steps(n))
        /\ issued' = issued /\ broken' = broken
    BY <1>0, <1>1, <1>2, <1>3, ProceedStep
  <2>2. Verifies(n)' /\ key[n].state = "whole"
    BY <1>0, <1>1, <1>2, <2>1 DEF RunInv, Verifies
  <2>3. RunInv'
    BY <1>0, <1>1, <1>2, <1>3, <2>1, <2>2 DEF RunInv
  <2>4. KeyMatches' /\ KeyFirst'
    BY <1>0, <1>1, <1>3, <2>1 DEF KeyMatches, KeyFirst
  <2>5. IssuedVerifies'
    BY <1>1, <2>1, OthersStay DEF IssuedVerifies, Verifies
  <2>6. QED
    BY <2>3, <2>4, <2>5 DEF IInv
<1>4. CASE script' = NoRun
  <2>1. n \notin Admins /\ issued' = issued \cup {n} /\ broken' = broken \ {n}
    BY <1>0, <1>1, <1>2, <1>4, ProceedStep
  <2>2. QED
    BY <1>1, <1>2, <1>4, <2>1, RunEnds DEF IInv
<1>5. QED
  BY <1>3, <1>4

\* The bundle of an admin is made, and the run is over.
LEMMA BundleKeeps ==
  ASSUME IInv, Bundle, TypeOK' PROVE IInv'
<1> DEFINE n == script.name
<1>0. TypeOK /\ RunInv
  BY DEF IInv
<1>1. /\ script # NoRun /\ At("p12") /\ Proceed
      /\ key' = key /\ pem' = pem
  BY DEF Bundle, At
<1>2. n \in Names /\ n # CA /\ script.at = 5
  BY <1>0, <1>1, AtStep
<1>3. script' = NoRun /\ issued' = issued \cup {n} /\ broken' = broken \ {n}
  BY <1>0, <1>1, <1>2, ProceedStep
<1>4. /\ p12'[n] = Whole([key |-> key[n].is, pem |-> pem[n].is])
      /\ \A m \in Names \ {n} : p12'[m] = p12[m]
  BY <1>0, <1>2 DEF Bundle, TypeOK
<1>5. QED
  BY <1>1, <1>2, <1>3, <1>4, RunEnds DEF IInv

\* A step that fails ends the run; what it was to write is as it was, or torn.
LEMMA FailKeeps ==
  ASSUME IInv, Fail, TypeOK' PROVE IInv'
<1> DEFINE n == script.name
<1>0. TypeOK /\ RunInv /\ KeyMatches /\ KeyFirst /\ script # NoRun /\ n \in Names
  BY DEF IInv, TypeOK, Fail
<1>1. /\ script' = NoRun /\ issued' = issued
      /\ broken' = IF script.force THEN broken \cup {n} ELSE broken
  BY DEF Fail
<1>2. /\ \A m \in Names \ {n} :
           key'[m] = key[m] /\ pem'[m] = pem[m] /\ p12'[m] = p12[m]
      /\ \/ key'[n] = key[n] /\ pem'[n] = pem[n]
         \/ script.at = 1 /\ key'[n] = Torn /\ pem'[n] = pem[n]
         \/ /\ script.at = 3 \/ (script.at = 2 /\ n = CA)
            /\ pem'[n] = Torn /\ key'[n] = key[n]
  <2>1. CASE UNCHANGED <<key, csr, pem, p12>>
    BY <2>1
  <2>2. CASE At("key") /\ key' = [key EXCEPT ![n] = Torn] /\ UNCHANGED <<csr, pem, p12>>
    BY <1>0, <2>2, AtStep DEF TypeOK
  <2>3. CASE UNCHANGED <<key, pem, p12>>
    BY <2>3
  <2>4. CASE /\ At("sign") \/ At("self_sign")
             /\ pem' = [pem EXCEPT ![n] = Torn] /\ UNCHANGED <<key, csr, p12>>
    BY <1>0, <2>4, AtStep DEF TypeOK
  <2>5. CASE p12' = [p12 EXCEPT ![n] = Torn] /\ UNCHANGED <<key, csr, pem>>
    BY <1>0, <2>5 DEF TypeOK
  <2>6. QED
    BY <2>1, <2>2, <2>3, <2>4, <2>5 DEF Fail
<1>3. RunInv'
  BY <1>1 DEF RunInv
<1>4. KeyMatches'
  <2>1. ASSUME pem'[n].state = "whole", n \notin broken'
        PROVE  key'[n] = Whole(pem'[n].is.key)
    <3>1. ~ script.force
      BY <1>1, <2>1
    <3>2. pem'[n] = pem[n] /\ pem[n] # Absent
      BY <1>2, <2>1, FileShapes
    <3>3. script.at \in 1 .. 5 /\ script.at > 3 /\ n # CA
      BY <1>0, <3>1, <3>2, AtStep DEF RunInv
    <3>4. key'[n] = key[n] /\ Verifies(n)
      BY <1>0, <1>2, <2>1, <3>2, <3>3, FileShapes DEF RunInv
    <3>5. QED
      BY <1>0, <3>2, <3>4, FileShapes DEF Verifies, TypeOK
  <2>2. ASSUME NEW m \in Names \ {n}, pem'[m].state = "whole", m \notin broken'
        PROVE  key'[m] = Whole(pem'[m].is.key)
    BY <1>0, <1>1, <1>2, <2>2 DEF KeyMatches
  <2>3. QED
    BY <2>1, <2>2 DEF KeyMatches
<1>5. KeyFirst'
  <2>1. CASE n = CA
    BY <1>0, <1>2, <2>1, FileShapes DEF KeyFirst, RunInv
  <2>2. CASE n # CA
    BY <1>0, <1>2, <2>2 DEF KeyFirst, Names
  <2>3. QED
    BY <2>1, <2>2
<1>6. IssuedVerifies'
  BY <1>0, <1>1, <1>2, OthersStay DEF IssuedVerifies, Verifies
<1>7. QED
  BY <1>3, <1>4, <1>5, <1>6 DEF IInv

-----------------------------------------------------------------------------

\* In every state the files have the types given and the run has established
\* what its steps so far are for.
THEOREM CertInvariant == Spec => []IInv
<1>1. Init => IInv
  <2> SUFFICES ASSUME Init PROVE IInv
    OBVIOUS
  <2>1. TypeOK
    BY FileShapes DEF Init, TypeOK
  <2>2. RunInv /\ KeyFirst /\ IssuedVerifies
    BY DEF Init, RunInv, KeyFirst, IssuedVerifies, Names
  <2>3. KeyMatches
    BY FileShapes DEF Init, KeyMatches
  <2>4. QED
    BY <2>1, <2>2, <2>3 DEF IInv
<1>2. IInv /\ [Next]_vars => IInv'
  <2> SUFFICES ASSUME IInv, [Next]_vars PROVE IInv'
    OBVIOUS
  <2>0. TypeOK'
    BY TypeStep
  <2>1. ASSUME NEW n \in Names, NEW force \in BOOLEAN, Start(n, force) PROVE IInv'
    BY <2>0, <2>1, StartKeeps
  <2>2. CASE Step
    BY <2>0, <2>2, NewKeyKeeps, SelfSignKeeps, RequestKeeps, SignKeeps,
       RemoveRequestKeeps, BundleKeeps DEF Step
  <2>3. CASE Fail
    BY <2>0, <2>3, FailKeeps
  <2>4. CASE UNCHANGED vars
    BY <2>0, <2>4 DEF vars, IInv, RunInv, KeyMatches, KeyFirst, IssuedVerifies, Verifies
  <2>5. QED
    BY <2>1, <2>2, <2>3, <2>4 DEF Next
<1>3. QED
  BY <1>1, <1>2, PTL DEF Spec

\* A run of gen_certs.sh that went to its end leaves a certificate for the key
\* beside it, signed by the CA that is there, and an admin's bundle of the two,
\* whatever earlier runs, failures and interruptions had left behind.
THEOREM CertIssuedVerifies == Spec => []IssuedVerifies
<1>1. IInv => IssuedVerifies
  BY DEF IInv
<1>2. QED
  BY <1>1, CertInvariant, PTL

\* Without FORCE=1 no run, however it ends, leaves a key beside a certificate for
\* another key: refuse_overwrite is enough, though it looks only at one file.
THEOREM CertNoSilentMismatch == Spec => []NoSilentMismatch
<1>1. IInv => NoSilentMismatch
  BY DEF IInv, KeyMatches, NoSilentMismatch
<1>2. QED
  BY <1>1, CertInvariant, PTL
=============================================================================
