------------------------- MODULE SandboxProviderProofs -------------------------
(***************************************************************************)
(* What the sandbox provider never loses, for any admissions, names and    *)
(* limits: the sandboxes it has, and the calls it keeps to destroy them.   *)
(*                                                                         *)
(* CleanupIsPaid is not inductive.  A reservation is spent by the one      *)
(* preflight of its name, or by the one release of its name: Alone says    *)
(* that never two of these are at work, and Paid counts what is left of    *)
(* the lifecycle at each of its calls.  What the calls of the window sum   *)
(* up to plays no part: a reservation that is held is not taken back.      *)
(***************************************************************************)
EXTENDS SandboxProvider, TLAPS

\* The calls a preflight waits for.
Calls == {"create", "probe", "inspect", "update", "reinspect", "verify", "stop", "delete"}

\* The release of a has an unanswered call.
Releasing(a) == pc[a] \in {"stop", "delete"}

\* The shape of the state: who waits for a call of a name is an admission of that name.
ProviderTypeOK ==
    /\ DOMAIN pc = Admission
    /\ DOMAIN job = Name
    /\ \A n \in Name : job[n] # Idle =>
          /\ DOMAIN job[n] = {"by", "at"} /\ job[n].at \in Calls
          /\ job[n].by \in Admission /\ NameOf[job[n].by] = n
          /\ pc[job[n].by] \in {"waiting", "late"}
    /\ lease \in [Name -> Admission \cup {Nobody}]
    /\ \A n \in Name : lease[n] # Nobody => NameOf[lease[n]] = n
    /\ quarantine \in [Name -> {NoQuarantine} \cup
           [by : Admission \cup {Reconcile}, res : Name \cup {Reconcile}, stopped : BOOLEAN]]
    /\ reserved \in [Name \cup {Reconcile} -> Int]
    /\ sandbox \in [Name -> BOOLEAN]

\* One at a time spends the reservation of a name: a preflight, or the release of the
\* admission that has the lease or the quarantine.
Alone ==
    /\ \A n \in Name : Pending(n) => ~Leased(n) /\ quarantine[n].by \notin Admission
    /\ \A n \in Name : Leased(n) => quarantine[n].by \in {lease[n], Reconcile, Nobody}
    /\ \A a \in Admission : Releasing(a) =>
          /\ ~Pending(NameOf[a]) /\ reserved[NameOf[a]] >= 0
          /\ lease[NameOf[a]] \in {a, Nobody}
          /\ quarantine[NameOf[a]].by \in {a, Reconcile, Nobody}
          /\ \A b \in Admission : Releasing(b) /\ NameOf[b] = NameOf[a] => b = a

\* What is left of a lifecycle, the calls that stop and delete included.
Left(j) ==
    CASE j.at = "create" -> LifecycleCalls(j.by) - 1
      [] j.at = "probe" -> LifecycleCalls(j.by) - 2
      [] j.at = "inspect" -> LifecycleCalls(j.by) - 3
      [] j.at = "update" -> 3
      [] j.at \in {"reinspect", "verify"} -> 2
      [] j.at = "stop" -> 1
      [] OTHER -> 0

\* A lease on a sandbox that nobody has begun to destroy.
HeldLease(n) == Leased(n) /\ sandbox[n] /\ ~Quarantined(n) /\ ~Releasing(lease[n])

\* A preflight has reserved the rest of its lifecycle, and a lease its two cleanup calls.
Paid ==
    /\ \A n \in Name : Pending(n) => reserved[n] >= Left(job[n])
    /\ \A n \in Name : HeldLease(n) => reserved[n] >= 2

\* The inductive invariant.
ProviderInv == ProviderTypeOK /\ Alone /\ Paid /\ NoSandboxForgotten /\ NameIsFree

\* No call, lease or quarantine at the beginning.
LEMMA ProviderInit == ASSUME Init PROVE ProviderInv
<1>1. /\ \A n \in Name : job[n] = Idle /\ lease[n] = Nobody /\ quarantine[n] = NoQuarantine
      /\ \A n \in Asked : ~sandbox[n]
      /\ \A a \in Admission : pc[a] = "idle"
  BY ProviderAssumption DEF Init, Asked
<1>2. ProviderTypeOK
  BY <1>1, ProviderAssumption DEF Init, ProviderTypeOK, NoQuarantine, Asked
<1>3. Alone /\ Paid
  BY <1>1 DEF Alone, Paid, Pending, Releasing, HeldLease, Leased
<1>4. NoSandboxForgotten /\ NameIsFree
  BY <1>1 DEF NoSandboxForgotten, NameIsFree
<1> QED BY <1>2, <1>3, <1>4 DEF ProviderInv

\* A preflight that is let in reserves a whole lifecycle for its free name.
LEMMA PreflightKept ==
    ASSUME ProviderInv, NEW a \in Admission, Preflight(a)
    PROVE  ProviderInv'
<1> USE ProviderAssumption DEF Preflight, MayCreate, ProviderInv, Pending, Leased,
        Quarantined, LifecycleCalls, world
<1> DEFINE m == NameOf[a]
<1>1. m \in Name /\ m \in Asked BY DEF Asked
<1>2. ProviderTypeOK' BY <1>1 DEF ProviderTypeOK, Idle, Calls
<1>3. Alone'
  <2>1. ~Releasing(a) /\ \A b \in Admission : Releasing(b) => NameOf[b] # m
    BY <1>1 DEF Alone, Releasing
  <2>2. /\ \A b \in Admission : Releasing(b)' => Releasing(b)
        /\ \A n \in Name : n # m => job'[n] = job[n] /\ reserved'[n] = reserved[n]
        /\ lease' = lease /\ quarantine' = quarantine
    BY <1>1, <2>1 DEF ProviderTypeOK, Releasing
  <2>3. ~Leased(m) /\ quarantine[m].by \notin Admission
    BY <1>1 DEF NoQuarantine
  <2> QED BY <2>1, <2>2, <2>3 DEF Alone, Leased
<1>4. Paid' BY <1>1 DEF ProviderTypeOK, Paid, HeldLease, Left, Releasing, Idle
<1>5. NoSandboxForgotten' BY <1>1 DEF ProviderTypeOK, NoSandboxForgotten, Held, Asked, Idle
<1>6. NameIsFree' BY <1>1 DEF ProviderTypeOK, NoSandboxForgotten, NameIsFree, Held, Asked
<1> QED BY <1>2, <1>3, <1>4, <1>5, <1>6

\* A preflight that is refused leaves the name alone.
LEMMA PreflightRefusedKept ==
    ASSUME ProviderInv, NEW a \in Admission, PreflightRefused(a)
    PROVE  ProviderInv'
<1> USE ProviderAssumption DEF PreflightRefused, MayCreate, ProviderInv, Pending, Leased,
        Quarantined, LifecycleCalls, world
<1> DEFINE m == NameOf[a]
<1>1. m \in Name /\ m \in Asked BY DEF Asked
<1>2. ProviderTypeOK' BY <1>1 DEF ProviderTypeOK, Idle, Calls
<1>3. Alone' BY <1>1 DEF ProviderTypeOK, Alone, Releasing, Idle
<1>4. Paid' BY <1>1 DEF ProviderTypeOK, Paid, HeldLease, Left, Releasing, Idle
<1>5. NoSandboxForgotten' BY <1>1 DEF ProviderTypeOK, NoSandboxForgotten, Held, Asked, Idle
<1>6. NameIsFree' BY <1>1 DEF ProviderTypeOK, NoSandboxForgotten, NameIsFree, Held, Asked
<1> QED BY <1>2, <1>3, <1>4, <1>5, <1>6

\* The admission gives its answer up; its call stays at work.
LEMMA TimeOutKept ==
    ASSUME ProviderInv, NEW a \in Admission, TimeOut(a)
    PROVE  ProviderInv'
<1> USE ProviderAssumption DEF TimeOut, MayCreate, ProviderInv, Pending, Leased,
        Quarantined, LifecycleCalls, world
<1> DEFINE m == NameOf[a]
<1>1. m \in Name /\ m \in Asked BY DEF Asked
<1>2. ProviderTypeOK' BY <1>1 DEF ProviderTypeOK, Idle, Calls
<1>3. Alone' BY <1>1 DEF ProviderTypeOK, Alone, Releasing, Idle
<1>4. Paid' BY <1>1 DEF ProviderTypeOK, Paid, HeldLease, Left, Releasing, Idle
<1>5. NoSandboxForgotten' BY <1>1 DEF ProviderTypeOK, NoSandboxForgotten, Held, Asked, Idle
<1>6. NameIsFree' BY <1>1 DEF ProviderTypeOK, NoSandboxForgotten, NameIsFree, Held, Asked
<1> QED BY <1>2, <1>3, <1>4, <1>5, <1>6

\* A call of a preflight is answered: it goes on to the next one.
LEMMA AnsweredKept == ASSUME ProviderInv, NEW n \in Name, Answered(n) PROVE ProviderInv'
<1> USE ProviderAssumption DEF ProviderInv, Pending, Leased, Quarantined
<1> DEFINE a == job[n].by  x == Following(n)
<1>1. job[n] # Idle
  BY DEF Answered, Probing, Idle
<1>2. /\ a \in Admission /\ NameOf[a] = n /\ n \in Asked
       /\ pc[a] \in {"waiting", "late"} /\ job[n].at \in Calls
       /\ DOMAIN job[n] = {"by", "at"} /\ DOMAIN job = Name
  BY <1>1 DEF ProviderTypeOK, Asked
<1>3. /\ job[n] # Idle /\ a \in Admission /\ NameOf[a] = n /\ n \in Asked
      /\ pc[a] \in {"waiting", "late"} /\ job[n].at \in Calls
  BY <1>1, <1>2
<1>4. /\ x \in Calls \ {"create"} /\ x # "none"
      /\ Left(job[n]) \in Int /\ Left([by |-> a, at |-> x]) \in Int
      /\ Left([by |-> a, at |-> x]) <= Left(job[n]) - (IF x = "verify" THEN 0 ELSE 1)
  BY <1>3 DEF Answered, Following, Probing, Calls, Left, LifecycleCalls
<1>5. /\ DOMAIN job' = Name /\ job'[n] = [by |-> a, at |-> x]
      /\ \A m \in Name : m # n => job'[m] = job[m]
      /\ pc' = pc /\ lease' = lease /\ quarantine' = quarantine
  <2>1. job' = [job EXCEPT ![n].at = x] BY DEF Answered
  <2> HIDE DEF x
  <2>2. job'[n] = [job[n] EXCEPT !.at = x] BY <2>1, <1>2
  <2>3. job'[n] = [by |-> a, at |-> x] BY <2>2, <1>2
  <2> QED BY <2>1, <2>3, <1>2 DEF Answered
<1>6. /\ sandbox' \in [Name -> BOOLEAN]
      /\ \A m \in Name : m # n => sandbox'[m] = sandbox[m]
  BY <1>3 DEF Answered, ProviderTypeOK, Effect, world
<1>7. /\ reserved' \in [Name \cup {Reconcile} -> Int]
      /\ \A m \in Name : m # n => reserved'[m] = reserved[m]
      /\ reserved[n] >= Left(job[n]) => reserved'[n] >= Left([by |-> a, at |-> x])
  <2>1. /\ reserved' = IF x = "verify" THEN reserved
                        ELSE [reserved EXCEPT ![n] = reserved[n] - 1]
        /\ reserved \in [Name \cup {Reconcile} -> Int]
    BY DEF Answered, ProviderTypeOK, NoCall, Call
  <2>2. reserved'[n] = reserved[n] - (IF x = "verify" THEN 0 ELSE 1)
    BY <2>1
  <2> HIDE DEF x
  <2>3. reserved[n] >= Left(job[n]) => reserved'[n] >= Left([by |-> a, at |-> x])
    BY <2>1, <2>2, <1>4
  <2> QED BY <2>1, <2>3
<1>8. \A m \in Name : Pending(m)' <=> Pending(m)
  BY <1>3, <1>4, <1>5 DEF Idle
<1> HIDE DEF x
<1>9. ProviderTypeOK' BY <1>3, <1>4, <1>5, <1>6, <1>7 DEF ProviderTypeOK
<1>10. Alone'
  <2>1. \A b \in Admission : Releasing(b) => NameOf[b] # n
    BY <1>3 DEF Alone
  <2> QED BY <2>1, <1>5, <1>7, <1>8 DEF Alone, Releasing, ProviderTypeOK
<1>11. Paid'
  <2>1. \A m \in Name : HeldLease(m)' => m # n /\ HeldLease(m)
    BY <1>3, <1>5, <1>6 DEF Alone, HeldLease, Releasing
  <2>2. reserved'[n] >= Left(job'[n])
    BY <1>3, <1>5, <1>7 DEF Paid
  <2>3. \A m \in Name : m # n => reserved'[m] = reserved[m] /\ job'[m] = job[m]
    BY <1>5, <1>7
  <2>4. ASSUME NEW m \in Name, m # n, Pending(m)' PROVE reserved'[m] >= Left(job'[m])
    BY <2>3, <2>4, <1>8 DEF Paid
  <2>5. ASSUME NEW m \in Name, HeldLease(m)' PROVE reserved'[m] >= 2
    BY <2>1, <2>3, <2>5 DEF Paid
  <2>6. \A m \in Name : Pending(m)' => reserved'[m] >= Left(job'[m])
    BY <2>2, <2>4
  <2> HIDE DEF Left, HeldLease, Pending
  <2> QED BY <2>5, <2>6 DEF Paid, Left
<1>12. NoSandboxForgotten'
  BY <1>3, <1>5, <1>6, <1>8 DEF NoSandboxForgotten, Held, Asked
<1>13. NameIsFree' BY <1>4, <1>5, <1>6 DEF NameIsFree, Asked
<1> QED BY <1>9, <1>10, <1>11, <1>12, <1>13

\* A failed probe goes on to destroy the sandbox it has.
LEMMA ProbeFailsKept ==
    ASSUME ProviderInv, NEW n \in Name, ProbeFails(n)
    PROVE  ProviderInv'
<1> USE ProviderAssumption DEF ProviderInv, Pending, Leased, Quarantined
<1> DEFINE a == job[n].by  x == "stop"
<1>1. job[n] # Idle
  BY DEF ProbeFails, Probing, Idle
<1>2. /\ a \in Admission /\ NameOf[a] = n /\ n \in Asked
       /\ pc[a] \in {"waiting", "late"} /\ job[n].at \in Calls
       /\ DOMAIN job[n] = {"by", "at"} /\ DOMAIN job = Name
  BY <1>1 DEF ProviderTypeOK, Asked
<1>3. /\ job[n] # Idle /\ a \in Admission /\ NameOf[a] = n /\ n \in Asked
      /\ pc[a] \in {"waiting", "late"} /\ job[n].at \in Calls
  BY <1>1, <1>2
<1>4. /\ x \in Calls \ {"create"} /\ x # "none"
      /\ Left(job[n]) \in Int /\ Left([by |-> a, at |-> x]) \in Int
      /\ Left([by |-> a, at |-> x]) <= Left(job[n]) - (IF x = "verify" THEN 0 ELSE 1)
  BY <1>3 DEF ProbeFails, Following, Probing, Calls, Left, LifecycleCalls
<1>5. /\ DOMAIN job' = Name /\ job'[n] = [by |-> a, at |-> x]
      /\ \A m \in Name : m # n => job'[m] = job[m]
      /\ pc' = pc /\ lease' = lease /\ quarantine' = quarantine
  <2>1. job' = [job EXCEPT ![n].at = x] BY DEF ProbeFails
  <2> HIDE DEF x
  <2>2. job'[n] = [job[n] EXCEPT !.at = x] BY <2>1, <1>2
  <2>3. job'[n] = [by |-> a, at |-> x] BY <2>2, <1>2
  <2> QED BY <2>1, <2>3, <1>2 DEF ProbeFails
<1>6. /\ sandbox' \in [Name -> BOOLEAN]
      /\ \A m \in Name : m # n => sandbox'[m] = sandbox[m]
  <2>1. sandbox' = sandbox \/ sandbox' = [sandbox EXCEPT ![n] = TRUE]
    BY DEF ProbeFails, Effect
  <2> QED BY <2>1 DEF ProviderTypeOK
<1>7. /\ reserved' \in [Name \cup {Reconcile} -> Int]
      /\ \A m \in Name : m # n => reserved'[m] = reserved[m]
      /\ reserved[n] >= Left(job[n]) => reserved'[n] >= Left([by |-> a, at |-> x])
  <2>1. /\ reserved' = IF x = "verify" THEN reserved
                        ELSE [reserved EXCEPT ![n] = reserved[n] - 1]
        /\ reserved \in [Name \cup {Reconcile} -> Int]
    BY DEF ProbeFails, ProviderTypeOK, NoCall, Call
  <2>2. reserved'[n] = reserved[n] - (IF x = "verify" THEN 0 ELSE 1)
    BY <2>1
  <2> HIDE DEF x
  <2>3. reserved[n] >= Left(job[n]) => reserved'[n] >= Left([by |-> a, at |-> x])
    BY <2>1, <2>2, <1>4
  <2> QED BY <2>1, <2>3
<1>8. \A m \in Name : Pending(m)' <=> Pending(m)
  BY <1>3, <1>4, <1>5 DEF Idle
<1> HIDE DEF x
<1>9. ProviderTypeOK' BY <1>3, <1>4, <1>5, <1>6, <1>7 DEF ProviderTypeOK
<1>10. Alone'
  <2>1. \A b \in Admission : Releasing(b) => NameOf[b] # n
    BY <1>3 DEF Alone
  <2> QED BY <2>1, <1>5, <1>7, <1>8 DEF Alone, Releasing, ProviderTypeOK
<1>11. Paid'
  <2>1. \A m \in Name : HeldLease(m)' => m # n /\ HeldLease(m)
    BY <1>3, <1>5, <1>6 DEF Alone, HeldLease, Releasing
  <2>2. reserved'[n] >= Left(job'[n])
    BY <1>3, <1>5, <1>7 DEF Paid
  <2>3. \A m \in Name : m # n => reserved'[m] = reserved[m] /\ job'[m] = job[m]
    BY <1>5, <1>7
  <2>4. ASSUME NEW m \in Name, m # n, Pending(m)' PROVE reserved'[m] >= Left(job'[m])
    BY <2>3, <2>4, <1>8 DEF Paid
  <2>5. ASSUME NEW m \in Name, HeldLease(m)' PROVE reserved'[m] >= 2
    BY <2>1, <2>3, <2>5 DEF Paid
  <2>6. \A m \in Name : Pending(m)' => reserved'[m] >= Left(job'[m])
    BY <2>2, <2>4
  <2> HIDE DEF Left, HeldLease, Pending
  <2> QED BY <2>5, <2>6 DEF Paid, Left
<1>12. NoSandboxForgotten'
  BY <1>3, <1>5, <1>6, <1>8 DEF NoSandboxForgotten, Held, Asked
<1>13. NameIsFree' BY <1>4, <1>5, <1>6 DEF NameIsFree, Asked
<1> QED BY <1>9, <1>10, <1>11, <1>12, <1>13

\* The sandbox of a failed preflight is stopped: it is deleted next.
LEMMA ProbeStoppedKept ==
    ASSUME ProviderInv, NEW n \in Name, ProbeStopped(n)
    PROVE  ProviderInv'
<1> USE ProviderAssumption DEF ProviderInv, Pending, Leased, Quarantined
<1> DEFINE a == job[n].by  x == "delete"
<1>1. job[n] # Idle
  BY DEF ProbeStopped, Probing, Idle
<1>2. /\ a \in Admission /\ NameOf[a] = n /\ n \in Asked
       /\ pc[a] \in {"waiting", "late"} /\ job[n].at \in Calls
       /\ DOMAIN job[n] = {"by", "at"} /\ DOMAIN job = Name
  BY <1>1 DEF ProviderTypeOK, Asked
<1>3. /\ job[n] # Idle /\ a \in Admission /\ NameOf[a] = n /\ n \in Asked
      /\ pc[a] \in {"waiting", "late"} /\ job[n].at \in Calls
  BY <1>1, <1>2
<1>4. /\ x \in Calls \ {"create"} /\ x # "none"
      /\ Left(job[n]) \in Int /\ Left([by |-> a, at |-> x]) \in Int
      /\ Left([by |-> a, at |-> x]) <= Left(job[n]) - (IF x = "verify" THEN 0 ELSE 1)
  BY <1>3 DEF ProbeStopped, Following, Probing, Calls, Left, LifecycleCalls
<1>5. /\ DOMAIN job' = Name /\ job'[n] = [by |-> a, at |-> x]
      /\ \A m \in Name : m # n => job'[m] = job[m]
      /\ pc' = pc /\ lease' = lease /\ quarantine' = quarantine
  <2>1. job' = [job EXCEPT ![n].at = x] BY DEF ProbeStopped
  <2> HIDE DEF x
  <2>2. job'[n] = [job[n] EXCEPT !.at = x] BY <2>1, <1>2
  <2>3. job'[n] = [by |-> a, at |-> x] BY <2>2, <1>2
  <2> QED BY <2>1, <2>3, <1>2 DEF ProbeStopped
<1>6. /\ sandbox' \in [Name -> BOOLEAN]
      /\ \A m \in Name : m # n => sandbox'[m] = sandbox[m]
  BY <1>3 DEF ProbeStopped, ProviderTypeOK, Effect, world
<1>7. /\ reserved' \in [Name \cup {Reconcile} -> Int]
      /\ \A m \in Name : m # n => reserved'[m] = reserved[m]
      /\ reserved[n] >= Left(job[n]) => reserved'[n] >= Left([by |-> a, at |-> x])
  <2>1. /\ reserved' = IF x = "verify" THEN reserved
                        ELSE [reserved EXCEPT ![n] = reserved[n] - 1]
        /\ reserved \in [Name \cup {Reconcile} -> Int]
    BY DEF ProbeStopped, ProviderTypeOK, NoCall, Call
  <2>2. reserved'[n] = reserved[n] - (IF x = "verify" THEN 0 ELSE 1)
    BY <2>1
  <2> HIDE DEF x
  <2>3. reserved[n] >= Left(job[n]) => reserved'[n] >= Left([by |-> a, at |-> x])
    BY <2>1, <2>2, <1>4
  <2> QED BY <2>1, <2>3
<1>8. \A m \in Name : Pending(m)' <=> Pending(m)
  BY <1>3, <1>4, <1>5 DEF Idle
<1> HIDE DEF x
<1>9. ProviderTypeOK' BY <1>3, <1>4, <1>5, <1>6, <1>7 DEF ProviderTypeOK
<1>10. Alone'
  <2>1. \A b \in Admission : Releasing(b) => NameOf[b] # n
    BY <1>3 DEF Alone
  <2> QED BY <2>1, <1>5, <1>7, <1>8 DEF Alone, Releasing, ProviderTypeOK
<1>11. Paid'
  <2>1. \A m \in Name : HeldLease(m)' => m # n /\ HeldLease(m)
    BY <1>3, <1>5, <1>6 DEF Alone, HeldLease, Releasing
  <2>2. reserved'[n] >= Left(job'[n])
    BY <1>3, <1>5, <1>7 DEF Paid
  <2>3. \A m \in Name : m # n => reserved'[m] = reserved[m] /\ job'[m] = job[m]
    BY <1>5, <1>7
  <2>4. ASSUME NEW m \in Name, m # n, Pending(m)' PROVE reserved'[m] >= Left(job'[m])
    BY <2>3, <2>4, <1>8 DEF Paid
  <2>5. ASSUME NEW m \in Name, HeldLease(m)' PROVE reserved'[m] >= 2
    BY <2>1, <2>3, <2>5 DEF Paid
  <2>6. \A m \in Name : Pending(m)' => reserved'[m] >= Left(job'[m])
    BY <2>2, <2>4
  <2> HIDE DEF Left, HeldLease, Pending
  <2> QED BY <2>5, <2>6 DEF Paid, Left
<1>12. NoSandboxForgotten'
  BY <1>3, <1>5, <1>6, <1>8 DEF NoSandboxForgotten, Held, Asked
<1>13. NameIsFree' BY <1>4, <1>5, <1>6 DEF NameIsFree, Asked
<1> QED BY <1>9, <1>10, <1>11, <1>12, <1>13

\* A verified sandbox is leased, or released when its admission is gone.
LEMMA GrantedKept == ASSUME ProviderInv, NEW n \in Name, Granted(n) PROVE ProviderInv'
<1> USE ProviderAssumption DEF ProviderInv, Pending, Leased, Quarantined
<1> DEFINE a == job[n].by
<1>1. /\ job[n] # Idle /\ a \in Admission /\ NameOf[a] = n /\ n \in Asked
      /\ pc[a] \in {"waiting", "late"}
      /\ lease[n] = Nobody /\ quarantine[n].by \notin Admission
  BY DEF ProviderTypeOK, Alone, Probing, Idle, Asked, Granted
<1>2. /\ DOMAIN job' = Name /\ job'[n] = Idle
      /\ \A m \in Name : m # n => job'[m] = job[m]
  BY <1>1 DEF Granted, ProviderTypeOK
<1>3. /\ DOMAIN pc' = Admission /\ pc'[a] \in {"accepted", "release"}
      /\ \A b \in Admission : b # a => pc'[b] = pc[b]
  BY <1>1 DEF Granted, ProviderTypeOK, Settled
<1>4. /\ sandbox' \in [Name -> BOOLEAN]
      /\ \A m \in Name : m # n => sandbox'[m] = sandbox[m]
      /\ sandbox'[n] => sandbox[n]
  BY <1>1 DEF Granted, ProviderTypeOK, LostAnswer, world
<1>5. /\ reserved' \in [Name \cup {Reconcile} -> Int]
      /\ \A m \in Name : m # n => reserved'[m] = reserved[m]
  BY <1>1 DEF Granted, ProviderTypeOK, NoCall, Return
<1>6. /\ lease' \in [Name -> Admission \cup {Nobody}]
      /\ \A m \in Name : m # n => lease'[m] = lease[m]
      /\ lease'[n] = a
  BY <1>1 DEF Granted, ProviderTypeOK
<1>7. /\ quarantine' \in [Name -> {NoQuarantine} \cup
           [by : Admission \cup {Reconcile}, res : Name \cup {Reconcile}, stopped : BOOLEAN]]
      /\ \A m \in Name : m # n => quarantine'[m] = quarantine[m]
      /\ quarantine'[n] = quarantine[n]
  BY <1>1 DEF Granted, ProviderTypeOK, NoQuarantine
<1>8. /\ \A m \in Name : m # n => Pending(m)' = Pending(m)
      /\ ~Pending(n)'
  BY <1>2
<1>9. \A b \in Admission : Releasing(b)' => Releasing(b) /\ b # a /\ NameOf[b] # n
  BY <1>1, <1>3 DEF Alone, Releasing
<1>10. ProviderTypeOK'
  BY <1>1, <1>2, <1>3, <1>4, <1>5, <1>6, <1>7 DEF ProviderTypeOK
<1>11. Alone'
  <2>1. quarantine[n].by \in {Reconcile, Nobody}
    BY <1>1 DEF ProviderTypeOK, NoQuarantine
  <2>2. ASSUME NEW m \in Name
        PROVE  /\ Pending(m)' => ~Leased(m)' /\ quarantine'[m].by \notin Admission
               /\ Leased(m)' => quarantine'[m].by \in {lease'[m], Reconcile, Nobody}
    BY <2>1, <1>6, <1>7, <1>8 DEF Alone
  <2>3. ASSUME NEW b \in Admission, Releasing(b)'
        PROVE  /\ ~Pending(NameOf[b])' /\ reserved'[NameOf[b]] >= 0
               /\ lease'[NameOf[b]] \in {b, Nobody}
               /\ quarantine'[NameOf[b]].by \in {b, Reconcile, Nobody}
               /\ \A c \in Admission : Releasing(c)' /\ NameOf[c] = NameOf[b] => c = b
    BY <2>3, <1>5, <1>6, <1>7, <1>8, <1>9 DEF Alone
  <2> QED BY <2>2, <2>3 DEF Alone
<1>12. Paid'
  <2>1. ASSUME NEW m \in Name, Pending(m)' PROVE reserved'[m] >= Left(job'[m])
    BY <2>1, <1>2, <1>5, <1>8 DEF Paid
  <2>2. ASSUME NEW m \in Name, m # n, HeldLease(m)' PROVE HeldLease(m)
    <3>1. lease[m] # a BY <1>1, <2>2 DEF ProviderTypeOK
    <3>2. lease'[m] = lease[m] /\ sandbox'[m] = sandbox[m] /\ quarantine'[m] = quarantine[m]
      BY <2>2, <1>4, <1>6, <1>7
    <3>3. lease[m] \in Admission BY <2>2, <3>2 DEF HeldLease, ProviderTypeOK
    <3> QED BY <2>2, <3>1, <3>2, <3>3, <1>3 DEF HeldLease, Releasing
  <2>3. ASSUME NEW m \in Name, HeldLease(m)' PROVE reserved'[m] >= 2
    <3>1. CASE m # n BY <3>1, <2>2, <2>3, <1>5 DEF Paid
    <3>2. CASE m = n BY <3>2, <1>1 DEF Granted, NoCall, Paid, Left
    <3> QED BY <3>1, <3>2
  <2> QED BY <2>1, <2>3 DEF Paid, Left
<1>13. NoSandboxForgotten'
  <2>1. ASSUME NEW m \in Asked, m # n, sandbox'[m] PROVE m \in Held'
    <3>1. m \in Name BY ProviderAssumption DEF Asked
    <3> QED BY <2>1, <3>1, <1>4, <1>6, <1>7, <1>8 DEF NoSandboxForgotten, Held
  <2>2. sandbox'[n] => n \in Held'
    BY <1>1, <1>6, <1>7, <1>4 DEF Held, Granted
  <2> QED BY <2>1, <2>2 DEF NoSandboxForgotten, Asked
<1>14. NameIsFree' BY <1>2, <1>4 DEF NameIsFree, Asked, Idle
<1> QED BY <1>10, <1>11, <1>12, <1>13, <1>14

\* A failed preflight that deleted its sandbox leaves its name free.
LEMMA ProbeDeletedKept ==
    ASSUME ProviderInv, NEW n \in Name, ProbeDeleted(n)
    PROVE  ProviderInv'
<1> USE ProviderAssumption DEF ProviderInv, Pending, Leased, Quarantined
<1> DEFINE a == job[n].by
<1>1. /\ job[n] # Idle /\ a \in Admission /\ NameOf[a] = n /\ n \in Asked
      /\ pc[a] \in {"waiting", "late"}
      /\ lease[n] = Nobody /\ quarantine[n].by \notin Admission
  BY DEF ProviderTypeOK, Alone, Probing, Idle, Asked, ProbeDeleted
<1>2. /\ DOMAIN job' = Name /\ job'[n] = Idle
      /\ \A m \in Name : m # n => job'[m] = job[m]
  BY <1>1 DEF ProbeDeleted, ProviderTypeOK
<1>3. /\ DOMAIN pc' = Admission /\ pc'[a] \in {"accepted", "release"}
      /\ \A b \in Admission : b # a => pc'[b] = pc[b]
  BY <1>1 DEF ProbeDeleted, ProviderTypeOK, Settled
<1>4. /\ sandbox' \in [Name -> BOOLEAN]
      /\ \A m \in Name : m # n => sandbox'[m] = sandbox[m]
      /\ sandbox'[n] => sandbox[n]
  BY <1>1 DEF ProbeDeleted, ProviderTypeOK, LostAnswer, world
<1>5. /\ reserved' \in [Name \cup {Reconcile} -> Int]
      /\ \A m \in Name : m # n => reserved'[m] = reserved[m]
  BY <1>1 DEF ProbeDeleted, ProviderTypeOK, NoCall, Return
<1>6. /\ lease' \in [Name -> Admission \cup {Nobody}]
      /\ \A m \in Name : m # n => lease'[m] = lease[m]
      /\ lease'[n] = Nobody
  BY <1>1 DEF ProbeDeleted, ProviderTypeOK
<1>7. /\ quarantine' \in [Name -> {NoQuarantine} \cup
           [by : Admission \cup {Reconcile}, res : Name \cup {Reconcile}, stopped : BOOLEAN]]
      /\ \A m \in Name : m # n => quarantine'[m] = quarantine[m]
      /\ quarantine'[n] = quarantine[n]
  BY <1>1 DEF ProbeDeleted, ProviderTypeOK, NoQuarantine
<1>8. /\ \A m \in Name : m # n => Pending(m)' = Pending(m)
      /\ ~Pending(n)'
  BY <1>2
<1>9. \A b \in Admission : Releasing(b)' => Releasing(b) /\ b # a /\ NameOf[b] # n
  BY <1>1, <1>3 DEF Alone, Releasing
<1>10. ProviderTypeOK'
  BY <1>1, <1>2, <1>3, <1>4, <1>5, <1>6, <1>7 DEF ProviderTypeOK
<1>11. Alone'
  <2>1. quarantine[n].by \in {Reconcile, Nobody}
    BY <1>1 DEF ProviderTypeOK, NoQuarantine
  <2>2. ASSUME NEW m \in Name
        PROVE  /\ Pending(m)' => ~Leased(m)' /\ quarantine'[m].by \notin Admission
               /\ Leased(m)' => quarantine'[m].by \in {lease'[m], Reconcile, Nobody}
    BY <2>1, <1>6, <1>7, <1>8 DEF Alone
  <2>3. ASSUME NEW b \in Admission, Releasing(b)'
        PROVE  /\ ~Pending(NameOf[b])' /\ reserved'[NameOf[b]] >= 0
               /\ lease'[NameOf[b]] \in {b, Nobody}
               /\ quarantine'[NameOf[b]].by \in {b, Reconcile, Nobody}
               /\ \A c \in Admission : Releasing(c)' /\ NameOf[c] = NameOf[b] => c = b
    BY <2>3, <1>5, <1>6, <1>7, <1>8, <1>9 DEF Alone
  <2> QED BY <2>2, <2>3 DEF Alone
<1>12. Paid'
  <2>1. ASSUME NEW m \in Name, Pending(m)' PROVE reserved'[m] >= Left(job'[m])
    BY <2>1, <1>2, <1>5, <1>8 DEF Paid
  <2>2. ASSUME NEW m \in Name, m # n, HeldLease(m)' PROVE HeldLease(m)
    <3>1. lease[m] # a BY <1>1, <2>2 DEF ProviderTypeOK
    <3>2. lease'[m] = lease[m] /\ sandbox'[m] = sandbox[m] /\ quarantine'[m] = quarantine[m]
      BY <2>2, <1>4, <1>6, <1>7
    <3>3. lease[m] \in Admission BY <2>2, <3>2 DEF HeldLease, ProviderTypeOK
    <3> QED BY <2>2, <3>1, <3>2, <3>3, <1>3 DEF HeldLease, Releasing
  <2>3. ASSUME NEW m \in Name, HeldLease(m)' PROVE reserved'[m] >= 2
    <3>1. CASE m # n BY <3>1, <2>2, <2>3, <1>5 DEF Paid
    <3>2. CASE m = n BY <3>2, <2>3, <1>6 DEF HeldLease
    <3> QED BY <3>1, <3>2
  <2> QED BY <2>1, <2>3 DEF Paid, Left
<1>13. NoSandboxForgotten'
  <2>1. ASSUME NEW m \in Asked, m # n, sandbox'[m] PROVE m \in Held'
    <3>1. m \in Name BY ProviderAssumption DEF Asked
    <3> QED BY <2>1, <3>1, <1>4, <1>6, <1>7, <1>8 DEF NoSandboxForgotten, Held
  <2>2. sandbox'[n] => n \in Held'
    BY <1>1, <1>6, <1>7, <1>4 DEF Held, ProbeDeleted, ProviderTypeOK
  <2> QED BY <2>1, <2>2 DEF NoSandboxForgotten, Asked
<1>14. NameIsFree' BY <1>2, <1>4 DEF NameIsFree, Asked, Idle
<1> QED BY <1>10, <1>11, <1>12, <1>13, <1>14

\* A failed preflight that could not destroy its sandbox leaves it in quarantine.
LEMMA ProbeQuarantinedKept ==
    ASSUME ProviderInv, NEW n \in Name, ProbeQuarantined(n)
    PROVE  ProviderInv'
<1> USE ProviderAssumption DEF ProviderInv, Pending, Leased, Quarantined
<1> DEFINE a == job[n].by
<1>1. /\ job[n] # Idle /\ a \in Admission /\ NameOf[a] = n /\ n \in Asked
      /\ pc[a] \in {"waiting", "late"}
      /\ lease[n] = Nobody /\ quarantine[n].by \notin Admission
  BY DEF ProviderTypeOK, Alone, Probing, Idle, Asked, ProbeQuarantined
<1>2. /\ DOMAIN job' = Name /\ job'[n] = Idle
      /\ \A m \in Name : m # n => job'[m] = job[m]
  BY <1>1 DEF ProbeQuarantined, ProviderTypeOK
<1>3. /\ DOMAIN pc' = Admission /\ pc'[a] \in {"accepted", "release"}
      /\ \A b \in Admission : b # a => pc'[b] = pc[b]
  BY <1>1 DEF ProbeQuarantined, ProviderTypeOK, Settled
<1>4. /\ sandbox' \in [Name -> BOOLEAN]
      /\ \A m \in Name : m # n => sandbox'[m] = sandbox[m]
      /\ sandbox'[n] => sandbox[n]
  BY <1>1, ZenonT(40) DEF ProbeQuarantined, ProviderTypeOK, LostAnswer, world
<1>5. /\ reserved' \in [Name \cup {Reconcile} -> Int]
      /\ \A m \in Name : m # n => reserved'[m] = reserved[m]
  BY <1>1 DEF ProbeQuarantined, ProviderTypeOK, NoCall, Return
<1>6. /\ lease' \in [Name -> Admission \cup {Nobody}]
      /\ \A m \in Name : m # n => lease'[m] = lease[m]
      /\ lease'[n] = Nobody
  BY <1>1 DEF ProbeQuarantined, ProviderTypeOK
<1>7. /\ quarantine' \in [Name -> {NoQuarantine} \cup
           [by : Admission \cup {Reconcile}, res : Name \cup {Reconcile}, stopped : BOOLEAN]]
      /\ \A m \in Name : m # n => quarantine'[m] = quarantine[m]
      /\ quarantine'[n] # NoQuarantine
  BY <1>1 DEF ProbeQuarantined, ProviderTypeOK, NoQuarantine
<1>8. /\ \A m \in Name : m # n => Pending(m)' = Pending(m)
      /\ ~Pending(n)'
  BY <1>2
<1>9. \A b \in Admission : Releasing(b)' => Releasing(b) /\ b # a /\ NameOf[b] # n
  BY <1>1, <1>3 DEF Alone, Releasing
<1>10. ProviderTypeOK'
  BY <1>1, <1>2, <1>3, <1>4, <1>5, <1>6, <1>7 DEF ProviderTypeOK
<1>11. Alone'
  <2>1. quarantine[n].by \in {Reconcile, Nobody}
    BY <1>1 DEF ProviderTypeOK, NoQuarantine
  <2>2. ASSUME NEW m \in Name
        PROVE  /\ Pending(m)' => ~Leased(m)' /\ quarantine'[m].by \notin Admission
               /\ Leased(m)' => quarantine'[m].by \in {lease'[m], Reconcile, Nobody}
    BY <2>1, <1>6, <1>7, <1>8 DEF Alone
  <2>3. ASSUME NEW b \in Admission, Releasing(b)'
        PROVE  /\ ~Pending(NameOf[b])' /\ reserved'[NameOf[b]] >= 0
               /\ lease'[NameOf[b]] \in {b, Nobody}
               /\ quarantine'[NameOf[b]].by \in {b, Reconcile, Nobody}
               /\ \A c \in Admission : Releasing(c)' /\ NameOf[c] = NameOf[b] => c = b
    BY <2>3, <1>5, <1>6, <1>7, <1>8, <1>9 DEF Alone
  <2> QED BY <2>2, <2>3 DEF Alone
<1>12. Paid'
  <2>1. ASSUME NEW m \in Name, Pending(m)' PROVE reserved'[m] >= Left(job'[m])
    BY <2>1, <1>2, <1>5, <1>8 DEF Paid
  <2>2. ASSUME NEW m \in Name, m # n, HeldLease(m)' PROVE HeldLease(m)
    <3>1. lease[m] # a BY <1>1, <2>2 DEF ProviderTypeOK
    <3>2. lease'[m] = lease[m] /\ sandbox'[m] = sandbox[m] /\ quarantine'[m] = quarantine[m]
      BY <2>2, <1>4, <1>6, <1>7
    <3>3. lease[m] \in Admission BY <2>2, <3>2 DEF HeldLease, ProviderTypeOK
    <3> QED BY <2>2, <3>1, <3>2, <3>3, <1>3 DEF HeldLease, Releasing
  <2>3. ASSUME NEW m \in Name, HeldLease(m)' PROVE reserved'[m] >= 2
    <3>1. CASE m # n BY <3>1, <2>2, <2>3, <1>5 DEF Paid
    <3>2. CASE m = n BY <3>2, <2>3, <1>6 DEF HeldLease
    <3> QED BY <3>1, <3>2
  <2> QED BY <2>1, <2>3 DEF Paid, Left
<1>13. NoSandboxForgotten'
  <2>1. ASSUME NEW m \in Asked, m # n, sandbox'[m] PROVE m \in Held'
    <3>1. m \in Name BY ProviderAssumption DEF Asked
    <3> QED BY <2>1, <3>1, <1>4, <1>6, <1>7, <1>8 DEF NoSandboxForgotten, Held
  <2>2. sandbox'[n] => n \in Held'
    BY <1>1, <1>6, <1>7, <1>4 DEF Held, ProbeQuarantined
  <2> QED BY <2>1, <2>2 DEF NoSandboxForgotten, Asked
<1>14. NameIsFree' BY <1>2, <1>4 DEF NameIsFree, Asked, Idle
<1> QED BY <1>10, <1>11, <1>12, <1>13, <1>14

\* An admission that has nothing has nothing to release.
LEMMA ReleaseNothingKept ==
    ASSUME ProviderInv, NEW a \in Admission, ReleaseNothing(a)
    PROVE  ProviderInv'
<1> USE ProviderAssumption DEF ProviderInv, Pending, Leased, Quarantined
<1> DEFINE n == NameOf[a]
<1>1. n \in Name /\ n \in Asked /\ DOMAIN pc = Admission
  BY DEF Asked, ProviderTypeOK
<1>2. /\ pc' = [pc EXCEPT ![a] = "refused"]
      /\ job' = job /\ lease' = lease /\ quarantine' = quarantine /\ reserved' = reserved
      /\ sandbox' = sandbox /\ ~Releasing(a)
  BY DEF ReleaseNothing, world, Releasing
<1>3. pc[a] = "release" BY DEF ReleaseNothing
<1>4. \A b \in Admission : Releasing(b)' <=> Releasing(b)
  BY <1>1, <1>2, <1>3 DEF Releasing
<1>5. ProviderTypeOK' BY <1>1, <1>2, <1>3 DEF ProviderTypeOK
<1>6. Alone' BY <1>2, <1>4 DEF Alone
<1>7. Paid'
  <2>1. \A m \in Name : HeldLease(m)' <=> HeldLease(m)
    BY <1>2, <1>4 DEF HeldLease, ProviderTypeOK
  <2> QED BY <2>1, <1>2 DEF Paid, Left
<1>8. NoSandboxForgotten' /\ NameIsFree'
  BY <1>2 DEF NoSandboxForgotten, NameIsFree, Held
<1> QED BY <1>5, <1>6, <1>7, <1>8

\* A release spends the first cleanup call of its lease.
LEMMA ReleaseKept ==
    ASSUME ProviderInv, NEW a \in Admission, Release(a)
    PROVE  ProviderInv'
<1> USE ProviderAssumption DEF ProviderInv, Pending, Leased, Quarantined
<1> DEFINE n == NameOf[a]
<1>1. n \in Name /\ n \in Asked /\ DOMAIN pc = Admission
  BY DEF Asked, ProviderTypeOK
<1> DEFINE first == FirstCall(Stopped(a))
<1>2. /\ pc' = [pc EXCEPT ![a] = first] /\ first \in {"stop", "delete"}
      /\ job' = job /\ lease' = lease /\ quarantine' = quarantine /\ sandbox' = sandbox
      /\ pc[a] = "release"
  BY DEF Release, world, FirstCall
<1>3. /\ lease[n] \in {a, Nobody} /\ quarantine[n].by \in {a, Reconcile, Nobody}
      /\ ~Pending(n)
  <2>1. lease[n] = a \/ (lease[n] = Nobody /\ quarantine[n].by = a)
    BY DEF Release, Mine
  <2>2. ~Pending(n)
    BY <1>1, <2>1 DEF Alone
  <2>3. lease[n] = a => quarantine[n].by \in {a, Reconcile, Nobody}
    BY <1>1 DEF Alone
  <2> QED BY <2>1, <2>2, <2>3
<1>4. /\ reserved' \in [Name \cup {Reconcile} -> Int] /\ reserved'[n] >= 0
      /\ \A m \in Name : m # n => reserved'[m] = reserved[m]
  BY <1>1 DEF Release, CleanupCall, ResOf, ProviderTypeOK
<1> HIDE DEF first
<1>5. ProviderTypeOK' BY <1>1, <1>2, <1>3, <1>4 DEF ProviderTypeOK
<1>6. Alone'
  <2>1. ASSUME NEW b \in Admission, Releasing(b)', b # a
        PROVE  Releasing(b) /\ NameOf[b] # n
    BY <2>1, <1>1, <1>2 DEF Alone, Releasing, Release, Mine
  <2>2. ASSUME NEW b \in Admission, Releasing(b)'
        PROVE  /\ ~Pending(NameOf[b])' /\ reserved'[NameOf[b]] >= 0
               /\ lease'[NameOf[b]] \in {b, Nobody}
               /\ quarantine'[NameOf[b]].by \in {b, Reconcile, Nobody}
               /\ \A c \in Admission : Releasing(c)' /\ NameOf[c] = NameOf[b] => c = b
    <3>1. CASE b = a BY <3>1, <2>1, <1>2, <1>3, <1>4
    <3>2. CASE b # a BY <3>2, <2>1, <2>2, <1>1, <1>2, <1>4 DEF Alone
    <3> QED BY <3>1, <3>2
  <2> QED BY <2>2, <1>2 DEF Alone
<1>7. Paid'
  <2>1. \A m \in Name : HeldLease(m)' => HeldLease(m) /\ m # n
    BY <1>1, <1>2, <1>3 DEF HeldLease, ProviderTypeOK, Releasing
  <2> QED BY <2>1, <1>2, <1>3, <1>4 DEF Paid, Left
<1>8. NoSandboxForgotten' /\ NameIsFree'
  BY <1>2 DEF NoSandboxForgotten, NameIsFree, Held
<1> QED BY <1>5, <1>6, <1>7, <1>8

\* A release whose outcome is unknown puts its sandbox in quarantine, or leaves it there.
LEMMA UncertainIsKept ==
    ASSUME ProviderInv, NEW a \in Admission, NEW flag \in BOOLEAN,
           ReleaseUncertain(NameOf[a], a, flag)
    PROVE  /\ quarantine' \in [Name -> {NoQuarantine} \cup
               [by : Admission \cup {Reconcile}, res : Name \cup {Reconcile}, stopped : BOOLEAN]]
           /\ \A m \in Name : m # NameOf[a] => quarantine'[m] = quarantine[m]
           /\ quarantine'[NameOf[a]].by \in {a, quarantine[NameOf[a]].by}
           /\ lease[NameOf[a]] = a => Quarantined(NameOf[a])'
           /\ Quarantined(NameOf[a]) => Quarantined(NameOf[a])'
<1> USE ProviderAssumption DEF ProviderInv, Quarantined
<1> DEFINE n == NameOf[a]
<1>1. n \in Name /\ quarantine \in [Name -> {NoQuarantine} \cup
                        [by : Admission \cup {Reconcile}, res : Name \cup {Reconcile},
                               stopped : BOOLEAN]]
  BY DEF ProviderTypeOK
<1>2. CASE lease[n] = a
  <2>1. quarantine' = [quarantine EXCEPT ![n] = [by |-> a, res |-> n, stopped |-> flag]]
    BY <1>2 DEF ReleaseUncertain
  <2> QED BY <2>1, <1>1 DEF NoQuarantine
<1>3. CASE lease[n] # a /\ quarantine[n].by = a
  <2>1. quarantine' = [quarantine EXCEPT ![n].stopped = flag]
    BY <1>3 DEF ReleaseUncertain
  <2>2. quarantine[n] # NoQuarantine
    BY <1>3 DEF NoQuarantine
  <2>3. quarantine'[n] = [quarantine[n] EXCEPT !.stopped = flag]
    BY <2>1, <1>1
  <2>4. /\ quarantine'[n] \in [by : Admission \cup {Reconcile}, res : Name \cup {Reconcile},
                              stopped : BOOLEAN]
        /\ quarantine'[n].by = a
    BY <2>2, <2>3, <1>1, <1>3
  <2>5. quarantine'[n] # NoQuarantine
    BY <2>4 DEF NoQuarantine
  <2> QED BY <2>1, <2>4, <2>5, <1>1, <1>3
<1>4. CASE lease[n] # a /\ quarantine[n].by # a
  BY <1>4, <1>1 DEF ReleaseUncertain
<1> QED BY <1>2, <1>3, <1>4

\* A release that may not call quarantines its sandbox.
LEMMA ReleaseDeniedKept ==
    ASSUME ProviderInv, NEW a \in Admission, ReleaseDenied(a)
    PROVE  ProviderInv'
<1> USE ProviderAssumption DEF ProviderInv, Pending, Leased, Quarantined
<1> DEFINE n == NameOf[a]
<1>1. n \in Name /\ n \in Asked /\ DOMAIN pc = Admission
  BY DEF Asked, ProviderTypeOK
<1>2. /\ pc' = [pc EXCEPT ![a] = "refused"]
      /\ job' = job /\ lease' = lease /\ reserved' = reserved
      /\ ReleaseUncertain(n, a, Stopped(a))
  BY DEF ReleaseDenied, world, NoCall
<1>3. Stopped(a) \in BOOLEAN
  BY <1>1 DEF Stopped, ProviderTypeOK, NoQuarantine
<1> HIDE DEF n
<1>4. /\ quarantine' \in [Name -> {NoQuarantine} \cup
           [by : Admission \cup {Reconcile}, res : Name \cup {Reconcile}, stopped : BOOLEAN]]
      /\ \A m \in Name : m # n => quarantine'[m] = quarantine[m]
      /\ quarantine'[n].by \in {a, quarantine[n].by}
      /\ lease[n] = a => Quarantined(n)'
      /\ Quarantined(n) => Quarantined(n)'
  BY <1>2, <1>3, UncertainIsKept DEF n
<1>5. /\ lease[n] \in {a, Nobody} /\ quarantine[n].by \in {a, Reconcile, Nobody}
      /\ ~Pending(n)
  BY <1>1 DEF ReleaseDenied, Mine, Alone, Releasing, n
<1>6. /\ sandbox' \in [Name -> BOOLEAN]
      /\ \A m \in Name : m # n => sandbox'[m] = sandbox[m]
      /\ sandbox'[n] => sandbox[n]
  BY <1>1 DEF ReleaseDenied, ProviderTypeOK, LostAnswer, world, n
<1>7. \A b \in Admission : Releasing(b)' => Releasing(b) /\ b # a
  BY <1>1, <1>2 DEF Releasing
<1>8. ProviderTypeOK'
  <2>1. pc[a] \notin {"waiting", "late"} BY DEF ReleaseDenied
  <2> QED BY <1>1, <1>2, <1>4, <1>6, <2>1 DEF ProviderTypeOK
<1>9. Alone'
  <2>2. ASSUME NEW b \in Admission, Releasing(b)'
        PROVE  /\ ~Pending(NameOf[b])' /\ reserved'[NameOf[b]] >= 0
               /\ lease'[NameOf[b]] \in {b, Nobody}
               /\ quarantine'[NameOf[b]].by \in {b, Reconcile, Nobody}
               /\ \A c \in Admission : Releasing(c)' /\ NameOf[c] = NameOf[b] => c = b
    <3>1. NameOf[b] # n
      BY <2>2, <1>7 DEF Alone, ReleaseDenied, Mine, Releasing, n
    <3> QED
      BY <3>1, <2>2, <1>2, <1>4, <1>7 DEF Alone
  <2>3. ASSUME NEW m \in Name
        PROVE  /\ Pending(m)' => ~Leased(m)' /\ quarantine'[m].by \notin Admission
               /\ Leased(m)' => quarantine'[m].by \in {lease'[m], Reconcile, Nobody}
    BY <1>2, <1>4, <1>5 DEF Alone
  <2> QED BY <2>2, <2>3 DEF Alone
<1>10. Paid'
  <2>1. \A m \in Name : HeldLease(m)' => HeldLease(m)
    <3>1. ASSUME NEW m \in Name, HeldLease(m)' PROVE HeldLease(m)
      <4>1. lease[m] \in Admission /\ NameOf[lease[m]] = m
        BY <3>1, <1>2 DEF HeldLease, ProviderTypeOK
      <4>2. lease[m] # a BY <3>1, <4>1, <1>4 DEF HeldLease, n
      <4> QED BY <3>1, <4>1, <4>2, <1>1, <1>2, <1>4, <1>6 DEF HeldLease, Releasing
    <3> QED BY <3>1
  <2> QED BY <2>1, <1>2 DEF Paid, Left
<1>11. NoSandboxForgotten'
  <2>1. \A m \in Name : m \in Held /\ sandbox'[m] => m \in Held'
    BY <1>2, <1>4 DEF Held
  <2> QED BY <2>1, <1>6 DEF NoSandboxForgotten, Asked
<1>12. NameIsFree'
  BY <1>2, <1>6 DEF NameIsFree, Asked
<1> QED BY <1>8, <1>9, <1>10, <1>11, <1>12

\* A release whose call fails quarantines its sandbox.
LEMMA ReleaseFailsKept ==
    ASSUME ProviderInv, NEW a \in Admission, ReleaseFails(a)
    PROVE  ProviderInv'
<1> USE ProviderAssumption DEF ProviderInv, Pending, Leased, Quarantined
<1> DEFINE n == NameOf[a]
<1>1. n \in Name /\ n \in Asked /\ DOMAIN pc = Admission
  BY DEF Asked, ProviderTypeOK
<1>2. /\ pc' = [pc EXCEPT ![a] = "refused"]
      /\ job' = job /\ lease' = lease /\ reserved' = reserved
      /\ ReleaseUncertain(n, a, (pc[a] = "delete"))
  BY DEF ReleaseFails, world, NoCall
<1>3. (pc[a] = "delete") \in BOOLEAN
  BY <1>1 DEF Stopped, ProviderTypeOK, NoQuarantine
<1> HIDE DEF n
<1>4. /\ quarantine' \in [Name -> {NoQuarantine} \cup
           [by : Admission \cup {Reconcile}, res : Name \cup {Reconcile}, stopped : BOOLEAN]]
      /\ \A m \in Name : m # n => quarantine'[m] = quarantine[m]
      /\ quarantine'[n].by \in {a, quarantine[n].by}
      /\ lease[n] = a => Quarantined(n)'
      /\ Quarantined(n) => Quarantined(n)'
  BY <1>2, <1>3, UncertainIsKept DEF n
<1>5. /\ lease[n] \in {a, Nobody} /\ quarantine[n].by \in {a, Reconcile, Nobody}
      /\ ~Pending(n)
  BY <1>1 DEF ReleaseFails, Mine, Alone, Releasing, n
<1>6. /\ sandbox' \in [Name -> BOOLEAN]
      /\ \A m \in Name : m # n => sandbox'[m] = sandbox[m]
      /\ sandbox'[n] => sandbox[n]
  BY <1>1 DEF ReleaseFails, ProviderTypeOK, LostAnswer, world, n
<1>7. \A b \in Admission : Releasing(b)' => Releasing(b) /\ b # a
  BY <1>1, <1>2 DEF Releasing
<1>8. ProviderTypeOK'
  <2>1. pc[a] \notin {"waiting", "late"} BY DEF ReleaseFails
  <2> QED BY <1>1, <1>2, <1>4, <1>6, <2>1 DEF ProviderTypeOK
<1>9. Alone'
  <2>2. ASSUME NEW b \in Admission, Releasing(b)'
        PROVE  /\ ~Pending(NameOf[b])' /\ reserved'[NameOf[b]] >= 0
               /\ lease'[NameOf[b]] \in {b, Nobody}
               /\ quarantine'[NameOf[b]].by \in {b, Reconcile, Nobody}
               /\ \A c \in Admission : Releasing(c)' /\ NameOf[c] = NameOf[b] => c = b
    <3>1. NameOf[b] # n
      BY <2>2, <1>7 DEF Alone, ReleaseFails, Mine, Releasing, n
    <3> QED
      BY <3>1, <2>2, <1>2, <1>4, <1>7 DEF Alone
  <2>3. ASSUME NEW m \in Name
        PROVE  /\ Pending(m)' => ~Leased(m)' /\ quarantine'[m].by \notin Admission
               /\ Leased(m)' => quarantine'[m].by \in {lease'[m], Reconcile, Nobody}
    BY <1>2, <1>4, <1>5 DEF Alone
  <2> QED BY <2>2, <2>3 DEF Alone
<1>10. Paid'
  <2>1. \A m \in Name : HeldLease(m)' => HeldLease(m)
    <3>1. ASSUME NEW m \in Name, HeldLease(m)' PROVE HeldLease(m)
      <4>1. lease[m] \in Admission /\ NameOf[lease[m]] = m
        BY <3>1, <1>2 DEF HeldLease, ProviderTypeOK
      <4>2. lease[m] # a BY <3>1, <4>1, <1>4 DEF HeldLease, n
      <4> QED BY <3>1, <4>1, <4>2, <1>1, <1>2, <1>4, <1>6 DEF HeldLease, Releasing
    <3> QED BY <3>1
  <2> QED BY <2>1, <1>2 DEF Paid, Left
<1>11. NoSandboxForgotten'
  <2>1. \A m \in Name : m \in Held /\ sandbox'[m] => m \in Held'
    BY <1>2, <1>4 DEF Held
  <2> QED BY <2>1, <1>6 DEF NoSandboxForgotten, Asked
<1>12. NameIsFree'
  BY <1>2, <1>6 DEF NameIsFree, Asked
<1> QED BY <1>8, <1>9, <1>10, <1>11, <1>12

\* A release that stopped its sandbox deletes it next.
LEMMA ReleaseStoppedKept ==
    ASSUME ProviderInv, NEW a \in Admission, ReleaseStopped(a)
    PROVE  ProviderInv'
<1> USE ProviderAssumption DEF ProviderInv, Pending, Leased, Quarantined
<1> DEFINE n == NameOf[a]
<1>1. n \in Name /\ n \in Asked /\ DOMAIN pc = Admission
  BY DEF Asked, ProviderTypeOK
<1>2. /\ pc' = [pc EXCEPT ![a] = "delete"] /\ pc[a] = "stop"
      /\ job' = job /\ lease' = lease /\ quarantine' = quarantine /\ sandbox' = sandbox
  BY DEF ReleaseStopped, world
<1>3. /\ lease[n] \in {a, Nobody} /\ ~Pending(n)
  BY <1>1, <1>2 DEF Alone, Releasing
<1>4. /\ reserved' \in [Name \cup {Reconcile} -> Int] /\ reserved'[n] >= 0
      /\ \A m \in Name : m # n => reserved'[m] = reserved[m]
  BY <1>1 DEF ReleaseStopped, Call, ResOf, ProviderTypeOK
<1>5. \A b \in Admission : Releasing(b)' <=> Releasing(b)
  BY <1>1, <1>2 DEF Releasing
<1>6. ProviderTypeOK' BY <1>1, <1>2, <1>4 DEF ProviderTypeOK
<1>7. Alone' BY <1>2, <1>4, <1>5 DEF Alone, ProviderTypeOK
<1>8. Paid'
  <2>1. \A m \in Name : HeldLease(m)' => HeldLease(m) /\ m # n
    BY <1>1, <1>2, <1>3, <1>5 DEF HeldLease, ProviderTypeOK, Releasing
  <2> QED BY <2>1, <1>2, <1>3, <1>4 DEF Paid, Left
<1>9. NoSandboxForgotten' /\ NameIsFree'
  BY <1>2 DEF NoSandboxForgotten, NameIsFree, Held
<1> QED BY <1>6, <1>7, <1>8, <1>9

\* A release that deleted its sandbox gives the name back.
LEMMA ReleaseDeletedKept ==
    ASSUME ProviderInv, NEW a \in Admission, ReleaseDeleted(a)
    PROVE  ProviderInv'
<1> USE ProviderAssumption DEF ProviderInv, Pending, Leased, Quarantined
<1> DEFINE n == NameOf[a]
<1>1. n \in Name /\ n \in Asked /\ DOMAIN pc = Admission
  BY DEF Asked, ProviderTypeOK
<1>2. /\ pc' = [pc EXCEPT ![a] = "refused"] /\ pc[a] = "delete" /\ job' = job
      /\ lease' = [lease EXCEPT ![n] = Nobody]
      /\ quarantine' = [quarantine EXCEPT ![n] = NoQuarantine]
      /\ sandbox' = [sandbox EXCEPT ![n] = FALSE]
  BY DEF ReleaseDeleted
<1>3. ~Pending(n) /\ quarantine[n].by \in {a, Reconcile, Nobody} /\ lease[n] \in {a, Nobody}
  BY <1>1, <1>2 DEF Alone, Releasing
<1>4. reserved' = [reserved EXCEPT ![n] = -1]
  BY DEF ReleaseDeleted, Return, ResOf
<1>5. \A b \in Admission : Releasing(b)' => Releasing(b) /\ b # a /\ NameOf[b] # n
  BY <1>1, <1>2 DEF Releasing, Alone
<1>6. ProviderTypeOK' BY <1>1, <1>2, <1>4 DEF ProviderTypeOK
<1>7. Alone' BY <1>1, <1>2, <1>3, <1>4, <1>5 DEF Alone, ProviderTypeOK, NoQuarantine
<1>8. Paid'
  <2>1. \A m \in Name : HeldLease(m)' => HeldLease(m) /\ m # n
    <3>1. ASSUME NEW m \in Name, HeldLease(m)' PROVE HeldLease(m) /\ m # n
      <4>1. m # n /\ lease[m] \in Admission /\ NameOf[lease[m]] = m
        BY <3>1, <1>1, <1>2 DEF HeldLease, ProviderTypeOK
      <4>2. lease[m] # a BY <4>1
      <4> QED BY <3>1, <4>1, <4>2, <1>1, <1>2 DEF HeldLease, ProviderTypeOK, Releasing
    <3> QED BY <3>1
  <2> QED BY <2>1, <1>2, <1>3, <1>4 DEF Paid, Left, ProviderTypeOK
<1>9. NoSandboxForgotten' /\ NameIsFree'
  BY <1>1, <1>2 DEF NoSandboxForgotten, NameIsFree, Held, ProviderTypeOK, Asked
<1> QED BY <1>6, <1>7, <1>8, <1>9

\* What a reconciliation may do: its own calls, a quarantine of its own or none, and
\* what is deleted is no longer quarantined.
ReconcileStep ==
    /\ pc' = pc /\ job' = job /\ lease' = lease
    /\ reserved' \in [Name \cup {Reconcile} -> Int]
    /\ \A n \in Name : reserved'[n] = reserved[n]
    /\ sandbox' \in [Name -> BOOLEAN]
    /\ \A n \in Name : sandbox'[n] => sandbox[n]
    /\ quarantine' \in [Name -> {NoQuarantine} \cup
           [by : Admission \cup {Reconcile}, res : Name \cup {Reconcile}, stopped : BOOLEAN]]
    /\ \A n \in Name : quarantine'[n].by \in {quarantine[n].by, Reconcile, Nobody}
    /\ \A n \in Name : Quarantined(n) /\ sandbox'[n] => Quarantined(n)'

\* A step of the reconciling pass, as far as the invariant is concerned, keeps it.
LEMMA ReconcileStepKeeps == ASSUME ProviderInv, ReconcileStep PROVE ProviderInv'
<1> USE ProviderAssumption DEF ProviderInv, ReconcileStep, Pending, Leased, Quarantined
<1>1. \A a \in Admission : Releasing(a)' <=> Releasing(a)
  BY DEF Releasing
<1>2. ProviderTypeOK' BY DEF ProviderTypeOK
<1>3. Alone' BY <1>1 DEF Alone
<1>4. Paid'
  <2>1. \A n \in Name : HeldLease(n)' => HeldLease(n)
    BY <1>1 DEF HeldLease, ProviderTypeOK
  <2> QED BY <2>1 DEF Paid, Left
<1>5. NoSandboxForgotten' BY DEF NoSandboxForgotten, Held, Asked
<1>6. NameIsFree' BY DEF NameIsFree, Asked
<1> QED BY <1>2, <1>3, <1>4, <1>5, <1>6

\* A cleanup call of the pass is paid from its own reservation.
LEMMA CleanupCallIs ==
    ASSUME reserved \in [Name \cup {Reconcile} -> Int], NEW stopped, CleanupCall(Reconcile, stopped)
    PROVE  /\ reserved' \in [Name \cup {Reconcile} -> Int]
           /\ \A n \in Name : reserved'[n] = reserved[n]
BY ProviderAssumption DEF CleanupCall

\* The listing of a pass leaves the reservations of the names alone.
LEMMA ListingReserves ==
    ASSUME reserved \in [Name \cup {Reconcile} -> Int], ReconcileLists
    PROVE  /\ reserved' \in [Name \cup {Reconcile} -> Int]
           /\ \A n \in Name : reserved'[n] = reserved[n]
<1>1. PICK k : k = 2 + 2 * ReconcileLimit
  OBVIOUS
<1>2. k - 1 \in Int
  BY <1>1, ProviderAssumption
<1>3. reserved' = [reserved EXCEPT ![Reconcile] = k - 1]
  BY <1>1 DEF ReconcileLists
<1> QED BY <1>2, <1>3, ProviderAssumption

\* The steps of a pass that destroy nothing are such steps,
LEMMA PassIsAStep ==
    ASSUME ProviderInv,
           \/ ReconcileRetries \/ ReconcileLists \/ ReconcileListed \/ ReconcileListFails
           \/ \E r \in pass.left : ReconcileDestroys(r) \/ ReconcileSkips(r) \/ ReconcileDenied(r)
           \/ ReconcileEnds
    PROVE  ReconcileStep
<1> USE ProviderAssumption DEF ProviderInv, ProviderTypeOK, PassQuiet, NoCall, Call, Return,
        Quarantined
<1>1. /\ pc' = pc /\ job' = job /\ lease' = lease
      /\ quarantine' = quarantine /\ sandbox' = sandbox
  BY DEF ReconcileRetries, ReconcileLists, ReconcileListed, ReconcileListFails,
         ReconcileDestroys, ReconcileSkips, ReconcileDenied, ReconcileEnds
<1>2. CASE ReconcileRetries BY <1>1, <1>2 DEF ReconcileRetries, ReconcileStep
<1>3. CASE ReconcileLists
  <2>1. reserved \in [Name \cup {Reconcile} -> Int]
    OBVIOUS
  <2>2. /\ reserved' \in [Name \cup {Reconcile} -> Int]
        /\ \A n \in Name : reserved'[n] = reserved[n]
    BY <1>3, <2>1, ListingReserves
  <2> QED BY <1>1, <2>2 DEF ReconcileStep
<1>4. CASE ReconcileListed
  <2>1. Call(Reconcile)
    BY <1>4 DEF ReconcileListed
  <2> QED BY <1>1, <2>1 DEF ReconcileStep
<1>5. CASE ReconcileListFails BY <1>1, <1>5 DEF ReconcileListFails, ReconcileStep
<1>6. CASE \E r \in pass.left : ReconcileDestroys(r)
  <2>1. PICK r \in pass.left : ReconcileDestroys(r)
    BY <1>6
  <2>2. CleanupCall(Reconcile, r.stopped) \/ Call(Reconcile)
    BY <2>1 DEF ReconcileDestroys
  <2>3. /\ reserved' \in [Name \cup {Reconcile} -> Int]
        /\ \A n \in Name : reserved'[n] = reserved[n]
    BY <2>2, CleanupCallIs
  <2> QED BY <1>1, <2>3 DEF ReconcileStep
<1>7. CASE \E r \in pass.left : ReconcileSkips(r) \/ ReconcileDenied(r)
  BY <1>1, <1>7 DEF ReconcileSkips, ReconcileDenied, ReconcileStep
<1>8. CASE ReconcileEnds BY <1>1, <1>8 DEF ReconcileEnds, ReconcileStep
<1> QED BY <1>2, <1>3, <1>4, <1>5, <1>6, <1>7, <1>8

\* and so are the answers to its calls that stop and delete.
LEMMA DestroysNames ==
    ASSUME NEW m, ProviderInv,
           ReconcileStopped(m) \/ ReconcileDeleted(m) \/ ReconcileFails(m)
    PROVE  ReconcileStep
<1> USE ProviderAssumption DEF ProviderInv, ProviderTypeOK, PassQuiet, NoCall, Call, Return,
        Quarantined
<1>1. CASE ReconcileStopped(m)
  <2>1. CASE quarantine[m].by = Reconcile
    <3>1. quarantine' = [quarantine EXCEPT ![m].stopped = TRUE]
      BY <1>1, <2>1 DEF ReconcileStopped
    <3>2. ASSUME NEW n \in Name, n = m
          PROVE  /\ quarantine'[n] \in [by : Admission \cup {Reconcile},
                                        res : Name \cup {Reconcile}, stopped : BOOLEAN]
                 /\ quarantine'[n].by = Reconcile /\ quarantine'[n] # NoQuarantine
      <4>1. quarantine[n] \in [by : Admission \cup {Reconcile},
                               res : Name \cup {Reconcile}, stopped : BOOLEAN]
        BY <2>1, <3>2 DEF NoQuarantine
      <4>2. quarantine'[n] = [quarantine[n] EXCEPT !.stopped = TRUE]
        BY <3>1, <3>2
      <4>3. /\ quarantine'[n] \in [by : Admission \cup {Reconcile},
                                   res : Name \cup {Reconcile}, stopped : BOOLEAN]
            /\ quarantine'[n].by = quarantine[n].by
        BY <4>1, <4>2
      <4>4. quarantine'[n].by = Reconcile
        BY <4>3, <2>1, <3>2
      <4>5. quarantine'[n] # NoQuarantine
        BY <4>4 DEF NoQuarantine
      <4> QED BY <4>3, <4>4, <4>5
    <3>3. \A n \in Name : n # m => quarantine'[n] = quarantine[n]
      BY <3>1
    <3>4. DOMAIN quarantine' = Name BY <3>1
    <3>5. quarantine' \in [Name -> {NoQuarantine} \cup
           [by : Admission \cup {Reconcile}, res : Name \cup {Reconcile}, stopped : BOOLEAN]]
      BY <3>1, <3>2, <3>3
    <3> QED BY <1>1, <3>2, <3>3, <3>5 DEF ReconcileStopped, ReconcileStep
  <2>2. CASE quarantine[m].by # Reconcile
    BY <1>1, <2>2 DEF ReconcileStopped, ReconcileStep
  <2> QED BY <2>1, <2>2
<1>2. CASE ReconcileDeleted(m)
  <2>1. /\ sandbox' = [sandbox EXCEPT ![m] = FALSE]
        /\ quarantine' = [quarantine EXCEPT ![m] = NoQuarantine]
        /\ pc' = pc /\ job' = job /\ lease' = lease
        /\ reserved' = reserved \/ reserved' = [reserved EXCEPT ![Reconcile] = -1]
    BY <1>2 DEF ReconcileDeleted
  <2>2. /\ reserved' \in [Name \cup {Reconcile} -> Int]
        /\ \A n \in Name : reserved'[n] = reserved[n]
    BY <2>1
  <2>3. NoQuarantine.by = Nobody
    BY DEF NoQuarantine
  <2>4. \A n \in Name : quarantine'[n] = IF n = m THEN NoQuarantine ELSE quarantine[n]
    BY <2>1
  <2> QED BY <2>1, <2>2, <2>3, <2>4 DEF ReconcileStep
<1>3. CASE ReconcileFails(m)
  <2>1. /\ sandbox' \in [Name -> BOOLEAN]
        /\ \A n \in Name : sandbox'[n] => sandbox[n]
    BY <1>3 DEF ReconcileFails, LostAnswer
  <2> QED BY <1>3, <2>1 DEF ReconcileFails, ReconcileStep, NoQuarantine
<1> QED BY <1>1, <1>2, <1>3

\* Every step keeps the invariant.
LEMMA ProviderNext == ASSUME ProviderInv, [Next]_vars PROVE ProviderInv'
<1>1. CASE UNCHANGED <<pc, job, lease, quarantine, reserved, sandbox>>
  BY <1>1 DEF ProviderInv, ProviderTypeOK, Alone, Paid, NoSandboxForgotten, NameIsFree,
         Pending, Leased, Quarantined, Releasing, Held, HeldLease, Left
<1>2. CASE Reconciles
  BY <1>2, PassIsAStep, DestroysNames, ReconcileStepKeeps DEF Reconciles
<1>3. ASSUME NEW a \in Admission, Admissions(a) PROVE ProviderInv'
  BY <1>3, PreflightKept, PreflightRefusedKept, TimeOutKept DEF Admissions
<1>4. ASSUME NEW a \in Admission, Releases(a) PROVE ProviderInv'
  BY <1>4, ReleaseKept, ReleaseNothingKept, ReleaseDeniedKept, ReleaseStoppedKept,
     ReleaseDeletedKept, ReleaseFailsKept DEF Releases
<1>5. ASSUME NEW n \in Name, Preflights(n) PROVE ProviderInv'
  BY <1>5, AnsweredKept, ProbeFailsKept, GrantedKept, ProbeStoppedKept, ProbeDeletedKept,
     ProbeQuarantinedKept DEF Preflights
<1>6. CASE Age \/ \E n \in Name : Expire(n)
  BY <1>1, <1>6 DEF Age, Expire, world
<1>7. CASE UNCHANGED vars
  BY <1>1, <1>7 DEF vars
<1> QED BY <1>2, <1>3, <1>4, <1>5, <1>6, <1>7 DEF Next

\* The invariant holds for ever.
THEOREM ProviderInductive == Spec => []ProviderInv
BY ProviderInit, ProviderNext, PTL DEF Spec

\* A sandbox that exists is leased, in quarantine, or at work: no failure, timeout or
\* restarted pass of the provider loses one that is billed.
THEOREM NothingIsForgotten == Spec => []NoSandboxForgotten
<1>1. ProviderInv => NoSandboxForgotten
  BY DEF ProviderInv
<1> QED BY <1>1, ProviderInductive, PTL

\* A name that nothing holds has no sandbox, so that creating it cannot fail on it.
THEOREM NamesAreFree == Spec => []NameIsFree
<1>1. ProviderInv => NameIsFree
  BY DEF ProviderInv
<1> QED BY <1>1, ProviderInductive, PTL

\* The calls that destroy a sandbox are part of what is reserved.
LEMMA PaidIsEnough == ASSUME ProviderInv PROVE CleanupIsPaid
<1>1. ASSUME NEW n \in Name, Probing(n) \/ job[n].at = "verify" PROVE reserved[n] >= 2
  <2>1. Pending(n)
    BY <1>1 DEF Probing, Pending, Idle
  <2>2. Left(job[n]) >= 2 /\ Left(job[n]) \in Int
    BY <1>1 DEF Probing, Left, LifecycleCalls
  <2>3. reserved[n] >= Left(job[n]) /\ reserved[n] \in Int
    BY <2>1 DEF ProviderInv, Paid, ProviderTypeOK
  <2> QED BY <2>2, <2>3
<1>2. ASSUME NEW n \in Name, job[n].at = "stop" PROVE reserved[n] >= 1
  <2>1. Pending(n)
    BY <1>2 DEF Pending, Idle
  <2>2. Left(job[n]) = 1
    BY <1>2 DEF Left
  <2> QED BY <2>1, <2>2 DEF ProviderInv, Paid
<1>3. ASSUME NEW n \in Name, Leased(n), sandbox[n], ~Quarantined(n),
             pc[lease[n]] \notin {"stop", "delete"}
      PROVE  reserved[n] >= 2
  BY <1>3 DEF ProviderInv, Paid, HeldLease, Releasing
<1> QED BY <1>1, <1>2, <1>3 DEF CleanupIsPaid

\* Whoever holds a sandbox holds the calls to stop and to delete it: the limits of the
\* calls of a window never stand between a sandbox and its destruction.
THEOREM CleanupStaysPaid == Spec => []CleanupIsPaid
BY ProviderInductive, PaidIsEnough, PTL

=============================================================================
