---------------------------- MODULE SdkFacadeProofs ----------------------------
(***************************************************************************)
(* What a session of the facade does to sandboxes, for any sessions, names *)
(* and leases.  That a reported cleanup is final needs one create call of  *)
(* a session at a time: createAttempted is set only after two waits.       *)
(***************************************************************************)
EXTENDS SdkFacade, TLAPS

OneCreateCall == \A k, j \in Creation : k = j

Call == Session \X Creation
Box == {Gone} \cup [by : Call, at : {"running", "stopped"}]

FacadeTypeOK ==
    /\ uses \in [Replay -> Nat] /\ usedReplayLeases \subseteq Replay
    /\ attempted \in [Session -> BOOLEAN]
    /\ creation \in [Call -> {"idle", "loading", "sent", "done", "failed"}]
    /\ cleanup \in [Session -> [at : {"idle", "proving", "inspect", "stop", "delete",
                                      "clean", "uncertain"},
                                on : Box]]
    /\ sandbox \in [Name -> Box]

UsedOnce == \A l \in Replay : uses[l] = IF l \in usedReplayLeases THEN 1 ELSE 0

\* A call that sent its request marked the session, and a call that has made a sandbox
\* has ended and can not begin again.
Ended(c) == attempted[c[1]] /\ creation[c] \in {"done", "failed"}
SentIsAttempted == \A c \in Call : creation[c] \in {"sent", "done"} => attempted[c[1]]
MadeByEnded ==
    \A n \in Name : sandbox[n] # Gone => NameOf[sandbox[n].by[1]] = n /\ Ended(sandbox[n].by)

\* A cleanup acts on what its session made.
ActsOnOwn ==
    \A s \in Session : cleanup[s].at \in {"stop", "delete"} =>
        cleanup[s].on.by \in Call /\ cleanup[s].on.by[1] = s /\ Ended(cleanup[s].on.by)

CleanIsOver ==
    \A s \in Session : cleanup[s].at = "clean" => \A k \in Creation : Ended(<<s, k>>)

IInv == FacadeTypeOK /\ UsedOnce /\ SentIsAttempted /\ MadeByEnded /\ ActsOnOwn

LEMMA GoneIsNoBox == Gone \notin [by : Call, at : {"running", "stopped"}]
  BY FacadeAssumption DEF Gone, Call

LEMMA InitHolds == Init => IInv
  BY FacadeAssumption DEF Init, IInv, FacadeTypeOK, UsedOnce, SentIsAttempted,
     MadeByEnded, ActsOnOwn, Box, Call

-----------------------------------------------------------------------------
\* authorize and the leases
LEMMA AuthorizesHolds == ASSUME IInv, NEW s \in Session, Authorizes(s) PROVE IInv'
<1>1. UNCHANGED <<attempted, creation, cleanup, sandbox>>
  BY DEF Authorizes, Authorize, Verified, NotVerified, Reserved, NotReserved, Lapse, Moves
<1>2. /\ uses' \in [Replay -> Nat] /\ usedReplayLeases' \subseteq Replay
      /\ UsedOnce'
  <2>1. CASE Verified(s)
    <3>1. PICK l \in Replay : /\ l \notin usedReplayLeases
                              /\ usedReplayLeases' = usedReplayLeases \cup {l}
                              /\ uses' = [uses EXCEPT ![l] = @ + 1]
      BY <2>1 DEF Verified, Fresh
    <3>2. QED
      BY <3>1 DEF IInv, FacadeTypeOK, UsedOnce
  <2>2. CASE UNCHANGED <<uses, usedReplayLeases>>
    BY <2>2 DEF IInv, FacadeTypeOK, UsedOnce
  <2>3. QED
    BY <2>1, <2>2 DEF Authorizes, Authorize, NotVerified, Reserved, NotReserved, Lapse
<1>3. QED
  BY <1>1, <1>2 DEF IInv, FacadeTypeOK, SentIsAttempted, MadeByEnded, ActsOnOwn, Ended

-----------------------------------------------------------------------------
\* create
LEMMA CallOf == ASSUME NEW s \in Session, NEW k \in Creation
                PROVE  /\ <<s, k>> \in Call
                       /\ \A c : c = <<s, k>> => c[1] = s
  BY DEF Call

LEMMA CreateKeeps ==
    ASSUME IInv, NEW s \in Session, NEW k \in Creation, ~attempted[s],
           creation' = [creation EXCEPT ![<<s, k>>] = "loading"],
           UNCHANGED <<uses, usedReplayLeases, attempted, cleanup, sandbox>>
    PROVE  IInv'
<1>1. <<s, k>> \in Call /\ \A c \in Call : creation'[c] = IF c = <<s, k>> THEN "loading"
                                                          ELSE creation[c]
  BY CallOf DEF IInv, FacadeTypeOK
<1>2. \A c \in Call : Ended(c) => Ended(c)'
  BY <1>1, CallOf DEF Ended
<1>3. FacadeTypeOK' /\ UsedOnce' /\ SentIsAttempted'
  BY <1>1 DEF IInv, FacadeTypeOK, UsedOnce, SentIsAttempted
<1>4. MadeByEnded' /\ ActsOnOwn'
  BY <1>2, GoneIsNoBox DEF IInv, FacadeTypeOK, MadeByEnded, ActsOnOwn, Box
<1>5. QED
  BY <1>3, <1>4 DEF IInv

LEMMA CreatesHolds ==
    ASSUME IInv, NEW s \in Session, NEW k \in Creation, Creates(s, k) PROVE IInv'
<1> DEFINE c == <<s, k>>
<1>0. c \in Call /\ c[1] = s /\ UNCHANGED <<uses, usedReplayLeases, cleanup>>
  BY CallOf DEF Creates, Create, CreateSent, Created, CreateFails, CreateQuiet, trust
<1>1. CASE Create(s, k)
  BY <1>0, <1>1, CreateKeeps DEF Create, MayCreate
<1>2. CASE CreateSent(s, k) \/ CreateFails(s, k)
  <2>1. /\ creation[c] \in {"loading", "sent"}
        /\ sandbox' = sandbox
        /\ attempted' \in {attempted, [attempted EXCEPT ![s] = TRUE]}
        /\ \/ creation' = [creation EXCEPT ![c] = "failed"] /\ attempted' = attempted
           \/ creation' = [creation EXCEPT ![c] = "sent"] /\ attempted' # attempted
           \/ creation' = [creation EXCEPT ![c] = "sent"] /\ attempted'[s] = TRUE
    BY <1>2 DEF CreateSent, CreateFails, IInv, FacadeTypeOK
  <2>2. FacadeTypeOK'
    BY <1>0, <2>1 DEF IInv, FacadeTypeOK
  <2>3. \A d \in Call : Ended(d) => Ended(d)'
    BY <1>0, <2>1 DEF Ended, IInv, FacadeTypeOK, Call
  <2>4. UsedOnce' /\ MadeByEnded' /\ ActsOnOwn'
    BY <1>0, <2>1, <2>3, GoneIsNoBox
       DEF IInv, FacadeTypeOK, UsedOnce, MadeByEnded, ActsOnOwn, Box
  <2>5. SentIsAttempted'
    <3>1. CASE CreateSent(s, k)
      BY <1>0, <3>1 DEF CreateSent, IInv, FacadeTypeOK, SentIsAttempted, Call
    <3>2. CASE CreateFails(s, k)
      BY <1>0, <3>2 DEF CreateFails, IInv, FacadeTypeOK, SentIsAttempted, Call
    <3>3. QED
      BY <1>2, <3>1, <3>2
  <2>6. QED
    BY <2>2, <2>4, <2>5 DEF IInv
<1>3. CASE Created(s, k)
  <2> DEFINE new == [by |-> c, at |-> "running"]
  <2>1. /\ creation[c] = "sent" /\ attempted[s]
        /\ sandbox' = [sandbox EXCEPT ![NameOf[s]] = new]
        /\ attempted' = attempted
        /\ NameOf[s] \in Name
    BY <1>0, <1>3, FacadeAssumption DEF Created, IInv, SentIsAttempted
  <2>2. PICK answer \in {"done", "failed"} : creation' = [creation EXCEPT ![c] = answer]
    BY <1>3 DEF Created
  <2>3. FacadeTypeOK'
    BY <1>0, <2>1, <2>2 DEF IInv, FacadeTypeOK, Box
  <2>4. Ended(c)' /\ \A d \in Call : Ended(d) => Ended(d)'
    BY <1>0, <2>1, <2>2 DEF Ended, IInv, FacadeTypeOK
  <2>5. MadeByEnded'
    <3>1. sandbox'[NameOf[s]].by = c
      BY <2>1 DEF IInv, FacadeTypeOK
    <3>2. \A n \in Name \ {NameOf[s]} : sandbox'[n] = sandbox[n]
      BY <2>1 DEF IInv, FacadeTypeOK
    <3>3. \A n \in Name : sandbox[n] # Gone => sandbox[n].by \in Call
      BY DEF IInv, FacadeTypeOK, Box
    <3>4. QED
      BY <1>0, <2>1, <2>4, <3>1, <3>2, <3>3 DEF IInv, MadeByEnded
  <2>6. UsedOnce' /\ ActsOnOwn' /\ SentIsAttempted'
    BY <1>0, <2>1, <2>2, <2>4 DEF IInv, FacadeTypeOK, UsedOnce, ActsOnOwn, SentIsAttempted
  <2>7. QED
    BY <2>3, <2>5, <2>6 DEF IInv
<1>4. QED
  BY <1>1, <1>2, <1>3 DEF Creates

LEMMA ExecutesHolds == ASSUME IInv, NEW s \in Session, Executes(s) PROVE IInv'
<1>1. UNCHANGED <<uses, usedReplayLeases, attempted, creation, cleanup, sandbox>>
  BY DEF Executes, Execute, Inspected, RunCommand, CommandExits, ExecuteFails,
         ExecuteQuiet, trust
<1>2. QED
  BY <1>1 DEF IInv, FacadeTypeOK, UsedOnce, SentIsAttempted, MadeByEnded, ActsOnOwn, Ended

-----------------------------------------------------------------------------
\* cleanup
LEMMA Stopped == ASSUME NEW b \in Box, b # Gone
                 PROVE  [b EXCEPT !.at = "stopped"] = [by |-> b.by, at |-> "stopped"]
  BY DEF Box

\* A step of a cleanup leaves what was created to those who did, or takes it away.
LEMMA CleansSandbox ==
    ASSUME IInv, NEW s \in Session, Cleans(s)
    PROVE  /\ sandbox' \in [Name -> Box]
           /\ \A n \in Name : sandbox'[n] # Gone =>
                  sandbox[n] # Gone /\ sandbox'[n].by = sandbox[n].by
<1>0. NameOf[s] \in Name
  BY FacadeAssumption
<1>1. CASE sandbox' = sandbox
  BY <1>1 DEF IInv, FacadeTypeOK
<1>2. CASE sandbox' = [sandbox EXCEPT ![NameOf[s]] = Gone]
  BY <1>0, <1>2 DEF IInv, FacadeTypeOK, Box
<1>3. CASE CleanupStops(s)
  <2> DEFINE b == sandbox[NameOf[s]]
  <2>1. b \in Box /\ b # Gone
    BY <1>0, <1>3 DEF CleanupStops, Here, IInv, FacadeTypeOK
  <2>2. sandbox' = [sandbox EXCEPT ![NameOf[s]] = [by |-> b.by, at |-> "stopped"]]
    <3>1. sandbox' = [sandbox EXCEPT ![NameOf[s]] = [b EXCEPT !.at = "stopped"]]
      BY <1>0, <1>3 DEF CleanupStops, IInv, FacadeTypeOK
    <3>2. QED
      BY <2>1, <3>1, Stopped
  <2>3. b.by \in Call
    BY <2>1 DEF Box
  <2>4. QED
    BY <1>0, <2>1, <2>2, <2>3 DEF IInv, FacadeTypeOK, Box
<1>4. QED
  BY <1>1, <1>2, <1>3 DEF Cleans, Cleanup, Proved, Found, CleanupDeletes, CleanupUncertain

LEMMA CleansOwn ==
    ASSUME IInv, NEW s \in Session, Cleans(s)
    PROVE  /\ cleanup' \in [Session -> [at : {"idle", "proving", "inspect", "stop",
                                              "delete", "clean", "uncertain"}, on : Box]]
           /\ ActsOnOwn'
<1>0. UNCHANGED <<attempted, creation>> /\ \A c \in Call : Ended(c) <=> Ended(c)'
  BY DEF Cleans, Cleanup, Proved, Found, CleanupStops, CleanupDeletes, CleanupUncertain,
         CleanupQuiet, Ended
<1>1. CASE Found(s)
  <2> DEFINE b == sandbox[NameOf[s]]
  <2>1. b # Gone /\ b.by[1] = s /\ b \in Box /\ b.by \in Call /\ Ended(b.by)
    BY <1>1, FacadeAssumption DEF Found, Own, IInv, FacadeTypeOK, Box, MadeByEnded
  <2>2. cleanup' = [cleanup EXCEPT ![s] = [at |-> "stop", on |-> b]]
    BY <1>1 DEF Found, Cleaning
  <2>3. QED
    BY <1>0, <2>1, <2>2 DEF IInv, FacadeTypeOK, ActsOnOwn
<1>2. CASE CleanupStops(s)
  <2>1. /\ cleanup[s].at = "stop"
        /\ cleanup' = [cleanup EXCEPT ![s] = [at |-> "delete", on |-> cleanup[s].on]]
    BY <1>2 DEF CleanupStops, Cleaning
  <2>2. QED
    BY <1>0, <2>1 DEF IInv, FacadeTypeOK, ActsOnOwn
<1>3. ASSUME NEW to \in {"proving", "inspect", "uncertain", "clean"},
             cleanup' = [cleanup EXCEPT ![s] = [at |-> to, on |-> Gone]]
      PROVE  /\ cleanup' \in [Session -> [at : {"idle", "proving", "inspect", "stop",
                                              "delete", "clean", "uncertain"}, on : Box]]
             /\ ActsOnOwn'
  BY <1>0, <1>3 DEF IInv, FacadeTypeOK, ActsOnOwn, Box
<1>4. QED
  BY <1>1, <1>2, <1>3 DEF Cleans, Cleanup, Proved, CleanupDeletes, CleanupUncertain, Cleaning

LEMMA CleansLeases ==
    ASSUME IInv, NEW s \in Session, Cleans(s)
    PROVE  uses' \in [Replay -> Nat] /\ usedReplayLeases' \subseteq Replay /\ UsedOnce'
<1>1. CASE Proved(s)
  <2>1. PICK l \in Replay : /\ l \notin usedReplayLeases
                            /\ usedReplayLeases' = usedReplayLeases \cup {l}
                            /\ uses' = [uses EXCEPT ![l] = @ + 1]
    BY <1>1 DEF Proved, Fresh
  <2>2. QED
    BY <2>1 DEF IInv, FacadeTypeOK, UsedOnce
<1>2. CASE UNCHANGED <<uses, usedReplayLeases>>
  BY <1>2 DEF IInv, FacadeTypeOK, UsedOnce
<1>3. QED
  BY <1>1, <1>2 DEF Cleans, Cleanup, Found, CleanupStops, CleanupDeletes, CleanupUncertain

LEMMA CleansHolds == ASSUME IInv, NEW s \in Session, Cleans(s) PROVE IInv'
<1>1. UNCHANGED <<attempted, creation>>
  BY DEF Cleans, Cleanup, Proved, Found, CleanupStops, CleanupDeletes, CleanupUncertain,
         CleanupQuiet
<1>2. FacadeTypeOK'
  BY <1>1, CleansLeases, CleansOwn, CleansSandbox DEF IInv, FacadeTypeOK
<1>3. MadeByEnded'
  BY <1>1, CleansSandbox DEF IInv, MadeByEnded, Ended
<1>4. SentIsAttempted'
  BY <1>1 DEF IInv, SentIsAttempted
<1>5. QED
  BY <1>2, <1>3, <1>4, CleansLeases, CleansOwn DEF IInv

-----------------------------------------------------------------------------
LEMMA NextHolds == IInv /\ [Next]_vars => IInv'
<1> SUFFICES ASSUME IInv, [Next]_vars PROVE IInv'
  OBVIOUS
<1>1. CASE UNCHANGED vars
  BY <1>1 DEF vars, IInv, FacadeTypeOK, UsedOnce, SentIsAttempted, MadeByEnded, ActsOnOwn,
     Ended
<1>2. ASSUME NEW s \in Session, Authorizes(s) \/ Executes(s) \/ Cleans(s) PROVE IInv'
  BY <1>2, AuthorizesHolds, ExecutesHolds, CleansHolds
<1>3. ASSUME NEW s \in Session, NEW k \in Creation, Creates(s, k) PROVE IInv'
  BY <1>3, CreatesHolds
<1>4. QED
  BY <1>1, <1>2, <1>3 DEF Next

THEOREM Inductive == Spec => []IInv
  BY InitHolds, NextHolds, PTL DEF Spec

\* A replay lease is accepted once, however the verifier's answers interleave.
THEOREM LeasesUsedOnce == Spec => []ReplayedNever
<1>1. IInv => ReplayedNever
  BY DEF IInv, UsedOnce, ReplayedNever
<1>2. QED
  BY <1>1, Inductive, PTL

LEMMA CleansTouchOwn ==
    ASSUME IInv, NEW s \in Session, Cleans(s), NEW n \in Name, sandbox'[n] # sandbox[n]
    PROVE  sandbox[n].by[1] = s
<1>1. sandbox' # sandbox
  OBVIOUS
<1>2. cleanup[s].at \in {"stop", "delete"} /\ Here(s)
  BY <1>1 DEF Cleans, Cleanup, Proved, Found, CleanupStops, CleanupDeletes,
     CleanupUncertain, Cleaning
<1>3. n = NameOf[s]
  <2>1. \/ sandbox' = [sandbox EXCEPT ![NameOf[s]].at = "stopped"]
        \/ sandbox' = [sandbox EXCEPT ![NameOf[s]] = Gone]
    BY <1>1 DEF Cleans, Cleanup, Proved, Found, CleanupStops, CleanupDeletes, CleanupUncertain
  <2>2. QED
    BY <2>1 DEF IInv, FacadeTypeOK
<1>4. QED
  BY <1>2, <1>3 DEF IInv, ActsOnOwn, Here

\* The sandbox a cleanup stops or deletes was created by its session, although names are
\* looked up before the calls that act on them.
THEOREM CleanupTouchesItsOwn == Spec => OthersUntouched
<1>1. ASSUME IInv, [Next]_vars,
             NEW s \in Session, cleanup'[s] # cleanup[s],
             NEW n \in Name, sandbox'[n] # sandbox[n]
      PROVE  sandbox[n].by[1] = s
  <2>1. PICK t \in Session : Cleans(t)
    BY <1>1 DEF Next, vars, Authorizes, Authorize, Verified, NotVerified, Reserved,
       NotReserved, Lapse, Moves, Executes, Execute, Inspected, RunCommand, CommandExits,
       ExecuteFails, ExecuteQuiet, Creates, Create, CreateSent, Created, CreateFails,
       CreateQuiet
  <2>2. t = s
    <3>1. PICK c : cleanup' = [cleanup EXCEPT ![t] = c]
      BY <2>1 DEF Cleans, Cleanup, Proved, Found, CleanupStops, CleanupDeletes,
         CleanupUncertain, Cleaning
    <3>2. QED
      BY <1>1, <3>1 DEF IInv, FacadeTypeOK
  <2>3. QED
    BY <1>1, <2>1, <2>2, CleansTouchOwn
<1>2. IInv /\ [Next]_vars =>
          [\A s \in Session : cleanup'[s] # cleanup[s] =>
              \A n \in Name : sandbox'[n] # sandbox[n] => sandbox[n].by[1] = s]_vars
  BY <1>1
<1>3. QED
  BY <1>2, Inductive, PTL DEF Spec, OthersUntouched

-----------------------------------------------------------------------------
\* A create call that has ended does not begin again.
LEMMA EndedStays ==
    ASSUME IInv, [Next]_vars, NEW c \in Call, Ended(c)
    PROVE  Ended(c)'
<1>1. CASE UNCHANGED <<attempted, creation>>
  BY <1>1 DEF Ended
<1>2. ASSUME NEW s \in Session, NEW k \in Creation, Creates(s, k) PROVE Ended(c)'
  <2>1. <<s, k>> \in Call /\ \A d : d = <<s, k>> => d[1] = s
    BY CallOf
  <2>2. CASE c = <<s, k>>
    BY <1>2, <2>1, <2>2 DEF Creates, Create, CreateSent, Created, CreateFails, MayCreate,
       Ended, IInv, FacadeTypeOK
  <2>3. CASE c # <<s, k>>
    BY <1>2, <2>1, <2>3 DEF Creates, Create, CreateSent, Created, CreateFails, Ended, IInv,
       FacadeTypeOK, Call
  <2>4. QED
    BY <2>2, <2>3
<1>3. QED
  BY <1>1, <1>2 DEF Next, vars, Authorizes, Authorize, Verified, NotVerified, Reserved,
     NotReserved, Lapse, Moves, Executes, Execute, Inspected, RunCommand, CommandExits,
     ExecuteFails, ExecuteQuiet, Cleans, Cleanup, Proved, Found, CleanupStops,
     CleanupDeletes, CleanupUncertain, CleanupQuiet

CleanInv == IInv /\ CleanIsOver /\ CleanIsGone

LEMMA CleanInit == Init => CleanInv
  BY InitHolds DEF Init, CleanInv, CleanIsOver, CleanIsGone

LEMMA CleanStays ==
    ASSUME OneCreateCall, CleanInv, [Next]_vars
    PROVE  CleanInv'
<1>0. IInv'
  BY NextHolds DEF CleanInv
<1>1. ASSUME NEW t \in Session, cleanup'[t].at = "clean"
      PROVE  \/ cleanup[t].at = "clean"
             \/ CleanupDeletes(t)
  <2>1. CASE cleanup' = cleanup
    BY <1>1, <2>1
  <2>2. ASSUME NEW s \in Session, Cleans(s)
        PROVE  cleanup[t].at = "clean" \/ CleanupDeletes(t)
    <3>1. CASE CleanupDeletes(s)
      BY <1>1, <3>1 DEF CleanupDeletes, Cleaning, CleanInv, IInv, FacadeTypeOK
    <3>2. CASE ~CleanupDeletes(s)
      <4>1. PICK c : cleanup' = [cleanup EXCEPT ![s] = c] /\ c.at # "clean"
        BY <2>2, <3>2 DEF Cleans, Cleanup, Proved, Found, CleanupStops, CleanupUncertain,
           Cleaning
      <4>2. QED
        BY <1>1, <4>1 DEF CleanInv, IInv, FacadeTypeOK
    <3>3. QED
      BY <3>1, <3>2
  <2>3. QED
    BY <2>1, <2>2 DEF Next, vars, Authorizes, Authorize, Verified, NotVerified, Reserved,
       NotReserved, Lapse, Moves, Executes, Execute, Inspected, RunCommand, CommandExits,
       ExecuteFails, ExecuteQuiet, Creates, Create, CreateSent, Created, CreateFails,
       CreateQuiet
<1>2. CleanIsOver'
  <2> SUFFICES ASSUME NEW t \in Session, cleanup'[t].at = "clean", NEW k \in Creation
               PROVE  Ended(<<t, k>>)'
    BY DEF CleanIsOver
  <2>1. Ended(<<t, k>>)
    <3>1. CASE cleanup[t].at = "clean"
      BY <3>1 DEF CleanInv, CleanIsOver
    <3>2. CASE CleanupDeletes(t)
      <4>1. cleanup[t].at = "delete"
        BY <3>2 DEF CleanupDeletes, Cleaning
      <4>2. cleanup[t].on.by = <<t, k>>
        BY <4>1 DEF CleanInv, IInv, ActsOnOwn, OneCreateCall, Call
      <4>3. QED
        BY <4>1, <4>2 DEF CleanInv, IInv, ActsOnOwn
    <3>3. QED
      BY <1>1, <3>1, <3>2
  <2>2. QED
    BY <2>1, EndedStays, CallOf DEF CleanInv
<1>3. CleanIsGone'
  <2> SUFFICES ASSUME NEW t \in Session, cleanup'[t].at = "clean",
                      sandbox'[NameOf[t]] # Gone, sandbox'[NameOf[t]].by[1] = t
               PROVE  FALSE
    BY DEF CleanIsGone, Own
  <2>0. NameOf[t] \in Name /\ sandbox \in [Name -> Box] /\ sandbox' \in [Name -> Box]
    BY <1>0, FacadeAssumption DEF CleanInv, IInv, FacadeTypeOK
  <2>1. ~CleanupDeletes(t)
    BY <2>0 DEF CleanupDeletes
  <2>2. cleanup[t].at = "clean"
    BY <1>1, <2>1
  <2>3. ~(sandbox[NameOf[t]] # Gone /\ sandbox[NameOf[t]].by[1] = t)
    BY <2>2 DEF CleanInv, CleanIsGone, Own
  <2>4. ASSUME NEW s \in Session, Cleans(s) PROVE FALSE
    BY <2>0, <2>3, <2>4, CleansSandbox DEF CleanInv
  <2>5. ASSUME NEW s \in Session, NEW k \in Creation, Created(s, k) PROVE FALSE
    <3>1. sandbox' = [sandbox EXCEPT ![NameOf[s]] = [by |-> <<s, k>>, at |-> "running"]]
      BY <2>5 DEF Created
    <3>2. NameOf[t] = NameOf[s] /\ s = t
      BY <2>0, <2>3, <3>1
    <3>3. creation[<<t, k>>] = "sent"
      BY <2>5, <3>2 DEF Created
    <3>4. QED
      BY <2>2, <3>3 DEF CleanInv, CleanIsOver, Ended
  <2>6. sandbox' # sandbox
    BY <2>3
  <2>7. QED
    BY <2>4, <2>5, <2>6 DEF Next, vars, Authorizes, Authorize, Verified, NotVerified,
       Reserved, NotReserved, Lapse, Moves, Executes, Execute, Inspected, RunCommand,
       CommandExits, ExecuteFails, ExecuteQuiet, Creates, Create, CreateSent, CreateFails,
       CreateQuiet
<1>4. QED
  BY <1>0, <1>2, <1>3 DEF CleanInv

\* When a session has one create call at a time, no sandbox of it comes back after a
\* cleanup that was reported clean.
THEOREM CleanIsFinal == ASSUME OneCreateCall PROVE Spec => []CleanIsGone
<1>1. CleanInv /\ [Next]_vars => CleanInv'
  BY CleanStays
<1>2. CleanInv => CleanIsGone
  BY DEF CleanInv
<1>3. QED
  BY <1>1, <1>2, CleanInit, PTL DEF Spec
=============================================================================
