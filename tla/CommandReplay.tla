---------------------------- MODULE CommandReplay ----------------------------
(***************************************************************************)
(* A command with an idempotency key (app.ts, db/index.ts) and the         *)
(* application that sends it (managed_runner_api.dart): the answer that is *)
(* stored under the key, the callback that is running for it, the requests *)
(* that wait for that callback, and the second attempt of a client that    *)
(* got no answer.                                                          *)
(*                                                                         *)
(* Commands of different keys do not meet here, so there is one key.  The  *)
(* callback of a route is one effect, then an answer that is stored; it    *)
(* may fail before or after the effect.  An answer is the number of the    *)
(* effect it reports, or a status.                                         *)
(***************************************************************************)
EXTENDS Integers, FiniteSets

CONSTANT MaxCrashes

ASSUME ReplayAssumption == MaxCrashes \in Nat

VARIABLES
    command,    \* the route
    tries,      \* the attempts of the client so far
    answer,     \* what the client knows: "none" before and during an attempt, "lost"
                \* after one without an answer, "success" with an effect, or "error"
    arriving,   \* the attempts on their way to the route
    callback,   \* the callbacks, by the attempt that started them: Never, Begun or
                \* the number of the effect they have had
    joined,     \* the attempts that wait for another one's callback
    stored,     \* the table of answers: 0, or an effect
    effects, interrupted, crashes

replayVars == <<command, tries, answer, arriving, callback, joined, stored, effects,
                interrupted, crashes>>

Attempt == 1 .. 2

(***************************************************************************)
(* The routes: the status of a success, and those that its errors are      *)
(* answered with.                                                          *)
(***************************************************************************)
CreateConversation == [ok |-> 201, errors |-> {409, 503}]
CloseConversation == [ok |-> 200, errors |-> {409}]
Message == [ok |-> 202, errors |-> {404, 409, 429, 503}]
InterruptOrResume == [ok |-> 200, errors |-> {404, 409, 429, 503}]
Audit == [ok |-> 202, errors |-> {409, 429}]
Fix == [ok |-> 202, errors |-> {409, 429, 503}]
Approval == [ok |-> 200, errors |-> {403, 404, 409, 503}]

Routes == {CreateConversation, CloseConversation, Message, InterruptOrResume, Audit, Fix,
           Approval}

\* Anything a route does not name; and the guards of a route: no actor, no access to the
\* project, another origin, an invalid request.
Unexpected == 500
Guarded == {400, 401, 403}

Never == -1
Begun == 0

Heard(what, status, k) == [what |-> what, status |-> status, effect |-> k]
Effect(k) == Heard("success", command.ok, k)
Error(status) == Heard("error", status, 0)
NoAnswer == Heard("none", 0, 0)
NotHeard == Heard("lost", 0, 0)

ReplayInit ==
    /\ command \in Routes
    /\ tries = 0 /\ answer = NoAnswer /\ arriving = {}
    /\ callback = [n \in Attempt |-> Never] /\ joined = {}
    /\ stored = 0 /\ effects = 0 /\ interrupted = 0 /\ crashes = 0

Running == {n \in Attempt : callback[n] # Never}
HadEffect(n) == callback[n] > Begun
-----------------------------------------------------------------------------
(***************************************************************************)
(* The client.                                                             *)
(***************************************************************************)
\* _command: a second attempt with the same key, after no answer.
Try ==
    /\ tries < 2 /\ (tries = 0 \/ answer = NotHeard)
    /\ tries' = tries + 1 /\ arriving' = arriving \cup {tries + 1}
    /\ answer' = NoAnswer
    /\ UNCHANGED <<command, callback, joined, stored, effects, interrupted, crashes>>

\* _isTransient: the connection fails or times out, whatever the runner does.
TimeOut ==
    /\ tries > 0 /\ answer = NoAnswer /\ answer' = NotHeard
    /\ UNCHANGED <<command, tries, arriving, callback, joined, stored, effects, interrupted,
                   crashes>>

\* Only the attempt the client is waiting for is listened to.
Answer(ns, a) == answer' = IF tries \in ns /\ answer = NoAnswer THEN a ELSE answer
-----------------------------------------------------------------------------
(***************************************************************************)
(* The runner.                                                             *)
(***************************************************************************)
Forbid(n) ==
    /\ n \in arriving /\ arriving' = arriving \ {n}
    /\ \E status \in Guarded : Answer({n}, Error(status))
    /\ UNCHANGED <<command, tries, callback, joined, stored, effects, interrupted, crashes>>

\* A mutant: the callbacks under way are not looked up.
BadPending == {}
Pending == Running

\* executeIdempotentAsync, up to its first wait.
Execute(n) ==
    /\ n \in arriving /\ arriving' = arriving \ {n}
    /\ \/ stored # 0 /\ Answer({n}, Effect(stored)) /\ UNCHANGED <<callback, joined>>
       \/ /\ stored = 0 /\ Pending # {} /\ joined' = joined \cup {n}
          /\ UNCHANGED <<answer, callback>>
       \/ /\ stored = 0 /\ Pending = {} /\ callback' = [callback EXCEPT ![n] = Begun]
          /\ UNCHANGED <<answer, joined>>
    /\ UNCHANGED <<command, tries, stored, effects, interrupted, crashes>>

HaveEffect(n) ==
    /\ callback[n] = Begun
    /\ effects' = effects + 1
    /\ callback' = [callback EXCEPT ![n] = effects + 1]
    /\ UNCHANGED <<command, tries, answer, arriving, joined, stored, interrupted, crashes>>

Ended(n) == callback' = [callback EXCEPT ![n] = Never] /\ joined' = {}

Finish(n) ==
    /\ HadEffect(n) /\ stored = 0
    /\ stored' = callback[n]
    /\ Answer(joined \cup {n}, Effect(callback[n]))
    /\ Ended(n)
    /\ UNCHANGED <<command, tries, arriving, effects, interrupted, crashes>>

\* No answer is stored: the callback throws, or its answer cannot be inserted.
Fail(n) ==
    /\ callback[n] # Never
    /\ \E status \in command.errors \cup {Unexpected} : Answer(joined \cup {n}, Error(status))
    /\ interrupted' = interrupted + (IF HadEffect(n) THEN 1 ELSE 0)
    /\ Ended(n)
    /\ UNCHANGED <<command, tries, arriving, stored, effects, crashes>>

\* The runner restarts: of a command only the stored answer is left.
Crash ==
    /\ crashes < MaxCrashes /\ crashes' = crashes + 1
    /\ interrupted' = interrupted + Cardinality({n \in Attempt : HadEffect(n)})
    /\ callback' = [n \in Attempt |-> Never] /\ joined' = {} /\ arriving' = {}
    /\ UNCHANGED <<command, tries, answer, stored, effects>>

ReplayNext ==
    \/ Try \/ TimeOut \/ Crash
    \/ \E n \in Attempt : Forbid(n) \/ Execute(n) \/ HaveEffect(n) \/ Finish(n) \/ Fail(n)

ReplaySpec == ReplayInit /\ [][ReplayNext]_replayVars
-----------------------------------------------------------------------------
\* A repeated command has its effect once, and a success is what is stored, so that a
\* later attempt hears the same; it has it again only when it was cut short, by an error
\* or a crash, between the effect and the storing of its answer.
EffectOnce ==
    /\ effects <= 1 + interrupted
    /\ answer.what = "success" => answer.effect = stored

\* Exactly once, whatever happens.  It does not hold: see interrupted.
ExactlyOnce == effects <= 1
=============================================================================
