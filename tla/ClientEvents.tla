---------------------------- MODULE ClientEvents ----------------------------
(***************************************************************************)
(* How a client records an event (client.py:142-332, session.py): track(), *)
(* identify() and reset() called by several threads, each reading and      *)
(* writing the user id under _identity_lock and the session under the      *)
(* session manager's lock, in separate sections, while shutdown() closes   *)
(* the client.  One action is one section under a lock.                    *)
(*                                                                         *)
(* Sessions and visitors (anonymous ids) are numbered as they are minted,  *)
(* and a user id carries, as history, how many resets had begun when it    *)
(* was given.                                                              *)
(***************************************************************************)
EXTENDS InputRules

CONSTANTS
  Threads,
  Users,      \* user ids given to identify() and track()
  Inputs,     \* the events given to track(), as InputRules sees them
  Today,      \* the time their timestamps are compared with
  Timeout,    \* session_timeout
  MaxTime,    \* bound of the clock
  MaxCalls    \* bound: how many calls the application makes

ASSUME EventsAssumption ==
  /\ IsFiniteSet(Threads) /\ None \notin Users
  /\ {Timeout, MaxTime, MaxCalls, Today} \subseteq Nat

VARIABLES
  user,       \* _user_id: [id, since], since the resets begun when it was given
  session,    \* SessionManager._session: [id, visitor, user, last]
  now,        \* the clock, now_ms()
  minted,     \* how many sessions have been created
  visitors,   \* how many anonymous ids have been created
  closed,     \* _closed
  rejected,   \* _rejected_locally_count
  recorded,   \* the events handed to the batch manager
  call,       \* what each thread is doing
  calls,      \* how many calls were made
  resets      \* history: how many resets have begun

identity == <<user, session>>
ids == <<minted, visitors>>
vars == <<identity, ids, now, closed, rejected, recorded, call, calls, resets>>

NoUser == [id |-> None, since |-> 0]
NoCall == [op |-> "none", pc |-> "idle", user |-> None, session |-> 0,
           visitor |-> 0, reads |-> NoUser]

SessionInit == [id |-> 1, visitor |-> 1, user |-> None, last |-> 0]

Init ==
  /\ user = NoUser
  /\ session = SessionInit
  /\ now = 0 /\ minted = 1 /\ visitors = 1
  /\ closed = FALSE /\ rejected = 0 /\ recorded = {}
  /\ call = [t \in Threads |-> NoCall]
  /\ calls = 0 /\ resets = 0

At(t, place) == call[t].pc = place
Goes(t, place) == call' = [call EXCEPT ![t] = [@ EXCEPT !.pc = place]]
Returns(t) == call' = [call EXCEPT ![t] = NoCall]

-----------------------------------------------------------------------------
(* Session manager                                                         *)

NeverExpires == FALSE \* mutant
Expired == now - session.last > Timeout

NewVisitor == session' = [id |-> minted + 1, visitor |-> visitors + 1, \* mutant
                          user |-> None, last |-> now']
\* _create_session(anonymous_id=...): the visitor stays, the session's user does not.
SameVisitor == session' = [id |-> minted + 1, visitor |-> session.visitor,
                           user |-> None, last |-> now']

\* One section under the lock, but two readings of the clock, to check the session and
\* to refresh or replace it: time may pass between them.
Touch(t) ==
  /\ At(t, "touch")
  /\ now' \in now .. MaxTime
  /\ IF Expired THEN SameVisitor /\ minted' = minted + 1
     ELSE session' = [session EXCEPT !.last = now'] /\ UNCHANGED minted
  /\ Goes(t, "session")
  /\ UNCHANGED <<user, visitors, closed, rejected, recorded, calls, resets>>

GetSession(t) ==
  /\ At(t, "session")
  /\ call' = [call EXCEPT ![t] = [@ EXCEPT !.pc = "identity", !.session = session.id,
                                           !.visitor = session.visitor]]
  /\ UNCHANGED <<identity, now, ids, closed, rejected, recorded, calls, resets>>

\* set_user_id: the session is taken to be active, expired or not.
SetSessionUser(t) ==
  /\ At(t, "set_session")
  /\ session' = [session EXCEPT !.user = call[t].user, !.last = now]
  /\ Goes(t, "touch")
  /\ UNCHANGED <<user, now, ids, closed, rejected, recorded, calls, resets>>

\* reset() of the session manager: a new session and a new anonymous id.
NewSession(t) ==
  /\ At(t, "new_session")
  /\ session' = [id |-> minted + 1, visitor |-> visitors + 1, user |-> None, last |-> now]
  /\ minted' = minted + 1 /\ visitors' = visitors + 1
  /\ Returns(t)
  /\ UNCHANGED <<user, now, closed, rejected, recorded, calls, resets>>

-----------------------------------------------------------------------------
(* Client                                                                  *)

FirstStep(op) ==
  IF op = "identify" THEN "set_user" ELSE IF op = "reset" THEN "forget" ELSE "touch"

\* identify() ignores a blank id; reset() takes none.
ArgumentFits(op, u) == (op = "identify" => u # None) /\ (op = "reset" => u = None)

Called(t, op, u) ==
  /\ At(t, "idle") /\ calls < MaxCalls
  /\ ArgumentFits(op, u)
  /\ calls' = calls + 1
  /\ call' = [call EXCEPT ![t] = [NoCall EXCEPT !.op = op, !.pc = FirstStep(op), !.user = u]]
  /\ UNCHANGED <<identity, now, ids, closed, rejected, recorded, resets>>

SetUser(t) ==
  /\ At(t, "set_user")
  /\ user' = [id |-> call[t].user, since |-> resets]
  /\ Goes(t, "set_session")
  /\ UNCHANGED <<session, now, ids, closed, rejected, recorded, calls, resets>>

ForgetUser(t) ==
  /\ At(t, "forget")
  /\ user' = NoUser /\ resets' = resets + 1
  /\ Goes(t, "new_session")
  /\ UNCHANGED <<session, now, ids, closed, rejected, recorded, calls>>

\* effective_user = user_id or self._user_id; identify() passes no user_id.
ReadUser(t) ==
  /\ At(t, "identity")
  /\ LET given == call[t].op = "track" /\ call[t].user # None IN
     call' = [call EXCEPT ![t] =
       [@ EXCEPT !.pc = "build",
                 !.reads = IF given THEN [id |-> call[t].user, since |-> resets] ELSE user]]
  /\ UNCHANGED <<identity, now, ids, closed, rejected, recorded, calls, resets>>

\* The event is built and validated, or counted as rejected.
Build(t) ==
  /\ At(t, "build")
  /\ \E input \in Inputs :
       IF EventAccepted(input, Today)
         THEN Goes(t, "admit") /\ UNCHANGED rejected
         ELSE Returns(t) /\ rejected' = rejected + 1
  /\ UNCHANGED <<identity, now, ids, closed, recorded, calls, resets>>

EventReadsLate(t) == [session |-> session.id, visitor |-> session.visitor, \* mutant
                      user |-> call[t].reads]
Event(t) == [session |-> call[t].session, visitor |-> call[t].visitor,
             user |-> call[t].reads]

\* Checked and added in one section: nothing is added to a closed client.
Admit(t) ==
  /\ At(t, "admit")
  /\ recorded' = IF closed THEN recorded ELSE recorded \cup {Event(t)}
  /\ Returns(t)
  /\ UNCHANGED <<identity, now, ids, closed, rejected, calls, resets>>

Shutdown ==
  /\ ~closed
  /\ closed' = TRUE
  /\ UNCHANGED <<identity, now, ids, rejected, recorded, call, calls, resets>>

Tick ==
  /\ now < MaxTime
  /\ now' = now + 1
  /\ UNCHANGED <<identity, ids, closed, rejected, recorded, call, calls, resets>>

Record(t) == Touch(t) \/ GetSession(t) \/ ReadUser(t) \/ Build(t) \/ Admit(t)

Next ==
  \/ \E t \in Threads :
       \/ \E op \in {"track", "identify", "reset"}, u \in Users \cup {None} : Called(t, op, u)
       \/ SetUser(t) \/ SetSessionUser(t) \/ ForgetUser(t) \/ NewSession(t)
       \/ Record(t)
  \/ Shutdown
  \/ Tick

Spec == Init /\ [][Next]_vars
=============================================================================
