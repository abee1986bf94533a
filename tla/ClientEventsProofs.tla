------------------------- MODULE ClientEventsProofs -------------------------
(***************************************************************************)
(* ClientEvents keeps its types, no event joins a new anonymous id to a    *)
(* user forgotten before, and the session changes when it must and only    *)
(* then.  The first argument counts: every visitor but the first belongs   *)
(* to a reset() that has already cleared the user.  The rules the events   *)
(* are checked by accept what they should, whatever the input.             *)
(***************************************************************************)
EXTENDS ClientProperties, FiniteSetTheorems, TLAPS

Places == {"idle", "touch", "session", "identity", "build", "admit", "set_user",
           "set_session", "forget", "new_session"}
Ops == {"none", "track", "identify", "reset"}
CallStates == [op : Ops, pc : Places, user : Users \cup {None}, session : Nat,
               visitor : Nat, reads : UserIds]
Sessions == [id : Nat, visitor : Nat, user : Users \cup {None}, last : Nat]

\* The resets that have cleared the user, and not yet the session.
Resetting == {t \in Threads : call[t].pc = "new_session"}

\* A user that is set was given since the last reset began.
UserCurrent == user.id # None => user.since = resets

\* Each reset mints one visitor.
VisitorsCounted == visitors + Cardinality(Resetting) = resets + 1

\* The session and its visitor have been created.
Minted == session.visitor <= visitors /\ session.id <= minted

\* What one call has read at the place it is.
Read(c) ==
  /\ c.pc = "set_user" => c.user # None
  /\ c.pc = "identity" => c.visitor <= resets + 1
  /\ c.pc \in {"build", "admit"} /\ c.reads.id # None => c.reads.since + 1 >= c.visitor

ReadInOrder == \A t \in Threads : Read(call[t])

IInv ==
  /\ TypeOK /\ UserCurrent /\ VisitorsCounted /\ Minted /\ ReadInOrder
  /\ ForgottenUserStaysForgotten

-----------------------------------------------------------------------------
(* How a step changes the calls.                                           *)

\* A call that moves to a place keeps what it has read; the others do not change.
LEMMA GoesFacts ==
  ASSUME TypeOK, NEW t \in Threads, NEW place \in Places, Goes(t, place)
  PROVE  /\ call' \in [Threads -> CallStates]
         /\ call'[t].pc = place
         /\ call'[t].visitor = call[t].visitor /\ call'[t].reads = call[t].reads
         /\ \A s \in Threads \ {t} : call'[s] = call[s]
<1>1. call \in [Threads -> CallStates]
  BY DEF TypeOK, CallStates, Places, Ops
<1>2. call' = [call EXCEPT ![t] = [call[t] EXCEPT !.pc = place]]
  BY DEF Goes
<1>3. call[t] \in CallStates
  BY <1>1
<1> DEFINE moved == [call[t] EXCEPT !.pc = place]
<1>4. /\ moved \in CallStates /\ moved.pc = place
      /\ moved.visitor = call[t].visitor /\ moved.reads = call[t].reads
  BY <1>3 DEF CallStates
<1>5. call' = [call EXCEPT ![t] = moved]
  BY <1>2
<1> HIDE DEF moved
<1> QED
  BY <1>1, <1>4, <1>5

\* A call that returns is forgotten; the others do not change.
LEMMA ReturnsFacts ==
  ASSUME TypeOK, NEW t \in Threads, Returns(t)
  PROVE  /\ call' \in [Threads -> CallStates]
         /\ call'[t].pc = "idle"
         /\ \A s \in Threads \ {t} : call'[s] = call[s]
<1>1. call \in [Threads -> CallStates]
  BY DEF TypeOK, CallStates, Places, Ops
<1>2. NoCall \in CallStates /\ NoCall.pc = "idle"
  BY DEF NoCall, CallStates, Places, Ops, UserIds, NoUser
<1> QED
  BY <1>1, <1>2 DEF Returns

\* The others of a step of one call, and the set of resets under way.
LEMMA ResettingFacts ==
  ASSUME TypeOK, NEW t \in Threads, \A s \in Threads \ {t} : call'[s] = call[s]
  PROVE  /\ IsFiniteSet(Resetting) /\ Cardinality(Resetting) \in Nat
         /\ (call[t].pc = "new_session") = (call'[t].pc = "new_session")
              => Resetting' = Resetting
         /\ call[t].pc # "new_session" /\ call'[t].pc = "new_session"
              => Cardinality(Resetting') = Cardinality(Resetting) + 1
         /\ call[t].pc = "new_session" /\ call'[t].pc # "new_session"
              => Cardinality(Resetting') = Cardinality(Resetting) - 1
<1>1. IsFiniteSet(Resetting) /\ Cardinality(Resetting) \in Nat
  BY EventsAssumption, FS_Subset, FS_CardinalityType DEF Resetting
<1>2. (call[t].pc = "new_session") = (call'[t].pc = "new_session") => Resetting' = Resetting
  BY DEF Resetting
<1>3. ASSUME call[t].pc # "new_session", call'[t].pc = "new_session"
      PROVE  Cardinality(Resetting') = Cardinality(Resetting) + 1
  <2>1. Resetting' = Resetting \cup {t} /\ t \notin Resetting
    BY <1>3 DEF Resetting
  <2> QED
    BY <1>1, <2>1, FS_AddElement
<1>4. ASSUME call[t].pc = "new_session", call'[t].pc # "new_session"
      PROVE  Cardinality(Resetting') = Cardinality(Resetting) - 1
  <2>1. Resetting' = Resetting \ {t} /\ t \in Resetting
    BY <1>4 DEF Resetting
  <2> QED
    BY <1>1, <2>1, FS_RemoveElement
<1> QED
  BY <1>1, <1>2, <1>3, <1>4
-----------------------------------------------------------------------------
(* The actions.                                                            *)

\* A step of one call that leaves the identity alone.
LEMMA CallStep ==
  ASSUME IInv, NEW t \in Threads,
         call' \in [Threads -> CallStates], \A s \in Threads \ {t} : call'[s] = call[s],
         UNCHANGED <<user, session, now, minted, visitors, closed, resets>>,
         rejected' \in Nat, calls' \in Nat,
         \A e \in recorded' \ recorded :
           /\ e \in [session : Nat, visitor : Nat, user : UserIds]
           /\ e.user.id # None => e.user.since + 1 >= e.visitor,
         call[t].pc # "new_session", call'[t].pc # "new_session",
         Read(call'[t])
  PROVE  IInv'
<1> USE DEF IInv
<1>1. TypeOK'
  BY DEF TypeOK, CallStates, Places, Ops
<1>2. Resetting' = Resetting
  BY ResettingFacts
<1>3. UserCurrent' /\ VisitorsCounted' /\ Minted'
  BY <1>2 DEF UserCurrent, VisitorsCounted, Minted
<1>4. ForgottenUserStaysForgotten'
  BY DEF ForgottenUserStaysForgotten
<1>5. ReadInOrder'
  BY DEF ReadInOrder, Read
<1> QED
  BY <1>1, <1>3, <1>4, <1>5

\* A step that may change the session but not its visitor, nor the user.
LEMMA SessionStep ==
  ASSUME IInv, NEW t \in Threads,
         call' \in [Threads -> CallStates], \A s \in Threads \ {t} : call'[s] = call[s],
         UNCHANGED <<user, visitors, closed, rejected, recorded, calls, resets>>,
         now' \in Nat, session' \in Sessions, session'.visitor = session.visitor,
         minted' \in Nat, session'.id <= minted',
         call[t].pc # "new_session",
         call'[t].pc \notin {"new_session", "set_user", "identity", "build", "admit"}
  PROVE  IInv'
<1> USE DEF IInv
<1>1. TypeOK'
  BY DEF TypeOK, UserIds, Sessions, CallStates, Places, Ops
<1>2. Resetting' = Resetting
  BY ResettingFacts
<1>3. UserCurrent' /\ VisitorsCounted' /\ Minted' /\ ForgottenUserStaysForgotten'
  BY <1>2 DEF UserCurrent, VisitorsCounted, Minted, ForgottenUserStaysForgotten
<1>4. ReadInOrder'
  BY DEF ReadInOrder, Read
<1> QED
  BY <1>1, <1>3, <1>4

\* The visitors are at most one more than the resets.
LEMMA VisitorsBounded ==
  ASSUME IInv
  PROVE  visitors <= resets + 1 /\ session.visitor <= resets + 1
<1>1. Cardinality(Resetting) \in Nat
  BY EventsAssumption, FS_Subset, FS_CardinalityType DEF Resetting
<1> QED
  BY <1>1 DEF IInv, TypeOK, VisitorsCounted, Minted

LEMMA Typed ==
  ASSUME IInv, NEW t \in Threads
  PROVE  /\ call \in [Threads -> CallStates] /\ call[t] \in CallStates
         /\ session \in Sessions
  BY DEF IInv, TypeOK, CallStates, Places, Ops, Sessions

\* touch(): the same session, or a new one of the same visitor.
LEMMA TouchStep ==
  ASSUME IInv, NEW t \in Threads, Touch(t) PROVE IInv'
<1>1. Goes(t, "session") /\ call[t].pc = "touch" /\ TypeOK
  BY DEF Touch, At, IInv
<1>2. /\ call' \in [Threads -> CallStates] /\ call'[t].pc = "session"
      /\ \A s \in Threads \ {t} : call'[s] = call[s]
  BY <1>1, GoesFacts DEF Places
<1>3. now \in Nat /\ now' \in Nat
  BY EventsAssumption DEF Touch, IInv, TypeOK
<1>4. /\ session' \in Sessions /\ session'.visitor = session.visitor
      /\ minted' \in Nat /\ session'.id <= minted'
  BY <1>3 DEF Touch, SameVisitor, IInv, TypeOK, Sessions, Minted
<1>5. UNCHANGED <<user, visitors, closed, rejected, recorded, calls, resets>>
  BY DEF Touch
<1> QED
  BY <1>1, <1>2, <1>3, <1>4, <1>5, SessionStep

\* set_user_id()
LEMMA SetSessionUserStep ==
  ASSUME IInv, NEW t \in Threads, SetSessionUser(t) PROVE IInv'
<1>1. Goes(t, "touch") /\ call[t].pc = "set_session" /\ TypeOK
  BY DEF SetSessionUser, At, IInv
<1>2. /\ call' \in [Threads -> CallStates] /\ call'[t].pc = "touch"
      /\ \A s \in Threads \ {t} : call'[s] = call[s]
  BY <1>1, GoesFacts DEF Places
<1>3. /\ session' \in Sessions /\ session'.visitor = session.visitor
      /\ minted' \in Nat /\ session'.id <= minted'
  <2>1. call[t].user \in Users \cup {None} /\ session \in Sessions /\ now \in Nat
    BY Typed DEF CallStates, IInv, TypeOK
  <2>2. session' = [session EXCEPT !.user = call[t].user, !.last = now] /\ minted' = minted
    BY DEF SetSessionUser, ids
  <2> QED
    BY <2>1, <2>2 DEF IInv, TypeOK, Sessions, Minted
<1>4. UNCHANGED <<user, visitors, closed, rejected, recorded, calls, resets>> /\ now' \in Nat
  BY <1>1 DEF SetSessionUser, ids, TypeOK
<1> QED
  BY <1>1, <1>2, <1>3, <1>4, SessionStep

\* A call begins.
LEMMA CalledStep ==
  ASSUME IInv, NEW t \in Threads, NEW op \in {"track", "identify", "reset"},
         NEW u \in Users \cup {None}, Called(t, op, u)
  PROVE  IInv'
<1> DEFINE begun == [NoCall EXCEPT !.op = op, !.pc = FirstStep(op), !.user = u]
<1>1. /\ begun \in CallStates /\ begun.pc \in {"set_user", "forget", "touch"}
      /\ begun.pc = "set_user" => begun.user # None
  BY DEF Called, ArgumentFits, NoCall, NoUser, FirstStep, CallStates, Ops, Places, UserIds
<1>2. call' = [call EXCEPT ![t] = begun] /\ call[t].pc = "idle"
  BY DEF Called, At
<1>3. /\ UNCHANGED <<user, session, now, minted, visitors, closed, resets, recorded, rejected>>
      /\ calls' = calls + 1 /\ rejected \in Nat /\ calls \in Nat
  BY DEF Called, identity, ids, IInv, TypeOK
<1> HIDE DEF begun
<1>4. /\ call' \in [Threads -> CallStates] /\ call'[t] = begun
      /\ \A s \in Threads \ {t} : call'[s] = call[s]
  BY <1>1, <1>2, Typed
<1> QED
  BY <1>1, <1>2, <1>3, <1>4, CallStep DEF Read

\* get_session(): the visitor read is one that was minted.
LEMMA GetSessionStep ==
  ASSUME IInv, NEW t \in Threads, GetSession(t) PROVE IInv'
<1> DEFINE got == [call[t] EXCEPT !.pc = "identity", !.session = session.id,
                                  !.visitor = session.visitor]
<1>1. call[t] \in CallStates /\ session \in Sessions
  BY Typed
<1>2. got \in CallStates /\ got.pc = "identity" /\ got.visitor = session.visitor
  BY <1>1 DEF CallStates, Places, Sessions
<1>3. call' = [call EXCEPT ![t] = got] /\ call[t].pc = "session"
  BY DEF GetSession, At
<1>4. /\ UNCHANGED <<user, session, now, minted, visitors, closed, resets, recorded, rejected,
                     calls>>
      /\ rejected \in Nat /\ calls \in Nat
  BY DEF GetSession, identity, ids, IInv, TypeOK
<1> HIDE DEF got
<1>5. /\ call' \in [Threads -> CallStates] /\ call'[t] = got
      /\ \A s \in Threads \ {t} : call'[s] = call[s]
  BY <1>2, <1>3, Typed
<1>6. Read(call'[t])
  BY <1>2, <1>5, VisitorsBounded DEF Read
<1> QED
  BY <1>3, <1>4, <1>5, <1>6, <1>2, CallStep

\* The user is read: it was given since every reset that the session knows of.
LEMMA ReadUserStep ==
  ASSUME IInv, NEW t \in Threads, ReadUser(t) PROVE IInv'
<1> DEFINE given == call[t].op = "track" /\ call[t].user # None
           reads == IF given THEN [id |-> call[t].user, since |-> resets] ELSE user
           told == [call[t] EXCEPT !.pc = "build", !.reads = reads]
<1>1. call[t] \in CallStates /\ call[t].pc = "identity"
  BY Typed DEF ReadUser, At
<1>2. reads \in UserIds /\ (reads.id # None => reads.since = resets)
  BY <1>1 DEF IInv, TypeOK, UserCurrent, UserIds, CallStates
<1>3. call' = [call EXCEPT ![t] = told]
  BY DEF ReadUser
<1>4. call[t].visitor <= resets + 1
  BY <1>1 DEF IInv, ReadInOrder, Read
<1> HIDE DEF reads
<1>5. /\ told \in CallStates /\ told.pc = "build" /\ told.visitor = call[t].visitor
      /\ told.reads = reads
  BY <1>1, <1>2 DEF CallStates, Places
<1>6. /\ UNCHANGED <<user, session, now, minted, visitors, closed, resets, recorded, rejected,
                     calls>>
      /\ rejected \in Nat /\ calls \in Nat /\ resets \in Nat
  BY DEF ReadUser, identity, ids, IInv, TypeOK
<1> HIDE DEF told
<1>7. /\ call' \in [Threads -> CallStates] /\ call'[t] = told
      /\ \A s \in Threads \ {t} : call'[s] = call[s]
  BY <1>3, <1>5, Typed
<1>8. Read(call'[t])
  BY <1>1, <1>2, <1>4, <1>5, <1>6, <1>7 DEF Read, CallStates
<1> QED
  BY <1>1, <1>5, <1>6, <1>7, <1>8, CallStep

\* The event is built, or rejected.
LEMMA BuildStep ==
  ASSUME IInv, NEW t \in Threads, Build(t) PROVE IInv'
<1>1. call[t].pc = "build" /\ TypeOK /\ rejected \in Nat /\ calls \in Nat
  BY DEF Build, At, IInv, TypeOK
<1>2. /\ UNCHANGED <<user, session, now, minted, visitors, closed, resets, recorded, calls>>
      /\ \/ Goes(t, "admit") /\ rejected' = rejected
         \/ Returns(t) /\ rejected' = rejected + 1
  <2>1. UNCHANGED <<user, session, now, minted, visitors, closed, resets, recorded, calls>>
    BY DEF Build, identity, ids
  <2>2. PICK input \in Inputs :
          IF EventAccepted(input, Today)
            THEN Goes(t, "admit") /\ UNCHANGED rejected
            ELSE Returns(t) /\ rejected' = rejected + 1
    BY Zenon DEF Build
  <2> QED
    BY <2>1, <2>2, Zenon
<1>3. Read(call[t])
  BY DEF IInv, ReadInOrder, Read
<1>4. /\ call' \in [Threads -> CallStates]
      /\ \A s \in Threads \ {t} : call'[s] = call[s]
      /\ call'[t].pc \in {"admit", "idle"} /\ Read(call'[t]) /\ rejected' \in Nat
  <2>1. CASE Goes(t, "admit") /\ rejected' = rejected
    BY <1>1, <1>3, <2>1, GoesFacts DEF Places, Read
  <2>2. CASE Returns(t) /\ rejected' = rejected + 1
    BY <1>1, <2>2, ReturnsFacts DEF Read
  <2> QED
    BY <1>2, <2>1, <2>2
<1> QED
  BY <1>1, <1>2, <1>4, CallStep

\* The event is added, unless the client is closed.
LEMMA AdmitStep ==
  ASSUME IInv, NEW t \in Threads, Admit(t) PROVE IInv'
<1>1. call[t].pc = "admit" /\ TypeOK /\ rejected \in Nat /\ calls \in Nat
  BY DEF Admit, At, IInv, TypeOK
<1>2. /\ UNCHANGED <<user, session, now, minted, visitors, closed, resets, rejected, calls>>
      /\ recorded' \subseteq recorded \cup {Event(t)} /\ Returns(t)
  BY DEF Admit, identity, ids
<1>3. /\ call' \in [Threads -> CallStates] /\ call'[t].pc = "idle"
      /\ \A s \in Threads \ {t} : call'[s] = call[s]
  BY <1>1, <1>2, ReturnsFacts
<1>4. /\ Event(t) \in [session : Nat, visitor : Nat, user : UserIds]
      /\ Event(t).user.id # None => Event(t).user.since + 1 >= Event(t).visitor
  BY <1>1, Typed DEF Event, CallStates, IInv, ReadInOrder, Read
<1> QED
  BY <1>1, <1>2, <1>3, <1>4, CallStep DEF Read

\* identify() gives the user.
LEMMA SetUserStep ==
  ASSUME IInv, NEW t \in Threads, SetUser(t) PROVE IInv'
<1> USE DEF IInv
<1>1. Goes(t, "set_session") /\ call[t].pc = "set_user" /\ TypeOK
  BY DEF SetUser, At
<1>2. /\ call' \in [Threads -> CallStates] /\ call'[t].pc = "set_session"
      /\ \A s \in Threads \ {t} : call'[s] = call[s]
  BY <1>1, GoesFacts DEF Places
<1>3. /\ UNCHANGED <<session, now, minted, visitors, closed, rejected, recorded, calls, resets>>
      /\ user' = [id |-> call[t].user, since |-> resets]
  BY DEF SetUser, ids
<1>4. call[t].user \in Users /\ resets \in Nat
  BY <1>1, Typed DEF CallStates, ReadInOrder, Read, TypeOK
<1>5. user' \in UserIds /\ UserCurrent'
  BY <1>3, <1>4 DEF UserIds, UserCurrent
<1>6. TypeOK'
  BY <1>2, <1>3, <1>5 DEF TypeOK, UserIds, CallStates, Places, Ops
<1>7. Resetting' = Resetting
  BY <1>1, <1>2, ResettingFacts
<1>8. VisitorsCounted' /\ Minted' /\ ForgottenUserStaysForgotten'
  BY <1>3, <1>7 DEF VisitorsCounted, Minted, ForgottenUserStaysForgotten
<1>9. ReadInOrder'
  BY <1>2, <1>3 DEF ReadInOrder, Read
<1> QED
  BY <1>5, <1>6, <1>8, <1>9

\* reset() forgets the user; its new visitor is still to come.
LEMMA ForgetUserStep ==
  ASSUME IInv, NEW t \in Threads, ForgetUser(t) PROVE IInv'
<1> USE DEF IInv
<1>1. Goes(t, "new_session") /\ call[t].pc = "forget" /\ TypeOK
  BY DEF ForgetUser, At
<1>2. /\ call' \in [Threads -> CallStates] /\ call'[t].pc = "new_session"
      /\ \A s \in Threads \ {t} : call'[s] = call[s]
  BY <1>1, GoesFacts DEF Places
<1>3. /\ UNCHANGED <<session, now, minted, visitors, closed, rejected, recorded, calls>>
      /\ user' = NoUser /\ resets' = resets + 1 /\ resets \in Nat /\ visitors \in Nat
  BY DEF ForgetUser, ids, TypeOK
<1>4. TypeOK'
  BY <1>2, <1>3 DEF TypeOK, UserIds, CallStates, Places, Ops
<1>5. /\ Cardinality(Resetting') = Cardinality(Resetting) + 1
      /\ Cardinality(Resetting) \in Nat
  BY <1>1, <1>2, ResettingFacts
<1>6. UserCurrent' /\ VisitorsCounted' /\ Minted' /\ ForgottenUserStaysForgotten'
  BY <1>3, <1>5 DEF NoUser, UserCurrent, VisitorsCounted, Minted,
                    ForgottenUserStaysForgotten
<1>7. ReadInOrder'
  <2>1. \A s \in Threads \ {t} : call[s].visitor \in Nat /\ Read(call[s])
    BY Typed DEF CallStates, ReadInOrder
  <2> QED
    BY <1>2, <1>3, <2>1 DEF ReadInOrder, Read
<1> QED
  BY <1>4, <1>6, <1>7

\* The new visitor of a reset.
LEMMA NewSessionStep ==
  ASSUME IInv, NEW t \in Threads, NewSession(t) PROVE IInv'
<1> USE DEF IInv
<1>1. Returns(t) /\ call[t].pc = "new_session" /\ TypeOK
  BY DEF NewSession, At
<1>2. /\ call' \in [Threads -> CallStates] /\ call'[t].pc = "idle"
      /\ \A s \in Threads \ {t} : call'[s] = call[s]
  BY <1>1, ReturnsFacts
<1>3. /\ UNCHANGED <<user, now, closed, rejected, recorded, calls, resets>>
      /\ session' = [id |-> minted + 1, visitor |-> visitors + 1, user |-> None, last |-> now]
      /\ minted' = minted + 1 /\ visitors' = visitors + 1
      /\ minted \in Nat /\ visitors \in Nat /\ now \in Nat /\ resets \in Nat
  BY DEF NewSession, TypeOK
<1>4. TypeOK'
  <2>1. session' \in Sessions
    BY <1>3 DEF Sessions
  <2> QED
    BY <1>2, <1>3, <2>1 DEF TypeOK, UserIds, Sessions, CallStates, Places, Ops
<1>5. /\ Cardinality(Resetting') = Cardinality(Resetting) - 1
      /\ Cardinality(Resetting) \in Nat
  BY <1>1, <1>2, ResettingFacts
<1>6. UserCurrent' /\ VisitorsCounted' /\ Minted' /\ ForgottenUserStaysForgotten'
  BY <1>3, <1>5 DEF UserCurrent, VisitorsCounted, Minted, ForgottenUserStaysForgotten
<1>7. ReadInOrder'
  BY <1>2, <1>3 DEF ReadInOrder, Read
<1> QED
  BY <1>4, <1>6, <1>7

\* Closing the client and the clock disturb nothing of it.
LEMMA OtherSteps ==
  ASSUME IInv, Shutdown \/ Tick \/ UNCHANGED vars PROVE IInv'
<1>1. /\ UNCHANGED <<user, session, minted, visitors, rejected, recorded, call, calls, resets>>
      /\ closed' \in BOOLEAN /\ now' \in Nat
  <2>1. closed \in BOOLEAN /\ now \in Nat
    BY DEF IInv, TypeOK
  <2>2. CASE Shutdown
    BY <2>1, <2>2 DEF Shutdown, identity, ids
  <2>3. CASE Tick
    BY <2>1, <2>3 DEF Tick, identity, ids
  <2>4. CASE UNCHANGED vars
    BY <2>1, <2>4 DEF vars, identity, ids
  <2> QED
    BY <2>2, <2>3, <2>4
<1>2. TypeOK'
  BY <1>1 DEF IInv, TypeOK, UserIds
<1>3. Resetting' = Resetting
  BY <1>1 DEF Resetting
<1>4. UserCurrent' /\ VisitorsCounted' /\ Minted' /\ ForgottenUserStaysForgotten'
  BY <1>1, <1>3 DEF IInv, UserCurrent, VisitorsCounted, Minted,
                    ForgottenUserStaysForgotten
<1>5. ReadInOrder'
  BY <1>1 DEF IInv, ReadInOrder, Read
<1> QED
  BY <1>2, <1>4, <1>5 DEF IInv

-----------------------------------------------------------------------------
\* The invariant holds in every reachable state.
LEMMA Inductive == Spec => []IInv
<1>1. Init => IInv
  <2> SUFFICES ASSUME Init PROVE IInv
    OBVIOUS
  <2>1. NoCall \in CallStates /\ NoCall.pc = "idle" /\ NoUser \in UserIds /\ NoUser.id = None
    BY DEF NoCall, NoUser, CallStates, Ops, Places, UserIds
  <2>2. TypeOK
    BY <2>1 DEF Init, SessionInit, TypeOK, CallStates, Ops, Places
  <2>3. Resetting = {}
    BY <2>1 DEF Init, Resetting
  <2>4. Cardinality(Resetting) = 0
    BY <2>3, FS_EmptySet
  <2>5. UserCurrent /\ VisitorsCounted /\ Minted /\ ForgottenUserStaysForgotten
    BY <2>1, <2>4 DEF Init, SessionInit, UserCurrent, VisitorsCounted, Minted,
                      ForgottenUserStaysForgotten
  <2>6. ReadInOrder
    BY <2>1 DEF Init, ReadInOrder, Read
  <2> QED
    BY <2>2, <2>5, <2>6 DEF IInv
<1>2. IInv /\ [Next]_vars => IInv'
  <2> SUFFICES ASSUME IInv, [Next]_vars PROVE IInv'
    OBVIOUS
  <2>1. CASE \E t \in Threads, op \in {"track", "identify", "reset"}, u \in Users \cup {None} :
               Called(t, op, u)
    BY <2>1, CalledStep
  <2>2. CASE \E t \in Threads :
               SetUser(t) \/ SetSessionUser(t) \/ ForgetUser(t) \/ NewSession(t)
    BY <2>2, SetUserStep, SetSessionUserStep, ForgetUserStep, NewSessionStep
  <2>3. CASE \E t \in Threads : Record(t)
    BY <2>3, TouchStep, GetSessionStep, ReadUserStep, BuildStep, AdmitStep DEF Record
  <2>4. CASE Shutdown \/ Tick \/ UNCHANGED vars
    BY <2>4, OtherSteps
  <2> QED
    BY <2>1, <2>2, <2>3, <2>4 DEF Next
<1> QED
  BY <1>1, <1>2, PTL DEF Spec

\* The identity, the session and the calls in progress are typed in every
\* reachable state (client.py:104-109, session.py:13-19).
THEOREM EventsTypeCorrect == Spec => []TypeOK
<1>1. IInv => TypeOK
  BY DEF IInv
<1> QED
  BY <1>1, Inductive, PTL

\* Whatever number of threads track, identify and reset at the same time, no
\* event joins a new anonymous id to a user forgotten before it was minted
\* (client.py:219-223, 269-273).
THEOREM ForgottenStaysForgotten == Spec => []ForgottenUserStaysForgotten
<1>1. IInv => ForgottenUserStaysForgotten
  BY DEF IInv
<1> QED
  BY <1>1, Inductive, PTL

-----------------------------------------------------------------------------
(* When the session changes.                                               *)

\* The rules of the session, for one step.
RotatesWhenIdle ==
  session'.id # session.id =>
    \/ \E t \in Threads : At(t, "new_session")
    \/ session'.visitor = session.visitor /\ now - session.last > Timeout
VisitorKept ==
  session'.visitor # session.visitor => session'.id # session.id
IdleRotates ==
  session'.id = session.id /\ session' # session /\ now - session.last > Timeout
    => \E t \in Threads : At(t, "set_session") /\ call'[t].pc = "touch"
Rotates == VisitorKept /\ RotatesWhenIdle /\ IdleRotates

LEMMA SessionStays ==
  ASSUME session' = session PROVE Rotates
  BY DEF Rotates, VisitorKept, RotatesWhenIdle, IdleRotates

LEMMA TouchRotates ==
  ASSUME IInv, NEW t \in Threads, Touch(t) PROVE Rotates
<1>1. session \in Sessions /\ now \in Nat /\ Timeout \in Nat
  BY Typed, EventsAssumption DEF IInv, TypeOK
<1>2. CASE Expired
  <2>1. session'.id = minted + 1 /\ session'.visitor = session.visitor
    BY <1>2 DEF Touch, SameVisitor
  <2>2. now - session.last > Timeout
    BY <1>2 DEF Expired
  <2>3. minted + 1 # session.id
    BY <1>1 DEF IInv, Minted, TypeOK
  <2> QED
    BY <2>1, <2>2, <2>3 DEF Rotates, VisitorKept, RotatesWhenIdle, IdleRotates
<1>3. CASE ~Expired
  <2>1. session' = [session EXCEPT !.last = now']
    BY <1>3 DEF Touch
  <2>2. session'.id = session.id /\ session'.visitor = session.visitor
    BY <1>1, <2>1 DEF Sessions
  <2>3. ~(now - session.last > Timeout)
    BY <1>3 DEF Expired
  <2> QED
    BY <2>2, <2>3 DEF Rotates, VisitorKept, RotatesWhenIdle, IdleRotates
<1> QED
  BY <1>2, <1>3

LEMMA NewSessionRotates ==
  ASSUME IInv, NEW t \in Threads, NewSession(t) PROVE Rotates
<1>1. session'.id = minted + 1 /\ session'.visitor = visitors + 1 /\ At(t, "new_session")
  BY DEF NewSession
<1>2. minted + 1 # session.id /\ visitors + 1 # session.visitor
  BY DEF IInv, Minted, TypeOK
<1> QED
  BY <1>1, <1>2 DEF Rotates, VisitorKept, RotatesWhenIdle, IdleRotates

LEMMA SetSessionUserRotates ==
  ASSUME IInv, NEW t \in Threads, SetSessionUser(t) PROVE Rotates
<1>1. session \in Sessions /\ call[t] \in CallStates /\ TypeOK
  BY Typed DEF IInv
<1>2. session' = [session EXCEPT !.user = call[t].user, !.last = now] /\ Goes(t, "touch")
      /\ At(t, "set_session")
  BY DEF SetSessionUser
<1>3. session'.id = session.id /\ session'.visitor = session.visitor
  BY <1>1, <1>2 DEF Sessions
<1>4. call'[t].pc = "touch"
  BY <1>1, <1>2, GoesFacts DEF Places
<1> QED
  BY <1>2, <1>3, <1>4 DEF Rotates, VisitorKept, RotatesWhenIdle, IdleRotates

\* A session is replaced by reset(), or by a touch() that finds it idle for longer
\* than the timeout, and then keeps its visitor; a touch() that finds it idle for so
\* long never carries it on, while identify() may: for any timeout, any clock that
\* moves on between its two readings and any number of threads (session.py:36-64).
THEOREM SessionsRotate == Spec => SessionRotation
<1>1. ASSUME IInv, Next PROVE Rotates
  <2>1. CASE session' = session
    BY <2>1, SessionStays
  <2>2. CASE \E t \in Threads : Touch(t) \/ NewSession(t) \/ SetSessionUser(t)
    BY <1>1, <2>2, TouchRotates, NewSessionRotates, SetSessionUserRotates
  <2> QED
    BY <1>1, <2>1, <2>2 DEF Next, Called, SetUser, ForgetUser, Record, GetSession, ReadUser,
                            Build, Admit, Shutdown, Tick, identity
<1>2. IInv /\ [Next]_vars => [Rotates]_vars
  BY <1>1
<1>3. Rotates =>
        /\ session'.id # session.id =>
             \/ \E t \in Threads : At(t, "new_session")
             \/ session'.visitor = session.visitor /\ now - session.last > Timeout
        /\ session'.visitor # session.visitor => session'.id # session.id
        /\ session'.id = session.id /\ session' # session /\ now - session.last > Timeout
             => \E t \in Threads : At(t, "set_session") /\ call'[t].pc = "touch"
  BY DEF Rotates, VisitorKept, RotatesWhenIdle, IdleRotates
<1> HIDE DEF Rotates
<1> QED
  BY <1>2, <1>3, Inductive, PTL DEF Spec, SessionRotation

-----------------------------------------------------------------------------
(* The rules accept what they should, whatever the input.                  *)

\* A payload is the record of its fields.
LEMMA PayloadFields ==
  ASSUME NEW p \in Payloads
  PROVE  p = [version |-> p.version, kind |-> p.kind, factId |-> p.factId,
              currency |-> p.currency, amount |-> p.amount, customer |-> p.customer,
              subscription |-> p.subscription, mrr |-> p.mrr, expected |-> p.expected]
  BY InputsAssumption

\* What the constructors build.
LEMMA Constructors ==
  ASSUME NEW p \in Payloads
  PROVE  /\ p = Transaction(p.factId, p.amount, p.currency, p.customer)
              <=> /\ p.version = 1 /\ p.kind = "transaction"
                  /\ p.subscription = None /\ p.mrr = None /\ p.expected = None
         /\ p = MrrSnapshot(p.factId, p.subscription, p.customer, p.mrr, p.currency)
              <=> /\ p.version = 1 /\ p.kind = "mrr_snapshot"
                  /\ p.amount = None /\ p.expected = None
         /\ p = MrrBaselineComplete(p.factId, p.currency, p.expected)
              <=> /\ p.version = 1 /\ p.kind = "mrr_baseline_complete"
                  /\ p.amount = None /\ p.mrr = None
                  /\ p.subscription = None /\ p.customer = None
  BY PayloadFields DEF Transaction, MrrSnapshot, MrrBaselineComplete, RevenuePayload

\* The revenue facts accepted are those the constructors build.
LEMMA RevenueRules ==
  ASSUME NEW p \in Payloads
  PROVE  /\ RevenueAccepted(p) <=>
              /\ Name(p.factId) /\ p.factId.length <= MaxFactId
              /\ p.currency # None /\ p.currency.form = "code"
              /\ \/ /\ Amount(p.amount)
                    /\ p = Transaction(p.factId, p.amount, p.currency, p.customer)
                 \/ /\ Name(p.subscription) /\ Name(p.customer)
                    /\ Amount(p.mrr) /\ ~p.mrr.negative
                    /\ p = MrrSnapshot(p.factId, p.subscription, p.customer, p.mrr, p.currency)
                 \/ /\ p.expected # None /\ p.expected.form = "int" /\ p.expected.value >= 0
                    /\ p = MrrBaselineComplete(p.factId, p.currency, p.expected)
         /\ RevenueAccepted(p) =>
              {"currency"} \cup Required(p.kind) \subseteq RevenueKeys(p)
<1>1. CASE p.kind = "transaction"
  <2>1. Foreign(p.kind) = {"subscription", "mrr", "expected"} /\ Required(p.kind) = {"amount"}
    BY <1>1 DEF Foreign, Required
  <2> QED
    BY <1>1, <2>1, Constructors
    DEF RevenueAccepted, Kinds, Blank, Decimal, NonNegativeInt, Name, Amount, RevenueKeys, KindFields
<1>2. CASE p.kind = "mrr_snapshot"
  <2>1. /\ Foreign(p.kind) = {"amount", "expected"}
        /\ Required(p.kind) = {"subscription", "customer", "mrr"}
    BY <1>2 DEF Foreign, Required
  <2> QED
    BY <1>2, <2>1, Constructors
    DEF RevenueAccepted, Kinds, Blank, Decimal, NonNegativeInt, Name, Amount, RevenueKeys, KindFields
<1>3. CASE p.kind = "mrr_baseline_complete"
  <2>1. /\ Foreign(p.kind) = {"amount", "mrr", "subscription", "customer"}
        /\ Required(p.kind) = {"expected"}
    BY <1>3 DEF Foreign, Required
  <2> QED
    BY <1>3, <2>1, Constructors
    DEF RevenueAccepted, Kinds, Blank, Decimal, NonNegativeInt, Name, Amount, RevenueKeys, KindFields
<1>4. CASE p.kind \notin Kinds
  BY <1>4, Constructors DEF RevenueAccepted, Kinds
<1> QED
  BY <1>1, <1>2, <1>3, <1>4 DEF Kinds

\* The properties that are sent, and the event they are sent in.
SentKeys(e) == {k \in DOMAIN e.properties : e.properties[k].value # None}

LEMMA WireEventIs ==
  ASSUME NEW e \in Events
  PROVE  LET w == WireEvent(e) IN
           /\ DOMAIN w.properties = SentKeys(e)
           /\ \A k \in SentKeys(e) : w.properties[k] = e.properties[k]
           /\ w.nameBlank = e.nameBlank /\ w.userBlank = e.userBlank
           /\ w.anonymousBlank = e.anonymousBlank /\ w.timestamp = e.timestamp
           /\ w.nameBytes = e.nameBytes /\ w.userBytes = e.userBytes
           /\ w.anonymousBytes = e.anonymousBytes
<1>1. WireEvent(e) = [e EXCEPT !.properties = SerializeProperties(e.properties)]
  BY DEF WireEvent
<1>2. e = [nameBlank |-> e.nameBlank, nameBytes |-> e.nameBytes, userBlank |-> e.userBlank,
           userBytes |-> e.userBytes, anonymousBlank |-> e.anonymousBlank,
           anonymousBytes |-> e.anonymousBytes, timestamp |-> e.timestamp,
           properties |-> e.properties]
  BY InputsAssumption
<1>3. SerializeProperties(e.properties) = [k \in SentKeys(e) |-> e.properties[k]]
  BY DEF SerializeProperties, Restrict, SentKeys
<1> QED
  BY <1>1, <1>2, <1>3

\* What is sent passes the second check if the caller's properties pass the first.
LEMMA SentSerializable ==
  ASSUME NEW e \in Events, Serializable(e.properties)
  PROVE  Serializable(WireEvent(e).properties)
<1>1. IsFiniteSet(DOMAIN e.properties) /\ SentKeys(e) \subseteq DOMAIN e.properties
  BY InputsAssumption DEF SentKeys
<1>2. /\ Cardinality(SentKeys(e)) <= Cardinality(DOMAIN e.properties)
      /\ Cardinality(SentKeys(e)) \in Nat /\ Cardinality(DOMAIN e.properties) \in Nat
  BY <1>1, FS_Subset, FS_CardinalityType
<1>3. Cardinality(SentKeys(e)) <= MaxProperties
  BY <1>2, RulesAssumption DEF Serializable
<1> QED
  BY <1>1, <1>3, WireEventIs DEF Serializable

\* The size of an event is that of what is sent.
LEMMA SizeOfWire ==
  ASSUME NEW e \in Events
  PROVE  EstimatedSize(WireEvent(e)) =
           e.userBytes + e.anonymousBytes + e.nameBytes + Overhead
             + SumFunction([k \in SentKeys(e) |->
                  e.properties[k].keyBytes + e.properties[k].valueBytes])
<1> DEFINE w == WireEvent(e)
<1>1. [k \in DOMAIN w.properties |-> w.properties[k].keyBytes + w.properties[k].valueBytes]
        = [k \in SentKeys(e) |-> e.properties[k].keyBytes + e.properties[k].valueBytes]
  BY WireEventIs
<1> QED
  BY <1>1, WireEventIs DEF EstimatedSize

\* The events accepted are those within the documented limits.
LEMMA LimitRules == LimitsExact
<1> SUFFICES ASSUME NEW e \in Events
             PROVE  /\ EventAccepted(e, Today) <=>
                         /\ ~e.nameBlank /\ ~(e.userBlank /\ e.anonymousBlank)
                         /\ e.timestamp.form = "int"
                         /\ e.timestamp.value \in MinEpoch .. Today
                         /\ Today - e.timestamp.value <= MaxAge
                         /\ Cardinality(DOMAIN e.properties) <= MaxProperties
                         /\ \A k \in DOMAIN e.properties : e.properties[k].key <= MaxKey
                         /\ \A k \in SentKeys(e) : e.properties[k].value <= MaxValue
                         /\ e.userBytes + e.anonymousBytes + e.nameBytes + Overhead
                              + SumFunction([k \in SentKeys(e) |->
                                   e.properties[k].keyBytes + e.properties[k].valueBytes])
                              <= MaxSize
                    /\ EventAccepted(e, Today) => DOMAIN WireEvent(e).properties = SentKeys(e)
  BY DEF LimitsExact, SentKeys
<1>1. Serializable(e.properties) <=>
        /\ Cardinality(DOMAIN e.properties) <= MaxProperties
        /\ \A k \in DOMAIN e.properties : e.properties[k].key <= MaxKey
        /\ \A k \in SentKeys(e) : e.properties[k].value <= MaxValue
  BY DEF Serializable, SentKeys
<1>2. TimestampAccepted(e.timestamp, Today) <=>
        /\ e.timestamp.form = "int"
        /\ e.timestamp.value \in MinEpoch .. Today
        /\ Today - e.timestamp.value <= MaxAge
  <2>1. e.timestamp.value \in Int /\ {MinEpoch, MaxAge, Today} \subseteq Nat
    BY InputsAssumption, RulesAssumption, EventsAssumption DEF Numbers
  <2> QED
    BY <2>1 DEF TimestampAccepted
<1>3. EventAccepted(e, Today) <=>
        /\ Serializable(e.properties)
        /\ ~e.nameBlank /\ ~(e.userBlank /\ e.anonymousBlank)
        /\ TimestampAccepted(e.timestamp, Today)
        /\ EstimatedSize(WireEvent(e)) <= MaxSize
  BY WireEventIs, SentSerializable DEF EventAccepted, EventValid
<1> QED
  BY <1>1, <1>2, <1>3, SizeOfWire, WireEventIs

\* A configuration accepted is one the other modules assume.
LEMMA ConfigRules == ConfigSound
<1> SUFFICES ASSUME NEW c \in Configs, ConfigAccepted(c)
             PROVE  /\ c.apiKey.form # "blank" /\ c.endpoint.length > 0
                    /\ {c.flushSize.value, c.maxQueueSize.value} \subseteq Nat \ {0}
                    /\ c.flushSize.value \in 1 .. c.maxQueueSize.value
                    /\ c.maxRetries.form = "int" /\ c.maxRetries.value \in Nat
                    /\ \A f \in {"requestTimeout", "retryBackoffBase", "sessionTimeout"} :
                         c[f].form \in {"int", "float"} /\ c[f].value > 0
                    /\ c.flushInterval = None \/ c.flushInterval.form \in {"nan", "inf"}
                         \/ c.flushInterval.value > 0
  BY DEF ConfigSound
<1>1. {c.flushSize.value, c.maxQueueSize.value, c.maxRetries.value} \subseteq Int
  BY InputsAssumption DEF Numbers
<1>2. /\ c.flushSize.value >= 1 /\ c.maxQueueSize.value >= 1
      /\ c.flushSize.value <= c.maxQueueSize.value
      /\ c.maxRetries.form = "int" /\ c.maxRetries.value >= 0
  BY DEF ConfigAccepted, PositiveInt, FlushSizeFits, NonNegativeInt
<1>3. /\ c.apiKey.form # "blank" /\ c.endpoint.length > 0
      /\ \A f \in {"requestTimeout", "retryBackoffBase", "sessionTimeout"} :
           c[f].form \in {"int", "float"} /\ c[f].value > 0
      /\ c.flushInterval = None \/ c.flushInterval.form \in {"nan", "inf"}
           \/ c.flushInterval.value > 0
  BY DEF ConfigAccepted, Blank, PositiveNumber, IntervalAccepted
<1> QED
  BY <1>1, <1>2, <1>3

\* A revenue fact is accepted if and only if a constructor builds it, an event if
\* and only if it is within the documented limits, and a configuration only if it
\* meets the assumptions of the other modules: for any sets of inputs and any
\* limits (types.py:149-211; utils.py:104-161; config.py:33-52).
THEOREM RulesAreExact == Spec => []RulesExact
<1>1. RulesExact
  BY RevenueRules, LimitRules, ConfigRules DEF RulesExact, RevenueExact
<1> QED
  BY <1>1, PTL
=============================================================================
