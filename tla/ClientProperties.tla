-------------------------- MODULE ClientProperties --------------------------
(***************************************************************************)
(* What must hold of ClientEvents and of the rules it applies.  The sets   *)
(* of inputs the rules are compared on are constants.                      *)
(***************************************************************************)
EXTENDS ClientEvents

CONSTANTS Payloads, Events, Configs

\* The inputs as InputRules sees them.
Optional(S) == S \cup {None}
Texts == [form : STRING, length : Nat]
Numbers == [form : STRING, value : Int]
Fractions == [form : STRING, negative : BOOLEAN, precision : Nat, fraction : Nat]
Properties == [key : Nat, keyBytes : Nat, value : Optional(Nat), valueBytes : Nat]

ASSUME InputsAssumption ==
  /\ Payloads \subseteq
       [version : Int, kind : STRING, factId : Optional(Texts), currency : Optional(Texts),
        amount : Optional(Fractions), customer : Optional(Texts), subscription : Optional(Texts),
        mrr : Optional(Fractions), expected : Optional(Numbers)]
  /\ \A e \in Events :
       /\ e \in [nameBlank : BOOLEAN, nameBytes : Nat, userBlank : BOOLEAN, userBytes : Nat,
                 anonymousBlank : BOOLEAN, anonymousBytes : Nat, timestamp : Numbers,
                 properties : {e.properties}]
       /\ IsFiniteSet(DOMAIN e.properties)
       /\ e.properties \in [DOMAIN e.properties -> Properties]
  /\ Configs \subseteq
       [apiKey : Texts, endpoint : Texts, flushSize : Numbers, maxQueueSize : Numbers,
        maxRetries : Numbers, flushInterval : Optional(Numbers), requestTimeout : Numbers,
        retryBackoffBase : Numbers, sessionTimeout : Numbers, persistencePath : Optional(Texts)]

UserIds == {NoUser} \cup [id : Users, since : Nat]

\* The identity and the calls in progress are typed (client.py:101-110,
\* session.py:13-19).
TypeOK ==
  /\ user \in UserIds
  /\ session \in [id : Nat, visitor : Nat, user : Users \cup {None}, last : Nat]
  /\ now \in Nat /\ minted \in Nat /\ visitors \in Nat
  /\ closed \in BOOLEAN /\ rejected \in Nat /\ calls \in Nat /\ resets \in Nat
  /\ recorded \subseteq [session : Nat, visitor : Nat, user : UserIds]
  /\ call \in [Threads ->
       [op : {"none", "track", "identify", "reset"},
        pc : {"idle", "touch", "session", "identity", "build", "admit", "set_user",
              "set_session", "forget", "new_session"},
        user : Users \cup {None}, session : Nat, visitor : Nat, reads : UserIds]]

\* No event joins a new anonymous id to a user forgotten before it was minted,
\* although an event reads the session and the user in two sections and reset()
\* clears them in two: reset() clears the user first and _enqueue reads it last
\* (client.py:219-223, 269-273).  since + 1 numbers the visitor of the user.
ForgottenUserStaysForgotten ==
  \A e \in recorded : e.user.id # None => e.user.since + 1 >= e.visitor

\* A session is replaced by a touch() that finds it idle for longer than the timeout,
\* or by reset(), and by nothing else; the rotation keeps the visitor, and only
\* reset() changes it (session.py:36-48, 60-64).  A session found idle for so long is
\* not carried on, unless by identify(), which does not look (session.py:50-58).  What
\* counts is the first of the two times touch() reads: a session whose timeout passes
\* between them is refreshed (session.py:39, 46).
SessionRotation ==
  [][/\ session'.id # session.id =>
          \/ \E t \in Threads : At(t, "new_session")
          \/ session'.visitor = session.visitor /\ now - session.last > Timeout
     /\ session'.visitor # session.visitor => session'.id # session.id
     /\ session'.id = session.id /\ session' # session /\ now - session.last > Timeout
          => \E t \in Threads : At(t, "set_session") /\ call'[t].pc = "touch"]_vars

-----------------------------------------------------------------------------
(* The rules.  They do not depend on the state: comparing them once, in    *)
(* the initial state, is comparing them always.                            *)

AtStart == calls = 0 /\ now = 0 /\ ~closed

Amount(v) == v # None /\ v.form = "decimal" /\ v.fraction <= MaxFraction
                      /\ v.precision <= MaxPrecision
Name(v) == v # None /\ v.form # "blank"

\* A payload is accepted if and only if one of the three constructors builds it
\* from a filled fact id, a currency code and the valid amounts and ids of its
\* kind (types.py:107-147 against 149-211); its currency is on the wire.
RevenueExact ==
  AtStart => \A p \in Payloads :
    /\ RevenueAccepted(p) <=>
         /\ Name(p.factId) /\ p.factId.length <= MaxFactId
         /\ p.currency # None /\ p.currency.form = "code"
         /\ \/ /\ Amount(p.amount)
               /\ p = Transaction(p.factId, p.amount, p.currency, p.customer)
            \/ /\ Name(p.subscription) /\ Name(p.customer)
               /\ Amount(p.mrr) /\ ~p.mrr.negative
               /\ p = MrrSnapshot(p.factId, p.subscription, p.customer, p.mrr, p.currency)
            \/ /\ p.expected # None /\ p.expected.form = "int" /\ p.expected.value >= 0
               /\ p = MrrBaselineComplete(p.factId, p.currency, p.expected)
    /\ RevenueAccepted(p) =>
         {"currency"} \cup Required(p.kind) \subseteq RevenueKeys(p)

\* The two checks of an event, before and after its properties are serialized,
\* accept exactly what the table of README.md:95-102 allows; a property that is
\* None is counted, and its key measured, although it is not sent (utils.py:68-81).
LimitsExact ==
  AtStart => \A e \in Events :
    LET sent == {k \in DOMAIN e.properties : e.properties[k].value # None} IN
    /\ EventAccepted(e, Today) <=>
         /\ ~e.nameBlank /\ ~(e.userBlank /\ e.anonymousBlank)
         /\ e.timestamp.form = "int"
         /\ e.timestamp.value \in MinEpoch .. Today
         /\ Today - e.timestamp.value <= MaxAge
         /\ Cardinality(DOMAIN e.properties) <= MaxProperties
         /\ \A k \in DOMAIN e.properties : e.properties[k].key <= MaxKey
         /\ \A k \in sent : e.properties[k].value <= MaxValue
         /\ e.userBytes + e.anonymousBytes + e.nameBytes + Overhead
              + SumFunction([k \in sent |->
                   e.properties[k].keyBytes + e.properties[k].valueBytes]) <= MaxSize
    /\ EventAccepted(e, Today) => DOMAIN WireEvent(e).properties = sent

\* A configuration that is accepted meets the assumptions of the queue and the
\* transport: the size trigger lies within the queue (config.py:40-41), every
\* attempt and pause is positive and finite.  Of flush_interval only zero and
\* negative numbers are refused (config.py:44): NaN and infinity come through.
ConfigSound ==
  AtStart => \A c \in Configs : ConfigAccepted(c) =>
    /\ c.apiKey.form # "blank" /\ c.endpoint.length > 0
    /\ {c.flushSize.value, c.maxQueueSize.value} \subseteq Nat \ {0}
    /\ c.flushSize.value \in 1 .. c.maxQueueSize.value
    /\ c.maxRetries.form = "int" /\ c.maxRetries.value \in Nat
    /\ \A f \in {"requestTimeout", "retryBackoffBase", "sessionTimeout"} :
         c[f].form \in {"int", "float"} /\ c[f].value > 0
    /\ c.flushInterval = None \/ c.flushInterval.form \in {"nan", "inf"}
         \/ c.flushInterval.value > 0

\* The rules accept what they should: revenue facts, events and configurations.
RulesExact == RevenueExact /\ LimitsExact /\ ConfigSound
=============================================================================
