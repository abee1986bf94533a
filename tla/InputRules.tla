----------------------------- MODULE InputRules -----------------------------
(***************************************************************************)
(* What the SDK accepts from its caller: revenue payloads (types.py), the  *)
(* ingestion limits of an event (utils.py) and the configuration           *)
(* (config.py).  A text is reduced to what the rules look at: whether it   *)
(* is blank, its lengths, its shape.  The numbers of utils.py:24-35 and    *)
(* types.py:16-18 are CONSTANTS, so that small inputs reach both sides of  *)
(* every limit.  A constructor that raises is FALSE here.                  *)
(***************************************************************************)
EXTENDS Integers, FiniteSets, Functions

CONSTANTS
  None,
  MaxFactId, MaxFraction, MaxPrecision,               \* types.py:16-18
  MaxProperties, MaxKey, MaxValue, MaxSize, Overhead, \* utils.py:24-30
  MinEpoch, MaxAge                                    \* utils.py:33-35

ASSUME RulesAssumption ==
  {MaxFactId, MaxFraction, MaxPrecision, MaxProperties, MaxKey, MaxValue,
   MaxSize, Overhead, MinEpoch, MaxAge} \subseteq Nat

-----------------------------------------------------------------------------
(* RevenuePayload.  "decimal" and "code" are the texts _DECIMAL_RE and     *)
(* _CURRENCY_RE match; `$` lets both end in a line break.                  *)

Kinds == {"transaction", "mrr_snapshot", "mrr_baseline_complete"}
KindFields == {"amount", "customer", "subscription", "mrr", "expected"}

RevenuePayload(kind, factId, currency, amount, customer, subscription, mrr, expected) ==
  [version |-> 1, kind |-> kind, factId |-> factId, currency |-> currency, amount |-> amount,
   customer |-> customer, subscription |-> subscription, mrr |-> mrr, expected |-> expected]

Transaction(factId, amount, currency, customer) ==
  RevenuePayload("transaction", factId, currency, amount, customer, None, None, None)
MrrSnapshot(factId, subscription, customer, mrr, currency) ==
  RevenuePayload("mrr_snapshot", factId, currency, None, customer, subscription, mrr, None)
MrrBaselineComplete(factId, currency, expected) ==
  RevenuePayload("mrr_baseline_complete", factId, currency, None, None, None, None, expected)

Required(kind) ==
  IF kind = "transaction" THEN {"amount"}
  ELSE IF kind = "mrr_snapshot" THEN {"subscription", "customer", "mrr"}
  ELSE {"expected"}

ForeignForgotten(kind) == \* mutant
  IF kind = "transaction" THEN {"subscription", "mrr"}
  ELSE IF kind = "mrr_snapshot" THEN {"amount", "expected"}
  ELSE {"amount", "mrr", "subscription", "customer"}

\* _reject_foreign_fields, of each kind.
Foreign(kind) ==
  IF kind = "transaction" THEN {"subscription", "mrr", "expected"}
  ELSE IF kind = "mrr_snapshot" THEN {"amount", "expected"}
  ELSE {"amount", "mrr", "subscription", "customer"}

Blank(v) == v.form = "blank"

\* _validate_decimal
Decimal(v) == v.form = "decimal" /\ v.fraction <= MaxFraction /\ v.precision <= MaxPrecision

\* isinstance(True, int) holds in Python: a bool is excluded by name.
NonNegativeInt(v) == v.form = "int" /\ v.value >= 0

RevenueAccepted(p) ==
  LET value == IF p.kind = "transaction" THEN p.amount ELSE p.mrr IN
  /\ p.version = 1 /\ p.kind \in Kinds
  /\ p.factId # None /\ ~Blank(p.factId) /\ p.factId.length <= MaxFactId
  /\ p.currency # None /\ p.currency.form = "code"
  /\ \A f \in Foreign(p.kind) : p[f] = None
  /\ \A f \in Required(p.kind) : p[f] # None /\ ~Blank(p[f])
  /\ value # None => Decimal(value) /\ (p.kind = "mrr_snapshot" => ~value.negative)
  /\ p.expected # None => NonNegativeInt(p.expected)

\* The keys to_dict puts on the wire.
RevenueKeys(p) ==
  {"version", "kind", "factId"}
    \cup {f \in KindFields \cup {"currency"} : p[f] # None}

-----------------------------------------------------------------------------
(* Properties and events.  The properties are a function from keys to the  *)
(* lengths [key, keyBytes, value, valueBytes], value None for a property   *)
(* that is None in Python.                                                 *)

Serializable(props) ==
  /\ Cardinality(DOMAIN props) <= MaxProperties
  /\ \A k \in DOMAIN props :
       /\ props[k].key <= MaxKey
       /\ props[k].value # None => props[k].value <= MaxValue

\* serialize_properties of a serializable mapping drops what is None.
SerializeProperties(props) == Restrict(props, {k \in DOMAIN props : props[k].value # None})

TimestampAccepted(timestamp, now) ==
  /\ timestamp.form = "int"
  /\ MinEpoch <= timestamp.value
  /\ now - MaxAge <= timestamp.value /\ timestamp.value <= now

EstimatedSize(e) ==
  e.userBytes + e.anonymousBytes + e.nameBytes + Overhead
    + SumFunction([k \in DOMAIN e.properties |->
                     e.properties[k].keyBytes + e.properties[k].valueBytes])

CharactersCounted(e, now) == \* mutant
  /\ ~e.nameBlank /\ (~e.userBlank \/ ~e.anonymousBlank)
  /\ TimestampAccepted(e.timestamp, now)
  /\ e.userBytes + e.anonymousBytes + e.nameBytes + Overhead
       + SumFunction([k \in DOMAIN e.properties |->
                        e.properties[k].key + e.properties[k].value]) <= MaxSize

\* validate_event of an event as built: it checks the properties again, as
\* serialized, and estimates the size in bytes, not in characters.
EventValid(e, now) ==
  /\ ~e.nameBlank
  /\ ~e.userBlank \/ ~e.anonymousBlank
  /\ TimestampAccepted(e.timestamp, now)
  /\ Serializable(e.properties)
  /\ EstimatedSize(e) <= MaxSize

\* What _enqueue builds of the caller's input, if it does not raise.
WireEvent(e) == [e EXCEPT !.properties = SerializeProperties(@)]
EventAccepted(e, now) == Serializable(e.properties) /\ EventValid(WireEvent(e), now)

-----------------------------------------------------------------------------
(* AlitycsConfig                                                           *)

PositiveInt(v) == v.form = "int" /\ v.value >= 1
PositiveNumber(v) == v.form \in {"int", "float"} /\ v.value > 0

\* `interval <= 0` is the only test of flush_interval: NaN and infinity pass.
IntervalAccepted(v) == v = None \/ v.form \in {"nan", "inf"} \/ v.value > 0

FlushSizeAlone(c) == TRUE \* mutant
FlushSizeFits(c) == c.flushSize.value <= c.maxQueueSize.value

ConfigAccepted(c) ==
  /\ ~Blank(c.apiKey) /\ c.endpoint.length > 0
  /\ PositiveInt(c.flushSize) /\ PositiveInt(c.maxQueueSize)
  /\ FlushSizeFits(c)
  /\ NonNegativeInt(c.maxRetries)
  /\ IntervalAccepted(c.flushInterval)
  /\ PositiveNumber(c.requestTimeout) /\ PositiveNumber(c.retryBackoffBase)
  /\ PositiveNumber(c.sessionTimeout)
  /\ c.persistencePath = None \/ ~Blank(c.persistencePath)
=============================================================================
