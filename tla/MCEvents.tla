------------------------------ MODULE MCEvents ------------------------------
(* ClientEvents with two threads, and inputs on both sides of every limit  *)
(* of InputRules, for TLC.                                                 *)
EXTENDS ClientProperties, TLC

CONSTANTS t1, t2, u1, u2

TwoThreads == {t1, t2}
TwoUsers == {u1, u2}
Symmetry == Permutations(TwoThreads) \cup Permutations(TwoUsers)

Text(form, length) == [form |-> form, length |-> length]
Num(form, value) == [form |-> form, value |-> value]
Dec(form, negative, precision, fraction) ==
  [form |-> form, negative |-> negative, precision |-> precision, fraction |-> fraction]

Amounts ==
  {None, Dec("blank", FALSE, 0, 0), Dec("other", FALSE, 1, 0), Dec("decimal", TRUE, 1, 0),
   Dec("decimal", FALSE, MaxPrecision, MaxFraction),
   Dec("decimal", FALSE, MaxPrecision + 1, MaxFraction),
   Dec("decimal", FALSE, 1, MaxFraction + 1)}
Names == {None, Text("blank", 1), Text("other", 1)}
AllPayloads ==
  [version : {1, 2}, kind : Kinds \cup {"none"},
   factId : Names \cup {Text("other", MaxFactId), Text("other", MaxFactId + 1)},
   currency : {None, Text("code", 3), Text("other", 3)},
   amount : Amounts, customer : Names, subscription : Names, mrr : Amounts,
   expected : {None, Num("int", -1), Num("int", 0), Num("bool", 1)}]

Property(key, bytes, value) ==
  [key |-> key, keyBytes |-> key, value |-> value, valueBytes |-> bytes]
SomeProperties ==
  {Property(1, 1, 1), Property(MaxKey, 2 * MaxValue, MaxValue), Property(MaxKey + 1, 0, None),
   Property(1, MaxValue + 1, MaxValue + 1), Property(1, 0, None)}
AllEvents ==
  [nameBlank : BOOLEAN, nameBytes : {1}, userBlank : BOOLEAN, userBytes : {0, 2},
   anonymousBlank : BOOLEAN, anonymousBytes : {1},
   timestamp : {Num("bool", 1)} \cup {Num("int", v) : v \in (MinEpoch - 1) .. (Today + 1)},
   properties : UNION {[1 .. n -> SomeProperties] : n \in 0 .. MaxProperties + 1}]
Sent == [nameBlank |-> FALSE, nameBytes |-> 1, userBlank |-> TRUE, userBytes |-> 0,
         anonymousBlank |-> FALSE, anonymousBytes |-> 1,
         timestamp |-> Num("int", Today), properties |-> <<Property(1, 1, 1)>>]
GoodAndBad == {Sent, [Sent EXCEPT !.timestamp = Num("int", Today + 1)]}

Sizes == {Num("int", v) : v \in -1 .. 2} \cup {Num("bool", 1), Num("float", 1)}
Delays == {Num("int", 0), Num("float", -1), Num("float", 1), Num("nan", 0), Num("inf", 0)}
AllConfigs ==
  [apiKey : {Text("blank", 1), Text("other", 1)},
   endpoint : {Text("blank", 0), Text("other", 1)},
   flushSize : Sizes, maxQueueSize : Sizes,
   maxRetries : Sizes, flushInterval : Delays \cup {None}, requestTimeout : Delays,
   retryBackoffBase : Delays, sessionTimeout : Delays,
   persistencePath : {None, Text("blank", 0)}]
=============================================================================
