--------------------------- MODULE SiteConfigProofs ---------------------------
(***************************************************************************)
(* For any settings, values and number of processes: the cache agrees with *)
(* the rows, and a default replaces no choice, unless a write overlapped   *)
(* another call or died.  And for any people, rows, invitations and        *)
(* processes of the site: who is let in, who keeps an account, and what    *)
(* the nightly jobs deal with (AccountsInv; Admits for what one process    *)
(* does that only lets people in).                                         *)
(***************************************************************************)
EXTENDS Accounts, FiniteSetTheorems, TLAPS

\* A process at a row or at a write is busy with that key alone.
OneKey ==
  \A c \in Clients : client[c].at \in {"row", "create", "save", "put"} => client[c].keys = {client[c].key}

\* What holds of a key no write has torn.
Exclusive(k) == \A c, d \in Clients : Writing(c, k) /\ Busy(d, k) => c = d
FillsRow(k)  == \A c \in Clients : client[c].at = "fill" /\ Busy(c, k) => client[c].value[k] = stored[k]
PutsRow(k)   == \A c \in Clients : client[c].at = "put" /\ client[c].key = k => stored[k] = client[c].value
UpToDate(k)     == cached[k] # Miss /\ (\A c \in Clients : ~Writing(c, k)) => cached[k] = stored[k]
NoChoice(k)  == \A c \in Clients :
                  client[c].at \in {"create", "save"} /\ client[c].key = k /\ client[c].by = "default"
                    => stored[k] \notin Values
Whole(k) == Exclusive(k) /\ FillsRow(k) /\ PutsRow(k) /\ UpToDate(k) /\ NoChoice(k)

SettingsInv == SettingsTypeOK /\ OneKey /\ \A k \in Keys : ~torn[k] => Whole(k)

\* A key that is whole after a step of c was whole before, and c was alone with it.
LEMMA AloneLemma ==
  ASSUME torn \in [Keys -> BOOLEAN],
         NEW c \in Clients, NEW ks, NEW w \in BOOLEAN, Overlap(c, ks, w),
         NEW k \in Keys, ~torn'[k]
  PROVE  /\ ~torn[k]
         /\ k \in ks => \A d \in Clients \ {c} : Busy(d, k) => ~w /\ ~Writing(d, k)
BY DEF Overlap, Clashes

LEMMA TypeOverlap ==
  ASSUME NEW c \in Clients, NEW ks, NEW w \in BOOLEAN, torn \in [Keys -> BOOLEAN], Overlap(c, ks, w)
  PROVE  torn' \in [Keys -> BOOLEAN]
BY DEF Overlap

LEMMA SettingsTypeInit == SettingsInit => SettingsTypeOK
BY SiteConfigAssumption DEF SettingsInit, SettingsTypeOK, Client, Idle

LEMMA SettingsTypeStep == SettingsTypeOK /\ [SettingsNext]_settings => SettingsTypeOK'
<1> SUFFICES ASSUME SettingsTypeOK, [SettingsNext]_settings PROVE SettingsTypeOK' OBVIOUS
<1> USE SiteConfigAssumption
<1>1. ASSUME NEW c \in Clients, NEW k \in Keys, Get(c, k) PROVE SettingsTypeOK'
  <2>1. torn' \in [Keys -> BOOLEAN] BY <1>1, TypeOverlap DEF Get, SettingsTypeOK
  <2> QED BY <1>1, <2>1 DEF Get, Begin, ClientAt, SettingsTypeOK, Client, Reading
<1>2. ASSUME NEW c \in Clients, NEW k \in Keys, NEW v \in Values, NEW by \in {"edit", "config"},
             Set(c, k, v, by) PROVE SettingsTypeOK'
  <2>1. torn' \in [Keys -> BOOLEAN] BY <1>2, TypeOverlap DEF Set, SettingsTypeOK
  <2> QED BY <1>2, <2>1 DEF Set, Begin, ClientAt, Write, SettingsTypeOK, Client, Storing
<1>3. ASSUME NEW c \in Clients, ReadRow(c) PROVE SettingsTypeOK'
  <2> DEFINE k == client[c].key
  <2>1. k \in Keys BY <1>3 DEF ReadRow, SettingsTypeOK, Client, Idle, Reading, Filling, Storing
  <2>2. torn' \in [Keys -> BOOLEAN] BY <1>3, <2>1, TypeOverlap DEF ReadRow, SettingsTypeOK
  <2>3. CASE stored[k] \in Values
    <3>1. [at |-> "fill", keys |-> {k}, value |-> [j \in Keys |-> stored[k]]] \in Client
      BY <2>1, <2>3 DEF Client, Filling
    <3> QED BY <1>3, <2>1, <2>2, <2>3, <3>1 DEF ReadRow, HasValue, ClientAt, SettingsTypeOK
  <2>4. CASE stored[k] \notin Values
    <3>1. Write(k, Default[k], "default") \in Client BY <2>1 DEF Write, Client, Storing
    <3> QED BY <1>3, <2>1, <2>2, <2>4, <3>1 DEF ReadRow, HasValue, ClientAt, SettingsTypeOK
  <2> QED BY <2>3, <2>4
<1>4. ASSUME NEW c \in Clients, Fill(c) PROVE SettingsTypeOK'
  <2>1. PICK k \in client[c].keys :
          /\ cached' = [cached EXCEPT ![k] = client[c].value[k]]
          /\ Overlap(c, {k}, FALSE)
          /\ ClientAt(c, IF client[c].keys = {k} THEN Idle ELSE [client[c] EXCEPT !.keys = @ \ {k}])
    BY <1>4 DEF Fill
  <2>2. client[c] \in Filling BY <1>4 DEF Fill, SettingsTypeOK, Client, Idle, Reading, Filling, Storing
  <2>3. k \in Keys /\ client[c].value[k] \in Values BY <2>1, <2>2 DEF Filling
  <2>4. torn' \in [Keys -> BOOLEAN] BY <2>1, TypeOverlap DEF SettingsTypeOK
  <2>5. [client[c] EXCEPT !.keys = @ \ {k}] \in Filling BY <2>2 DEF Filling
  <2> QED BY <1>4, <2>1, <2>3, <2>4, <2>5 DEF Fill, ClientAt, SettingsTypeOK, Client
<1>5. ASSUME NEW c \in Clients, Load(c) PROVE SettingsTypeOK'
  <2> DEFINE found == {k \in Keys : stored[k] \in Values}
             next == [at |-> "fill", keys |-> found,
                      value |-> [k \in Keys |-> IF k \in found THEN stored[k] ELSE Default[k]]]
  <2>1. torn' \in [Keys -> BOOLEAN] BY <1>5, TypeOverlap DEF Load, SettingsTypeOK
  <2>2. next \in Client BY DEF Client, Filling
  <2> QED BY <1>5, <2>1, <2>2 DEF Load, Begin, ClientAt, SettingsTypeOK
<1>6. ASSUME NEW c \in Clients, GetOrCreate(c) \/ SaveRow(c) \/ Put(c) PROVE SettingsTypeOK'
  <2>0. client[c].at \in {"create", "save", "put"} BY <1>6 DEF GetOrCreate, SaveRow, Put
  <2>1. client[c] \in Storing BY <2>0 DEF SettingsTypeOK, Client, Idle, Reading, Filling, Storing
  <2>2. client[c].key \in Keys /\ client[c].value \in Values BY <2>1 DEF Storing
  <2>3. torn' \in [Keys -> BOOLEAN] BY <1>6, TypeOverlap DEF GetOrCreate, SaveRow, Put, SettingsTypeOK
  <2>4. \A at \in {"save", "put"} : [client[c] EXCEPT !.at = at] \in Storing BY <2>1 DEF Storing
  <2>5. CASE GetOrCreate(c) BY <2>2, <2>3, <2>4, <2>5 DEF GetOrCreate, ClientAt, SettingsTypeOK, Client
  <2>6. CASE SaveRow(c) BY <2>2, <2>3, <2>4, <2>6 DEF SaveRow, ClientAt, SettingsTypeOK, Client
  <2>7. CASE Put(c) BY <2>2, <2>3, <2>7 DEF Put, Entry, ClientAt, SettingsTypeOK, Client
  <2> QED BY <1>6, <2>5, <2>6, <2>7
<1>7. ASSUME NEW c \in Clients, Die(c) PROVE SettingsTypeOK'
  BY <1>7 DEF Die, Writing, Busy, ClientAt, SettingsTypeOK, Client
<1>8. ASSUME NEW k \in Keys, Expire(k) PROVE SettingsTypeOK' BY <1>8 DEF Expire, SettingsTypeOK
<1>9. CASE UNCHANGED settings BY <1>9 DEF settings, SettingsTypeOK
<1> QED BY <1>1, <1>2, <1>3, <1>4, <1>5, <1>6, <1>7, <1>8, <1>9 DEF SettingsNext, Work

LEMMA OneKeyStep == SettingsTypeOK /\ OneKey /\ [SettingsNext]_settings => OneKey'
<1> SUFFICES ASSUME SettingsTypeOK, OneKey, [SettingsNext]_settings,
                    NEW d \in Clients, client'[d].at \in {"row", "create", "save", "put"}
             PROVE  client'[d].keys = {client'[d].key}
  BY DEF OneKey
<1>1. ASSUME NEW c \in Clients, NEW k \in Keys, Get(c, k) PROVE client'[d].keys = {client'[d].key}
  BY <1>1 DEF Get, ClientAt, OneKey, SettingsTypeOK
<1>2. ASSUME NEW c \in Clients, NEW k \in Keys, NEW v \in Values, NEW by \in {"edit", "config"},
             Set(c, k, v, by) PROVE client'[d].keys = {client'[d].key}
  BY <1>2 DEF Set, Write, ClientAt, OneKey, SettingsTypeOK
<1>3. ASSUME NEW c \in Clients, ReadRow(c) PROVE client'[d].keys = {client'[d].key}
  <2> DEFINE k == client[c].key
             fill == [at |-> "fill", keys |-> {k}, value |-> [j \in Keys |-> stored[k]]]
  <2>1. ClientAt(c, fill) \/ ClientAt(c, Write(k, Default[k], "default")) BY <1>3 DEF ReadRow
  <2>2. fill.at = "fill" OBVIOUS
  <2>3. Write(k, Default[k], "default").keys = {Write(k, Default[k], "default").key} BY DEF Write
  <2> HIDE DEF fill
  <2> QED BY <2>1, <2>2, <2>3 DEF ClientAt, OneKey, SettingsTypeOK
<1>4. ASSUME NEW c \in Clients, Fill(c) PROVE client'[d].keys = {client'[d].key}
  <2>1. PICK k \in client[c].keys :
          ClientAt(c, IF client[c].keys = {k} THEN Idle ELSE [client[c] EXCEPT !.keys = @ \ {k}])
    BY <1>4 DEF Fill
  <2>2. client[c] \in Filling BY <1>4 DEF Fill, SettingsTypeOK, Client, Idle, Reading, Filling, Storing
  <2>3. [client[c] EXCEPT !.keys = @ \ {k}].at = "fill" BY <2>2 DEF Filling
  <2>4. d # c BY <2>1, <2>3 DEF ClientAt, SettingsTypeOK, Idle
  <2> QED BY <2>1, <2>4 DEF ClientAt, OneKey, SettingsTypeOK
<1>5. ASSUME NEW c \in Clients, Load(c) PROVE client'[d].keys = {client'[d].key}
  BY <1>5 DEF Load, ClientAt, OneKey, SettingsTypeOK
<1>6. ASSUME NEW c \in Clients, GetOrCreate(c) \/ SaveRow(c) \/ Put(c)
      PROVE  client'[d].keys = {client'[d].key}
  <2>0. client[c].at \in {"create", "save", "put"} BY <1>6 DEF GetOrCreate, SaveRow, Put
  <2>1. client[c] \in Storing BY <2>0 DEF SettingsTypeOK, Client, Idle, Reading, Filling, Storing
  <2>2. client[c].keys = {client[c].key} BY <2>0 DEF OneKey
  <2>3. \A at \in {"save", "put"} :
          LET next == [client[c] EXCEPT !.at = at] IN next.keys = {next.key}
    BY <2>1, <2>2 DEF Storing
  <2>4. \/ \E at \in {"save", "put"} : ClientAt(c, [client[c] EXCEPT !.at = at])
        \/ ClientAt(c, Idle)
    BY <1>6 DEF GetOrCreate, SaveRow, Put
  <2>5. CASE d = c
    <3>1. CASE ClientAt(c, Idle) BY <3>1, <2>5 DEF ClientAt, SettingsTypeOK, Idle
    <3>2. ASSUME NEW at \in {"save", "put"}, ClientAt(c, [client[c] EXCEPT !.at = at])
          PROVE  client'[d].keys = {client'[d].key}
      BY <3>2, <2>5, <2>3 DEF ClientAt, SettingsTypeOK
    <3> QED BY <2>4, <3>1, <3>2
  <2>6. CASE d # c BY <2>4, <2>6 DEF ClientAt, OneKey, SettingsTypeOK
  <2> QED BY <2>5, <2>6
<1>7. ASSUME NEW c \in Clients, Die(c) PROVE client'[d].keys = {client'[d].key}
  BY <1>7 DEF Die, ClientAt, OneKey, SettingsTypeOK, Idle
<1>8. ASSUME NEW k \in Keys, Expire(k) PROVE client'[d].keys = {client'[d].key} BY <1>8 DEF Expire, OneKey
<1>9. CASE UNCHANGED settings BY <1>9 DEF settings, OneKey
<1> QED BY <1>1, <1>2, <1>3, <1>4, <1>5, <1>6, <1>7, <1>8, <1>9 DEF SettingsNext, Work

\* A step of a process that is busy with other keys leaves a key whole.
LEMMA ElsewhereLemma ==
  ASSUME OneKey', NEW k \in Keys, Whole(k), NEW c \in Clients,
         stored'[k] = stored[k], cached'[k] = cached[k],
         \A d \in Clients \ {c} : client'[d] = client[d],
         ~Busy(c, k), ~Busy(c, k)'
  PROVE  Whole(k)'
<1>1. Exclusive(k)' BY DEF Whole, Exclusive, Writing, Busy
<1>2. FillsRow(k)' BY DEF Whole, FillsRow, Busy
<1>3. PutsRow(k)' BY DEF Whole, PutsRow, OneKey, Busy
<1>4. UpToDate(k)' BY DEF Whole, UpToDate, Writing, Busy
<1>5. NoChoice(k)' BY DEF Whole, NoChoice, OneKey, Busy
<1> QED BY <1>1, <1>2, <1>3, <1>4, <1>5 DEF Whole

\* Who is alone with a key and at a write leaves it whole, if the row is what is
\* to be put into the cache.
LEMMA AloneWhole ==
  ASSUME OneKey', NEW k \in Keys, NEW c \in Clients, Writing(c, k)',
         \A d \in Clients \ {c} : client'[d] = client[d] /\ ~Busy(d, k),
         client'[c].at = "put" => stored'[k] = client'[c].value,
         client'[c].at \in {"create", "save"} /\ client'[c].by = "default" => stored'[k] \notin Values
  PROVE  Whole(k)'
<1>1. \A d \in Clients \ {c} : ~Busy(d, k)' BY DEF Busy
<1>2. \A d \in Clients \ {c} : client'[d].at \in {"create", "save", "put"} => client'[d].key # k
  BY <1>1 DEF OneKey, Busy
<1>3. Exclusive(k)' BY <1>1 DEF Exclusive, Writing
<1>4. FillsRow(k)' BY <1>1 DEF FillsRow, Writing
<1>5. PutsRow(k)' BY <1>2 DEF PutsRow
<1>6. UpToDate(k)' BY DEF UpToDate
<1>7. NoChoice(k)' BY <1>2 DEF NoChoice
<1> QED BY <1>3, <1>4, <1>5, <1>6, <1>7 DEF Whole

LEMMA WholeStep == SettingsInv /\ OneKey' /\ [SettingsNext]_settings => \A k \in Keys : ~torn'[k] => Whole(k)'
<1> SUFFICES ASSUME SettingsInv, OneKey', [SettingsNext]_settings, NEW k \in Keys, ~torn'[k] PROVE Whole(k)' OBVIOUS
<1> USE SiteConfigAssumption
<1>0. torn \in [Keys -> BOOLEAN] /\ SettingsTypeOK /\ OneKey /\ (~torn[k] => Whole(k))
  BY DEF SettingsInv, SettingsTypeOK
<1>1. ASSUME NEW c \in Clients, NEW j \in Keys, Get(c, j) PROVE Whole(k)'
  <2>1. Overlap(c, {j}, FALSE) /\ client[c].at = "idle" /\ cached[j] = Miss BY <1>1 DEF Get, Begin
  <2>2. ~torn[k] /\ (k = j => \A d \in Clients \ {c} : ~Writing(d, k)) BY <1>0, <2>1, AloneLemma, Zenon DEF Writing
  <2>3. client[c] = Idle BY <1>0, <2>1 DEF SettingsTypeOK, Client, Idle, Reading, Filling, Storing
  <2>4. /\ client'[c] = [at |-> "row", keys |-> {j}, key |-> j]
        /\ \A d \in Clients \ {c} : client'[d] = client[d]
    BY <1>0, <1>1 DEF Get, ClientAt, SettingsTypeOK
  <2>5. CASE k # j BY <1>0, <1>1, <2>2, <2>3, <2>4, <2>5, ElsewhereLemma DEF Get, Busy, Idle
  <2>6. CASE k = j
    <3>1. client'[c].at = "row" /\ cached'[k] = Miss /\ stored' = stored BY <1>1, <2>1, <2>4, <2>6 DEF Get
    <3>2. \A d \in Clients : ~Writing(d, k)' BY <2>2, <2>4, <2>6, <3>1 DEF Writing, Busy
    <3> QED BY <1>0, <2>2, <2>4, <3>1, <3>2
            DEF Whole, Exclusive, FillsRow, PutsRow, UpToDate, NoChoice, Busy
  <2> QED BY <2>5, <2>6
<1>2. ASSUME NEW c \in Clients, NEW j \in Keys, NEW v \in Values, NEW by \in {"edit", "config"},
             Set(c, j, v, by) PROVE Whole(k)'
  <2>1. Overlap(c, {j}, TRUE) /\ client[c].at = "idle" BY <1>2 DEF Set, Begin
  <2>2. ~torn[k] /\ (k = j => \A d \in Clients \ {c} : ~Busy(d, k)) BY <1>0, <2>1, AloneLemma, Zenon
  <2>3. client[c] = Idle BY <1>0, <2>1 DEF SettingsTypeOK, Client, Idle, Reading, Filling, Storing
  <2>4. /\ client'[c] = [at |-> "create", keys |-> {j}, key |-> j, value |-> v, by |-> by]
        /\ \A d \in Clients \ {c} : client'[d] = client[d]
    BY <1>0, <1>2 DEF Set, Write, ClientAt, SettingsTypeOK
  <2>5. CASE k # j BY <1>0, <1>2, <2>2, <2>3, <2>4, <2>5, ElsewhereLemma DEF Set, Busy, Idle
  <2>6. CASE k = j
    BY <2>4, <2>6, <2>2, AloneWhole DEF Writing, Busy
  <2> QED BY <2>5, <2>6
<1>3. ASSUME NEW c \in Clients, ReadRow(c) PROVE Whole(k)'
  <2> DEFINE j == client[c].key
             fill == [at |-> "fill", keys |-> {j}, value |-> [i \in Keys |-> stored[j]]]
             write == [at |-> "create", keys |-> {j}, key |-> j, value |-> Default[j], by |-> "default"]
  <2>0. client[c].at = "row" /\ client[c].keys = {j} BY <1>0, <1>3 DEF ReadRow, OneKey
  <2>1. CASE stored[j] \in Values
    <3>1. Overlap(c, {j}, FALSE) /\ stored' = stored /\ cached' = cached BY <1>3, <2>1 DEF ReadRow, HasValue
    <3>2. ~torn[k] /\ (k = j => \A d \in Clients \ {c} : ~Writing(d, k)) BY <1>0, <3>1, AloneLemma, Zenon DEF Writing
    <3>3. client'[c] = fill /\ \A d \in Clients \ {c} : client'[d] = client[d]
      BY <1>0, <1>3, <2>1 DEF ReadRow, HasValue, ClientAt, SettingsTypeOK
    <3>4. CASE k # j BY <1>0, <2>0, <3>1, <3>2, <3>3, <3>4, ElsewhereLemma DEF Busy
    <3>5. CASE k = j
      <4>1. client'[c].at = "fill" /\ client'[c].value[k] = stored[k] BY <3>3, <3>5
      <4>2. \A d \in Clients : ~Writing(d, k) BY <2>0, <3>2, <3>5 DEF Writing
      <4>3. \A d \in Clients : ~Writing(d, k)' BY <3>3, <4>1, <4>2 DEF Writing, Busy
      <4> QED BY <1>0, <3>1, <3>2, <3>3, <4>1, <4>2, <4>3
              DEF Whole, Exclusive, FillsRow, PutsRow, UpToDate, NoChoice, Busy
    <3> QED BY <3>4, <3>5
  <2>2. CASE stored[j] \notin Values
    <3>1. Overlap(c, {j}, TRUE) /\ stored' = stored /\ cached' = cached BY <1>3, <2>2 DEF ReadRow, HasValue
    <3>2. ~torn[k] /\ (k = j => \A d \in Clients \ {c} : ~Busy(d, k)) BY <1>0, <3>1, AloneLemma, Zenon
    <3>3. client'[c] = write /\ \A d \in Clients \ {c} : client'[d] = client[d]
      BY <1>0, <1>3, <2>2 DEF ReadRow, HasValue, Write, ClientAt, SettingsTypeOK
    <3>4. CASE k # j BY <1>0, <2>0, <3>1, <3>2, <3>3, <3>4, ElsewhereLemma DEF Busy
    <3>5. CASE k = j
      <4>1. Writing(c, k)' /\ client'[c].at = "create" /\ stored'[k] \notin Values
        BY <2>2, <3>1, <3>3, <3>5 DEF Writing, Busy
      <4> QED BY <3>2, <3>3, <3>5, <4>1, AloneWhole
    <3> QED BY <3>4, <3>5
  <2> QED BY <2>1, <2>2
<1>4. ASSUME NEW c \in Clients, Fill(c) PROVE Whole(k)'
  <2>1. PICK j \in client[c].keys :
          /\ cached' = [cached EXCEPT ![j] = client[c].value[j]]
          /\ Overlap(c, {j}, FALSE)
          /\ ClientAt(c, IF client[c].keys = {j} THEN Idle ELSE [client[c] EXCEPT !.keys = @ \ {j}])
    BY <1>4 DEF Fill
  <2>2. client[c] \in Filling BY <1>0, <1>4 DEF Fill, SettingsTypeOK, Client, Idle, Reading, Filling, Storing
  <2>3. ~torn[k] /\ (k = j => \A d \in Clients \ {c} : ~Writing(d, k)) BY <1>0, <2>1, AloneLemma, Zenon DEF Writing
  <2>4. \A d \in Clients \ {c} : client'[d] = client[d] BY <1>0, <2>1 DEF ClientAt, SettingsTypeOK
  <2>5. /\ client'[c].keys = client[c].keys \ {j}
        /\ client'[c].at = "idle" \/ (client'[c].at = "fill" /\ client'[c].value = client[c].value)
    BY <1>0, <2>1, <2>2 DEF ClientAt, SettingsTypeOK, Idle, Filling
  <2>6. client[c].at = "fill" /\ stored' = stored /\ j \in Keys BY <1>4, <2>1, <2>2 DEF Fill, Filling
  <2>7. \A d \in Clients : Writing(d, k)' <=> Writing(d, k) BY <2>4, <2>5, <2>6 DEF Writing, Busy
  <2>8. Exclusive(k)' /\ FillsRow(k)' /\ PutsRow(k)' /\ NoChoice(k)'
    <3>1. Exclusive(k)' BY <1>0, <2>3, <2>4, <2>5, <2>7 DEF Whole, Exclusive, Busy
    <3>2. FillsRow(k)' BY <1>0, <2>3, <2>4, <2>5, <2>6 DEF Whole, FillsRow, Busy
    <3>3. PutsRow(k)' /\ NoChoice(k)' BY <1>0, <2>3, <2>4, <2>5, <2>6 DEF Whole, PutsRow, NoChoice
    <3> QED BY <3>1, <3>2, <3>3
  <2>9. UpToDate(k)'
    <3>1. CASE k # j
      <4>1. cached'[k] = cached[k] BY <1>0, <2>1, <3>1 DEF SettingsTypeOK
      <4> QED BY <1>0, <2>3, <2>6, <2>7, <4>1 DEF Whole, UpToDate
    <3>2. CASE k = j
      <4>1. cached'[k] = client[c].value[k] BY <1>0, <2>1, <3>2 DEF SettingsTypeOK
      <4>2. client[c].value[k] = stored[k] BY <1>0, <2>1, <2>3, <2>6, <3>2 DEF Whole, FillsRow, Busy
      <4> QED BY <2>6, <4>1, <4>2 DEF UpToDate
    <3> QED BY <3>1, <3>2
  <2> QED BY <2>8, <2>9 DEF Whole
<1>5. ASSUME NEW c \in Clients, Load(c) PROVE Whole(k)'
  <2> DEFINE full == {j \in Keys : stored[j] \in Values}
             copy == [j \in Keys |-> IF j \in full THEN stored[j] ELSE Default[j]]
  <2>1. Overlap(c, full, FALSE) /\ client[c].at = "idle" /\ stored' = stored /\ cached' = cached
    BY <1>5 DEF Load, Begin
  <2>2. ~torn[k] /\ (k \in full => \A d \in Clients \ {c} : ~Writing(d, k))
    BY <1>0, <2>1, AloneLemma, Zenon DEF Writing
  <2>3. client[c] = Idle BY <1>0, <2>1 DEF SettingsTypeOK, Client, Idle, Reading, Filling, Storing
  <2>4. client'[c] = [at |-> "fill", keys |-> full, value |-> copy]
        /\ \A d \in Clients \ {c} : client'[d] = client[d]
    BY <1>0, <1>5 DEF Load, ClientAt, SettingsTypeOK
  <2>5. CASE k \notin full BY <1>0, <2>1, <2>2, <2>3, <2>4, <2>5, ElsewhereLemma DEF Busy, Idle
  <2>6. CASE k \in full
    <3>1. client'[c].at = "fill" /\ client'[c].value[k] = stored[k] BY <2>4, <2>6
    <3>2. \A d \in Clients : ~Writing(d, k) BY <2>2, <2>3, <2>6 DEF Writing, Idle
    <3>3. \A d \in Clients : ~Writing(d, k)' BY <2>4, <3>1, <3>2 DEF Writing, Busy
    <3> QED BY <1>0, <2>1, <2>2, <2>4, <3>1, <3>2, <3>3
            DEF Whole, Exclusive, FillsRow, PutsRow, UpToDate, NoChoice, Busy
  <2> QED BY <2>5, <2>6
<1>6. ASSUME NEW c \in Clients, GetOrCreate(c) \/ SaveRow(c) \/ Put(c) PROVE Whole(k)'
  <2> DEFINE j == client[c].key
  <2>0. client[c].at \in {"create", "save", "put"} BY <1>6 DEF GetOrCreate, SaveRow, Put
  <2>1. client[c] \in Storing BY <1>0, <2>0 DEF SettingsTypeOK, Client, Idle, Reading, Filling, Storing
  <2>2. client[c].keys = {j} /\ j \in Keys /\ client[c].value \in Values BY <1>0, <2>0, <2>1 DEF OneKey, Storing
  <2>3. Overlap(c, {j}, TRUE) BY <1>6 DEF GetOrCreate, SaveRow, Put
  <2>4. ~torn[k] /\ (k = j => \A d \in Clients \ {c} : ~Busy(d, k)) BY <1>0, <2>3, AloneLemma, Zenon
  <2>5. \A d \in Clients \ {c} : client'[d] = client[d]
    BY <1>0, <1>6 DEF GetOrCreate, SaveRow, Put, ClientAt, SettingsTypeOK
  <2>6. \/ \E at \in {"save", "put"} : client'[c] = [client[c] EXCEPT !.at = at]
        \/ client'[c] = Idle
    BY <1>0, <1>6 DEF GetOrCreate, SaveRow, Put, ClientAt, SettingsTypeOK
  <2>7. CASE k # j
    <3>1. stored'[k] = stored[k] /\ cached'[k] = cached[k]
      BY <1>0, <1>6, <2>7 DEF GetOrCreate, SaveRow, Put, SettingsTypeOK
    <3>2. ~Busy(c, k) /\ ~Busy(c, k)' BY <2>1, <2>2, <2>6, <2>7 DEF Busy, Storing, Idle
    <3> QED BY <1>0, <2>4, <2>5, <3>1, <3>2, ElsewhereLemma
  <2>8. CASE k = j /\ GetOrCreate(c)
    <3>1. stored' = [stored EXCEPT ![k] = IF @ = NoRow THEN Null ELSE @] BY <2>8 DEF GetOrCreate
    <3>2. stored'[k] = IF stored[k] = NoRow THEN Null ELSE stored[k] BY <1>0, <3>1 DEF SettingsTypeOK
    <3>3. client'[c] = [client[c] EXCEPT !.at = IF Saves(k, client[c]) THEN "save" ELSE "put"]
      BY <1>0, <2>8 DEF GetOrCreate, ClientAt, SettingsTypeOK
    <3>4. /\ client'[c].keys = {k} /\ client'[c].value = client[c].value /\ client'[c].by = client[c].by
          /\ client'[c].at = IF Saves(k, client[c]) THEN "save" ELSE "put"
      BY <2>1, <2>2, <2>8, <3>3 DEF Storing
    <3>5. Writing(c, k)' BY <3>4 DEF Writing, Busy
    <3>6. client'[c].at = "put" => stored'[k] = client'[c].value BY <2>2, <3>2, <3>4 DEF Saves
    <3>7. client'[c].at \in {"create", "save"} /\ client'[c].by = "default" => stored'[k] \notin Values
      BY <1>0, <2>4, <2>8, <3>2, <3>4 DEF Whole, NoChoice, GetOrCreate
    <3> QED BY <2>4, <2>5, <2>8, <3>5, <3>6, <3>7, AloneWhole
  <2>9. CASE k = j /\ SaveRow(c)
    <3>1. stored'[k] = client[c].value BY <1>0, <2>9 DEF SaveRow, SettingsTypeOK
    <3>2. client'[c] = [client[c] EXCEPT !.at = "put"] BY <1>0, <2>9 DEF SaveRow, ClientAt, SettingsTypeOK
    <3>3. client'[c].keys = {k} /\ client'[c].value = client[c].value /\ client'[c].at = "put"
      BY <2>1, <2>2, <2>9, <3>2 DEF Storing
    <3>4. Writing(c, k)' BY <3>3 DEF Writing, Busy
    <3> QED BY <2>4, <2>5, <2>9, <3>1, <3>3, <3>4, AloneWhole
  <2>10. CASE k = j /\ Put(c)
    <3>1. cached'[k] = client[c].value /\ stored' = stored BY <1>0, <2>10 DEF Put, Entry, SettingsTypeOK
    <3>2. client'[c] = Idle BY <1>0, <2>10 DEF Put, ClientAt, SettingsTypeOK
    <3>3. stored[k] = client[c].value BY <1>0, <2>4, <2>10 DEF Whole, PutsRow, Put
    <3>4. \A d \in Clients : ~Busy(d, k)' BY <2>4, <2>5, <2>10, <3>2 DEF Busy, Idle
    <3>5. \A d \in Clients : client'[d].at \in {"create", "save", "put"} => client'[d].key # k
      BY <3>4 DEF OneKey, Busy
    <3> QED BY <3>1, <3>3, <3>4, <3>5
            DEF Whole, Exclusive, FillsRow, PutsRow, UpToDate, NoChoice, Writing
  <2> QED BY <1>6, <2>7, <2>8, <2>9, <2>10
<1>7. ASSUME NEW c \in Clients, Die(c) PROVE Whole(k)'
  <2>1. ~torn[k] /\ ~Writing(c, k) /\ stored' = stored /\ cached' = cached BY <1>0, <1>7 DEF Die
  <2>2. client'[c] = Idle /\ \A d \in Clients \ {c} : client'[d] = client[d]
    BY <1>0, <1>7 DEF Die, ClientAt, SettingsTypeOK
  <2>3. ~Busy(c, k)' /\ client'[c].at = "idle" BY <2>2 DEF Busy, Idle
  <2>4. \A d \in Clients : Writing(d, k)' <=> Writing(d, k) BY <2>1, <2>2, <2>3 DEF Writing, Busy
  <2>5. Exclusive(k)' /\ FillsRow(k)' BY <1>0, <2>1, <2>2, <2>3, <2>4 DEF Whole, Exclusive, FillsRow, Busy
  <2>6. PutsRow(k)' /\ NoChoice(k)' BY <1>0, <2>1, <2>2, <2>3 DEF Whole, PutsRow, NoChoice
  <2>7. UpToDate(k)' BY <1>0, <2>1, <2>4 DEF Whole, UpToDate
  <2> QED BY <2>5, <2>6, <2>7 DEF Whole
<1>8. ASSUME NEW j \in Keys, Expire(j) PROVE Whole(k)'
  <2>1. stored' = stored /\ client' = client BY <1>8 DEF Expire
  <2>2. CASE k # j
    <3>1. torn'[k] = torn[k] /\ cached'[k] = cached[k] BY <1>0, <1>8, <2>2 DEF Expire, SettingsTypeOK
    <3> QED BY <1>0, <2>1, <3>1
            DEF Whole, Exclusive, FillsRow, PutsRow, UpToDate, NoChoice, Writing, Busy
  <2>3. CASE k = j
    <3>1. cached'[k] = Miss BY <1>0, <1>8, <2>3 DEF Expire, SettingsTypeOK
    <3>2. CASE torn[k]
      <4>1. \A c \in Clients : ~Busy(c, k) BY <1>0, <1>8, <2>3, <3>2 DEF Expire
      <4>2. \A c \in Clients : client[c].at \in {"create", "save", "put"} => client[c].key # k
        BY <1>0, <4>1 DEF OneKey, Busy
      <4> QED BY <2>1, <3>1, <4>1, <4>2
              DEF Whole, Exclusive, FillsRow, PutsRow, UpToDate, NoChoice, Writing, Busy
    <3>3. CASE ~torn[k]
      BY <1>0, <2>1, <3>1, <3>3
      DEF Whole, Exclusive, FillsRow, PutsRow, UpToDate, NoChoice, Writing, Busy
    <3> QED BY <3>2, <3>3
  <2> QED BY <2>2, <2>3
<1>9. CASE UNCHANGED settings
  BY <1>0, <1>9 DEF settings, Whole, Exclusive, FillsRow, PutsRow, UpToDate, NoChoice, Writing, Busy
<1> QED BY <1>1, <1>2, <1>3, <1>4, <1>5, <1>6, <1>7, <1>8, <1>9 DEF SettingsNext, Work

LEMMA SettingsInvInit == SettingsInit => SettingsInv
<1> SUFFICES ASSUME SettingsInit PROVE SettingsInv OBVIOUS
<1>1. SettingsTypeOK BY SettingsTypeInit
<1>2. \A c \in Clients : client[c].at = "idle" /\ client[c].keys = {} BY DEF SettingsInit, Idle
<1>3. OneKey BY <1>2 DEF OneKey
<1>4. \A k \in Keys : Whole(k)
  BY <1>2 DEF SettingsInit, Whole, Exclusive, FillsRow, PutsRow, UpToDate, NoChoice, Writing, Busy
<1> QED BY <1>1, <1>3, <1>4 DEF SettingsInv

LEMMA SettingsInvStep == SettingsInv /\ [SettingsNext]_settings => SettingsInv'
BY SettingsTypeStep, OneKeyStep, WholeStep DEF SettingsInv

LEMMA SettingsInvInvariant == SettingsSpec => []SettingsInv
<1>1. SettingsInit => SettingsInv BY SettingsInvInit
<1>2. SettingsInv /\ [SettingsNext]_settings => SettingsInv' BY SettingsInvStep
<1> QED BY <1>1, <1>2, PTL DEF SettingsSpec

\* The settings keep their types.
THEOREM SettingsTypeCorrect == SettingsSpec => []SettingsTypeOK
<1>1. SettingsInv => SettingsTypeOK BY DEF SettingsInv
<1> QED BY <1>1, SettingsInvInvariant, PTL

\* Whatever processes read, write, start and die, an entry of the cache says what
\* its row says, unless a write overlapped another call or died since it was dropped.
THEOREM CacheAgreesAlways == SettingsSpec => []CacheAgrees
<1>1. SettingsInv => CacheAgrees BY DEF SettingsInv, Whole, UpToDate, CacheAgrees
<1> QED BY <1>1, SettingsInvInvariant, PTL

\* The default a read stores replaces no value, unless its calls overlapped those
\* of a write.
THEOREM ChoiceKeptAlways == SettingsSpec => ChoiceKept
<1> DEFINE Kept == \A k \in Keys :
      stored[k] \in Values /\ stored'[k] # stored[k] =>
        torn[k] \/ \E c \in Clients : client[c].at = "save" /\ client[c].key = k /\ client[c].by # "default"
<1>1. SettingsInv /\ [SettingsNext]_settings => [Kept]_settings
  <2> SUFFICES ASSUME SettingsInv, [SettingsNext]_settings, NEW k \in Keys,
                      stored[k] \in Values, stored'[k] # stored[k], ~torn[k]
               PROVE  \E c \in Clients :
                        client[c].at = "save" /\ client[c].key = k /\ client[c].by # "default"
    OBVIOUS
  <2>1. PICK c \in Clients : GetOrCreate(c) \/ SaveRow(c)
    BY DEF SettingsNext, Work, Get, Set, ReadRow, Fill, Load, Put, Die, Expire, settings
  <2>2. stored \in [Keys -> Values \cup {NoRow, Null}] /\ client[c].at \in {"create", "save"}
    BY <2>1 DEF SettingsInv, SettingsTypeOK, GetOrCreate, SaveRow
  <2>3. ~GetOrCreate(c) BY <2>2, SiteConfigAssumption DEF GetOrCreate
  <2>4. client[c].at = "save" /\ client[c].key = k BY <2>1, <2>2, <2>3 DEF SaveRow
  <2>5. client[c].by # "default" BY <2>4 DEF SettingsInv, Whole, NoChoice
  <2> QED BY <2>4, <2>5
<1> QED BY <1>1, SettingsInvInvariant, PTL DEF SettingsSpec, ChoiceKept

-----------------------------------------------------------------------------
-----------------------------------------------------------------------------
(***************************************************************************)
(* Accounts.                                                               *)
(***************************************************************************)
\* What a process that is at step may count on, when R are the rows, cl the
\* addresses let in, sn the reports dealt with, inv the invitations and last the
\* last code.
Counts(step, R, cl, sn, inv, last) ==
  /\ step.at \in {"forget", "apply", "tidy", "save", "fetch", "report"} => R[step.id] # NoUser
  /\ step.at = "loop" => /\ \A i \in Ids : step.rows[i] # NoUser => R[i] # NoUser
                         /\ \A i \in step.left : step.rows[i] # NoUser
                         /\ step.rounds # 0
  /\ step.at = "fetch" => step.row.ext # Noone
  /\ step.at \in {"enter", "create"} => step.claims.mail \in cl
  /\ step.at \in {"job", "report"} => step.next # 0 /\ 1..(step.next - 1) \subseteq sn[step.job]
  /\ step.at = "consume" =>
       step.code <= last /\ \A n \in Emails : inv[n].code = step.code => inv[n].pk = step.pk
CountsAll == \A w \in Workers : Counts(proc[w], rows, cleared, seen, invited, lastCode)

\* Only who takes requests is at work.
OneCrew == \A w \in Workers : w \notin offer.crew => proc[w].at = "free"

\* Codes are given once; one that was spent is in no invitation.
CodesOnce ==
  /\ \A n \in Emails : invited[n].code <= lastCode
  /\ \A n, m \in Emails : invited[n].code = invited[m].code /\ invited[n].code # NoCode => n = m
  /\ \A c \in Codes : spent[c] # {} => c <= lastCode /\ \A n \in Emails : invited[n].code # c
Holders(c) == {w \in offer.crew : proc[w].at = "consume" /\ proc[w].code = c}
CodesShared ==
  \A c \in Codes : /\ IsFiniteSet(spent[c])
                   /\ Cardinality(spent[c]) + Cardinality(Holders(c)) <= Cardinality(offer.crew)

ClaimsCleared == \A p \in Persons : session[p].claims # NoClaims => session[p].claims.mail \in cleared

\* One process writes back what is not wiped.
Unwiped(step, R) ==
  /\ step.at \in {"forget", "apply", "save", "fetch", "report"} => ~Erased(R[step.id])
  /\ step.at = "loop" => \A i \in Ids : step.rows[i] # NoUser /\ Erased(R[i]) => R[i] = step.rows[i]
NoneWiped == Cardinality(offer.crew) = 1 => \A w \in Workers : Unwiped(proc[w], rows)

AccountsInv ==
  /\ TypeOK /\ OneCrew /\ CountsAll /\ CodesOnce /\ CodesShared /\ ClaimsCleared /\ NoneWiped /\ ReportsDealtWith

\* Nothing but people who ask and are let in, by one process; who is logged in at
\* first has a row that is not banned, and wiped rows say nothing.
Admitting == {"login", "onboard", "link", "ask", "invite", "revoke", "answer", "settings"}
OnlyAdmits(o) ==
  /\ o.kinds \subseteq Admitting
  /\ \A i \in Ids : Erased(o.rows[i]) => o.rows[i].mail = NoMail /\ o.rows[i].ext = Noone
  /\ \A p \in Persons : LET i == o.session[p].user IN i # 0 => o.rows[i] # NoUser /\ o.rows[i].active
InvitesOnlyToAdmit ==
  \A o \in Offers : Cardinality(o.crew) = 1 /\ "crash" \notin o.kinds => ("invite" \notin o.kinds \/ OnlyAdmits(o))

\* Nobody else has the address or the identity in claims c.
Unknown(c, but, R) == \A j \in Ids \ but : R[j] # NoUser => R[j].mail # c.mail /\ R[j].ext # c.person
IsNew(step) ==
  \/ step.at = "enter"
  \/ step.at = "create" /\ step.way = "login"
  \/ step.at \in {"forget", "apply"} /\ step.way = "login" /\ step.new
Unhindered(step, R) ==
  /\ step.at \in {"approve", "consume", "enter"} \/ (step.at = "create" /\ step.way = "login") => Unknown(step.claims, {}, R)
  /\ step.at \in {"forget", "apply"} =>
       R[step.id] = step.row /\ (step.way = "login" /\ step.new => Unknown(step.claims, {step.id}, R))
Admits ==
  OnlyAdmits(offer) /\ Alone =>
    /\ \A i \in Ids : Erased(rows[i]) => rows[i].mail = NoMail /\ rows[i].ext = Noone
    /\ \A p \in Persons \ joined : session[p].user # 0 => rows[session[p].user] # NoUser /\ rows[session[p].user].active
    /\ \A w \in Workers : Unhindered(proc[w], rows)
    /\ \A c \in Codes : \A p \in spent[c] :
         p \in joined \/ session[p].claims # NoClaims \/ \E w \in Workers : IsNew(proc[w]) /\ proc[w].claims.person = p
NoCodes == "invite" \notin offer.kinds => lastCode = 0

-----------------------------------------------------------------------------
LEMMA Kinds ==
  /\ \A r \in Row : r # NoUser
  /\ \A c \in Claims : c # NoClaims
  /\ \A i \in Invitation : i # NoInvitation
<1>1. \A r \in Row : r # NoUser
  BY DEF Row, NoUser
<1>2. \A c \in Claims : c # NoClaims BY AccountsAssumption DEF Claims, NoClaims
<1>3. \A i \in Invitation : i # NoInvitation BY AccountsAssumption DEF Invitation, NoInvitation, Codes, NoCode
<1> QED BY <1>1, <1>2, <1>3

\* What a process holds at each step.
LEMMA ProcessParts ==
  ASSUME NEW step \in Process
  PROVE  /\ step.at \in LettingIn => step.claims \in Claims
         /\ step.at \in LettingIn => step.way \in Ways
         /\ step.at \in {"approve", "enter"} => step.way = "login"
         /\ step.at = "consume" => step.code \in Codes /\ step.pk \in Codes
         /\ step.at \in {"forget", "apply", "tidy"} => step.new \in BOOLEAN
         /\ step.at \in {"forget", "apply", "tidy", "save", "fetch", "report"} => step.id \in Ids /\ step.row \in Row
         /\ step.at \in {"save", "loop"} => step.out \in BOOLEAN
         /\ step.at = "save" => step.person \in Persons \cup {Noone}
         /\ step.at = "loop" => /\ step.person \in Persons /\ step.rows \in [Ids -> Row \cup {NoUser}]
                                /\ step.left \in SUBSET Ids /\ step.rounds \in Nat
         /\ step.at \in {"job", "report"} => step.job \in Jobs /\ step.next \in Nat /\ step.upto \in Nat
BY DEF Process, Free, Entering, Inviting, Making, Saving, Fetching, Looping, Running, Banning, LettingIn, Ways

LEMMA ProcessAt ==
  ASSUME NEW step \in Process
  PROVE  /\ step.at \in {"approve", "enter", "create"} => step \in Entering
         /\ step.at = "consume" => step \in Inviting
         /\ step.at \in {"forget", "apply", "tidy"} => step \in Making
         /\ step.at = "save" => step \in Saving
         /\ step.at = "fetch" => step \in Fetching
         /\ step.at = "loop" => step \in Looping
         /\ step.at = "job" => step \in Running
         /\ step.at = "report" => step \in Banning
         /\ step.at = "free" => step = Free
BY DEF Process, Free, Entering, Inviting, Making, Saving, Fetching, Looping, Running, Banning

LEMMA RowParts ==
  ASSUME NEW row \in Row
  PROVE  /\ row.mail \in Emails \cup {NoMail} /\ row.ext \in Persons \cup {Noone}
         /\ row.erased \in BOOLEAN /\ row.active \in BOOLEAN /\ row.super \in BOOLEAN /\ row.admin \in BOOLEAN
         /\ Wiped(row) \in Row
         /\ \A b \in BOOLEAN : /\ [row EXCEPT !.active = b] \in Row /\ [row EXCEPT !.admin = b] \in Row
                               /\ [row EXCEPT !.leave = b] \in Row /\ [row EXCEPT !.erased = b] \in Row
BY DEF Row, Wiped

LEMMA Toggled ==
  ASSUME NEW row \in Row
  PROVE  [row EXCEPT !.active = ~@] \in Row /\ [row EXCEPT !.admin = ~@] \in Row /\ [row EXCEPT !.leave = ~@] \in Row
BY DEF Row

LEMMA NewRowIs == \A m \in Emails :
  /\ NewRow(m) \in Row /\ NewRow(m).mail = m /\ NewRow(m).ext = Noone
  /\ ~Erased(NewRow(m)) /\ NewRow(m).erased = FALSE /\ NewRow(m).active = TRUE
BY DEF NewRow, Row, Erased

LEMMA FoundIs == ASSUME rows \in [Ids -> Row \cup {NoUser}], NEW i \in Ids, Found(i)
                 PROVE  rows[i] \in Row /\ rows[i] # NoUser /\ ~Erased(rows[i])
BY DEF Found

-----------------------------------------------------------------------------
\* What holds besides, for any number of processes.
Steady == TypeOK /\ OneCrew /\ CountsAll /\ CodesOnce /\ ClaimsCleared /\ ReportsDealtWith
Calm   == OnlyAdmits(offer) /\ Alone

\* A step of process w takes it to something it may count on.
MovesTo(w, next) ==
  /\ w \in offer.crew
  /\ next \in Process
  /\ proc' = [proc EXCEPT ![w] = next]
  /\ Counts(next, rows', cleared', seen', invited', lastCode')
  /\ NoneWiped /\ Cardinality(offer.crew) = 1 => Unwiped(next, rows')
  /\ NoneWiped /\ Admits /\ Calm => Unhindered(next, rows')

LEMMA AtWork == ASSUME OneCrew, NEW w \in Workers, proc[w].at # "free" PROVE w \in offer.crew
BY DEF OneCrew

LEMMA FreeMoves ==
  ASSUME NEW w \in Workers, w \in offer.crew, Done(w) PROVE MovesTo(w, Free)
<1>1. Free.at = "free" /\ Free \in Process BY DEF Free, Process
<1> QED BY <1>1 DEF Done, Goto, MovesTo, Counts, Unwiped, Unhindered

LEMMA LogInMoves ==
  ASSUME Steady, NEW w \in Workers, NEW p \in Persons, LogIn(w, p)
  PROVE  \E next : MovesTo(w, next) /\ next.at \in {"approve", "apply"} /\ (next.at = "apply" => ~next.new)
<1> USE DEF Steady, TypeOK
<1>1. w \in offer.crew /\ UNCHANGED <<offer, rows, cleared, seen, invited, lastCode, provider>>
  BY DEF LogIn, Taking, people, past
<1>2. PICK c : c = [person |-> p, mail |-> provider[p].mail, super |-> provider[p].super] OBVIOUS
<1>3. c \in Claims /\ c.person = p /\ c.mail = provider[p].mail /\ c.mail \in Emails
  BY <1>2 DEF LogIn, Served, Claims, Profile
<1>4. PICK found \in SUBSET Ids : found = ByExt(p) \cup ByMail(c.mail) BY DEF ByExt, ByMail
<1>5. CASE found = {} /\ Goto(w, [at |-> "approve", claims |-> c, way |-> "login"])
  <2> DEFINE next == [at |-> "approve", claims |-> c, way |-> "login"]
  <2>1. next \in Process /\ next.at = "approve" /\ next.claims = c BY <1>3 DEF Process, Entering, Ways
  <2>2. proc' = [proc EXCEPT ![w] = next] BY <1>5 DEF Goto
  <2> HIDE DEF next
  <2>3. Counts(next, rows', cleared', seen', invited', lastCode') /\ Unwiped(next, rows') BY <2>1 DEF Counts, Unwiped
  <2>4. Admits /\ Calm => Unhindered(next, rows')
    <3> SUFFICES ASSUME Admits, Calm, NEW j \in Ids, rows[j] # NoUser PROVE rows[j].mail # c.mail /\ rows[j].ext # c.person
      BY <1>1, <2>1 DEF Unhindered, Unknown
    <3>1. CASE Erased(rows[j]) BY <1>3, <3>1, AccountsAssumption DEF Admits, Calm
    <3>2. CASE ~Erased(rows[j]) BY <1>3, <1>4, <1>5, <3>2 DEF Found, ByMail, ByExt
    <3> QED BY <3>1, <3>2
  <2> QED BY <1>1, <2>1, <2>2, <2>3, <2>4 DEF MovesTo
<1>6. ASSUME NEW i \in found, Goto(w, [at |-> "apply", claims |-> c, way |-> "login", new |-> FALSE, id |-> i, row |-> rows[i]])
      PROVE  \E next : MovesTo(w, next) /\ next.at = "apply" /\ ~next.new
  <2> DEFINE next == [at |-> "apply", claims |-> c, way |-> "login", new |-> FALSE, id |-> i, row |-> rows[i]]
  <2>1. i \in Ids /\ Found(i) BY <1>4 DEF ByExt, ByMail
  <2>2. rows[i] \in Row /\ rows[i] # NoUser /\ ~Erased(rows[i]) BY <2>1, FoundIs
  <2>3. next \in Process /\ next.at = "apply" /\ next.id = i /\ next.row = rows[i] /\ next.new = FALSE
    BY <1>3, <2>1, <2>2 DEF Process, Making, Ways
  <2>4. proc' = [proc EXCEPT ![w] = next] BY <1>6 DEF Goto
  <2> HIDE DEF next
  <2>5. Counts(next, rows', cleared', seen', invited', lastCode') /\ Unwiped(next, rows')
    BY <1>1, <2>2, <2>3 DEF Counts, Unwiped, Erased
  <2>6. Unhindered(next, rows') BY <1>1, <2>2, <2>3 DEF Unhindered
  <2> QED BY <1>1, <2>3, <2>4, <2>5, <2>6 DEF MovesTo
<1>7. \/ found = {} /\ Goto(w, [at |-> "approve", claims |-> c, way |-> "login"])
      \/ \E i \in found : Goto(w, [at |-> "apply", claims |-> c, way |-> "login", new |-> FALSE, id |-> i, row |-> rows[i]])
  BY <1>2, <1>4 DEF LogIn
<1> QED BY <1>5, <1>6, <1>7

LEMMA OnboardMoves ==
  ASSUME Steady, NEW w \in Workers, NEW p \in Persons, Onboard(w, p)
  PROVE  \E next : MovesTo(w, next) /\ next.at \in {"create", "apply"} /\ next.way = "onboarding"
<1> USE DEF Steady, TypeOK
<1>1. w \in offer.crew /\ UNCHANGED <<offer, rows, cleared, seen, invited, lastCode, provider>>
  BY DEF Onboard, Taking, people, past
<1>2. PICK c : c = session[p].claims OBVIOUS
<1>3. c \in Claims /\ c.mail \in cleared BY <1>2 DEF Onboard, Session, ClaimsCleared
<1>4. CASE Goto(w, [at |-> "create", claims |-> c, way |-> "onboarding"])
  <2> DEFINE next == [at |-> "create", claims |-> c, way |-> "onboarding"]
  <2>1. next \in Process /\ next.at = "create" /\ next.claims = c /\ next.way = "onboarding"
    BY <1>3 DEF Process, Entering, Ways
  <2>2. proc' = [proc EXCEPT ![w] = next] BY <1>4 DEF Goto
  <2> HIDE DEF next
  <2>3. Counts(next, rows', cleared', seen', invited', lastCode') /\ Unwiped(next, rows') /\ Unhindered(next, rows')
    BY <1>1, <1>3, <2>1 DEF Counts, Unwiped, Unhindered
  <2> QED BY <1>1, <2>1, <2>2, <2>3 DEF MovesTo
<1>5. ASSUME NEW i \in ByMail(c.mail),
             Goto(w, [at |-> "apply", claims |-> c, way |-> "onboarding", new |-> FALSE, id |-> i, row |-> rows[i]])
      PROVE  \E next : MovesTo(w, next) /\ next.at = "apply" /\ next.way = "onboarding"
  <2> DEFINE next == [at |-> "apply", claims |-> c, way |-> "onboarding", new |-> FALSE, id |-> i, row |-> rows[i]]
  <2>1. i \in Ids /\ Found(i) BY DEF ByMail
  <2>2. rows[i] \in Row /\ rows[i] # NoUser /\ ~Erased(rows[i]) BY <2>1, FoundIs
  <2>3. next \in Process /\ next.at = "apply" /\ next.id = i /\ next.row = rows[i] /\ next.way = "onboarding"
    BY <1>3, <2>1, <2>2 DEF Process, Making, Ways
  <2>4. proc' = [proc EXCEPT ![w] = next] BY <1>5 DEF Goto
  <2> HIDE DEF next
  <2>5. Counts(next, rows', cleared', seen', invited', lastCode') /\ Unwiped(next, rows') /\ Unhindered(next, rows')
    BY <1>1, <2>2, <2>3 DEF Counts, Unwiped, Unhindered, Erased
  <2> QED BY <1>1, <2>3, <2>4, <2>5 DEF MovesTo
<1>6. \/ Goto(w, [at |-> "create", claims |-> c, way |-> "onboarding"])
      \/ \E i \in ByMail(c.mail) :
           Goto(w, [at |-> "apply", claims |-> c, way |-> "onboarding", new |-> FALSE, id |-> i, row |-> rows[i]])
  BY <1>2 DEF Onboard
<1> QED BY <1>4, <1>5, <1>6

\* Handlers that read a row, to write it back.
LEMMA SaveMoves ==
  ASSUME Steady, NEW w \in Workers, w \in offer.crew, NEW i \in Ids, Found(i), NEW person \in Persons \cup {Noone}, NEW out \in BOOLEAN,
         NEW row \in Row, Goto(w, [at |-> "save", person |-> person, out |-> out, id |-> i, row |-> row]), rows' = rows
  PROVE  \E next : MovesTo(w, next) /\ next.at = "save"
<1> DEFINE next == [at |-> "save", person |-> person, out |-> out, id |-> i, row |-> row]
<1>1. rows[i] # NoUser /\ ~Erased(rows[i]) BY FoundIs DEF Steady, TypeOK
<1>2. next \in Process /\ next.at = "save" /\ next.id = i BY DEF Process, Saving
<1>3. proc' = [proc EXCEPT ![w] = next] BY DEF Goto
<1> HIDE DEF next
<1>4. Counts(next, rows', cleared', seen', invited', lastCode') /\ Unwiped(next, rows') /\ Unhindered(next, rows')
  BY <1>1, <1>2 DEF Counts, Unwiped, Unhindered, Erased
<1> QED BY <1>2, <1>3, <1>4 DEF MovesTo

LEMMA ChangeMoves ==
  ASSUME Steady, NEW w \in Workers, NEW p \in Persons, NEW i \in Ids, NEW kind \in Changes, Change(w, p, i, kind)
  PROVE  \E next : MovesTo(w, next) /\ next.at = "save"
<1> USE DEF Steady, TypeOK
<1>1. w \in offer.crew /\ Found(i) /\ rows' = rows BY DEF Change, Taking, people
<1>2. PICK j \in Ids : /\ ActsAs(p, j)
                      /\ \E row \in Written(kind, j, i) :
                           Goto(w, [at |-> "save", person |-> p, out |-> ~rows[j].active, id |-> i, row |-> row])
  BY DEF Change
<1>20. PICK row \in Written(kind, j, i) :
         Goto(w, [at |-> "save", person |-> p, out |-> ~rows[j].active, id |-> i, row |-> row])
  BY <1>2
<1>3. rows[i] \in Row /\ rows[j] \in Row BY <1>1, <1>2, FoundIs DEF ActsAs
<1>4. row \in Row
  <2>1. /\ ToggleBan(j, i) \subseteq Row /\ ToggleRole(j, i) \subseteq Row /\ ToggleLeave(j, i) \subseteq Row
        /\ DeleteUser(j, i) \subseteq Row /\ EditName(j, i) \subseteq Row
    <3>2. /\ [rows[i] EXCEPT !.active = ~@] \in Row /\ [rows[i] EXCEPT !.admin = ~@] \in Row
          /\ [rows[i] EXCEPT !.leave = ~@] \in Row
      BY <1>3, Toggled
    <3>3. Wiped(rows[i]) \in Row /\ [rows[i] EXCEPT !.erased = FALSE] \in Row BY <1>3, RowParts
    <3>4. ToggleBan(j, i) \subseteq {[rows[i] EXCEPT !.active = ~@]} BY DEF ToggleBan, Unless
    <3>5. ToggleRole(j, i) \subseteq {[rows[i] EXCEPT !.admin = ~@]} BY DEF ToggleRole, Unless
    <3>6. ToggleLeave(j, i) \subseteq {[rows[i] EXCEPT !.leave = ~@]} BY DEF ToggleLeave, Unless
    <3>7. DeleteUser(j, i) \subseteq {Wiped(rows[i])} BY DEF DeleteUser, Unless
    <3>8. EditName(j, i) \subseteq {[rows[i] EXCEPT !.erased = FALSE]} BY DEF EditName, Unless
    <3> QED BY <3>2, <3>3, <3>4, <3>5, <3>6, <3>7, <3>8
  <2>2. AnswerLeave(j, i) \subseteq Row
    <3>1. Wiped(rows[i]) \in Row /\ [rows[i] EXCEPT !.leave = FALSE] \in Row BY <1>3, RowParts
    <3>2. \A r \in {Wiped(rows[i]), [rows[i] EXCEPT !.leave = FALSE]} : r \in Row BY <3>1
    <3> QED BY <3>2 DEF AnswerLeave, Unless
  <2> QED BY <1>20, <2>1, <2>2 DEF Written, Changes
<1>5. PICK out \in BOOLEAN : out = ~rows[j].active OBVIOUS
<1> QED BY <1>1, <1>20, <1>4, <1>5, SaveMoves

LEMMA ExternalMoves ==
  ASSUME Steady, NEW w \in Workers, NEW i \in Ids, External(w, i)
  PROVE  \E next : MovesTo(w, next) /\ next.at = "save"
<1> USE DEF Steady, TypeOK
<1>1. w \in offer.crew /\ Found(i) /\ rows' = rows BY DEF External, Taking, people
<1>2. PICK row \in UNION ({SyncEdit(i, m) : m \in Emails} \cup {SyncBan(i), SyncUnban(i), SyncDelete(i), ServiceBan(i)}) :
        Goto(w, [at |-> "save", person |-> Noone, out |-> FALSE, id |-> i, row |-> row])
  BY DEF External
<1>3. rows[i] \in Row BY <1>1, FoundIs
<1>4. row \in Row
  <2>1. SyncBan(i) \subseteq Row /\ SyncUnban(i) \subseteq Row /\ SyncDelete(i) \subseteq Row
    BY <1>3, RowParts DEF SyncBan, SyncUnban, SyncDelete
  <2>2. ServiceBan(i) \subseteq Row BY <1>3, RowParts DEF ServiceBan, Unless
  <2>3. \A m \in Emails : SyncEdit(i, m) \subseteq Row BY <1>3 DEF SyncEdit, Unless, Row
  <2>4. row \in SyncBan(i) \/ row \in SyncUnban(i) \/ row \in SyncDelete(i) \/ row \in ServiceBan(i)
        \/ \E m \in Emails : row \in SyncEdit(i, m)
    BY <1>2
  <2> QED BY <2>1, <2>2, <2>3, <2>4
<1> QED BY <1>1, <1>2, <1>4, SaveMoves

LEMMA FetchMoves ==
  ASSUME Steady, NEW w \in Workers, NEW i \in Ids, Fetch(w, i)
  PROVE  \E next : MovesTo(w, next) /\ next.at = "fetch"
<1> USE DEF Steady, TypeOK
<1>1. w \in offer.crew /\ Found(i) /\ rows[i].ext # Noone /\ rows' = rows BY DEF Fetch, Taking, people
<1>2. rows[i] \in Row /\ rows[i] # NoUser /\ ~Erased(rows[i]) BY <1>1, FoundIs
<1> DEFINE next == [at |-> "fetch", id |-> i, row |-> rows[i]]
<1>3. next \in Process /\ next.at = "fetch" /\ next.id = i /\ next.row = rows[i] BY <1>2 DEF Process, Fetching
<1>4. proc' = [proc EXCEPT ![w] = next] BY DEF Fetch, Goto
<1> HIDE DEF next
<1>5. Counts(next, rows', cleared', seen', invited', lastCode') /\ Unwiped(next, rows') /\ Unhindered(next, rows')
  BY <1>1, <1>2, <1>3 DEF Counts, Unwiped, Unhindered, Erased
<1> QED BY <1>1, <1>3, <1>4, <1>5 DEF MovesTo

LEMMA EditUsersMoves ==
  ASSUME Steady, NEW w \in Workers, NEW p \in Persons, NEW chosen \in SUBSET Ids, NEW active \in BOOLEAN, EditUsers(w, p, chosen, active)
  PROVE  \E next : MovesTo(w, next) /\ next.at = "loop"
<1> USE DEF Steady, TypeOK
<1>1. /\ w \in offer.crew /\ rows' = rows /\ chosen # {} /\ \A i \in chosen : Found(i)
  BY DEF EditUsers, Taking, people
<1>2. PICK j \in Ids :
        /\ ActsAs(p, j)
        /\ Goto(w, [at |-> "loop", person |-> p, out |-> ~rows[j].active,
                    rows |-> [i \in Ids |-> IF i \in chosen THEN [rows[i] EXCEPT !.active = active] ELSE NoUser],
                    left |-> chosen, rounds |-> Cardinality(chosen)])
  BY DEF EditUsers
<1>3. PICK out \in BOOLEAN : out = ~rows[j].active OBVIOUS
<1>4. PICK copies : copies = [i \in Ids |-> IF i \in chosen THEN [rows[i] EXCEPT !.active = active] ELSE NoUser]
  OBVIOUS
<1>5. \A i \in chosen : rows[i] \in Row /\ rows[i] # NoUser /\ ~Erased(rows[i]) BY <1>1, FoundIs
<1>6. /\ copies \in [Ids -> Row \cup {NoUser}]
      /\ \A i \in Ids : copies[i] # NoUser <=> i \in chosen
  BY <1>5, RowParts, <1>4, Kinds
<1>7. Cardinality(chosen) \in Nat /\ Cardinality(chosen) # 0
  <2>1. IsFiniteSet(chosen) BY AccountsAssumption, FS_Subset
  <2> QED BY <1>1, <2>1, FS_CardinalityType, FS_EmptySet
<1>8. PICK rounds \in Nat : rounds = Cardinality(chosen) /\ rounds # 0 BY <1>7
<1> DEFINE next == [at |-> "loop", person |-> p, out |-> out, rows |-> copies, left |-> chosen, rounds |-> rounds]
<1>9. /\ next \in Process /\ next.at = "loop" /\ next.rows = copies /\ next.left = chosen /\ next.rounds = rounds
  BY <1>6 DEF Process, Looping
<1>10. proc' = [proc EXCEPT ![w] = next] BY <1>2, <1>3, <1>4, <1>8 DEF Goto
<1> HIDE DEF next
<1>11. Counts(next, rows', cleared', seen', invited', lastCode') BY <1>1, <1>5, <1>6, <1>8, <1>9 DEF Counts
<1>12. Unwiped(next, rows') /\ Unhindered(next, rows') BY <1>1, <1>5, <1>6, <1>9 DEF Unwiped, Unhindered, Erased
<1> QED BY <1>1, <1>9, <1>10, <1>11, <1>12 DEF MovesTo

LEMMA StartJobMoves ==
  ASSUME Steady, NEW w \in Workers, NEW j \in Jobs, StartJob(w, j)
  PROVE  \E next : MovesTo(w, next) /\ next.at = "job"
<1> USE DEF Steady, TypeOK
<1>1. w \in offer.crew /\ UNCHANGED <<rows, seen>> /\ cursor[j] \in Nat /\ feed[j] \in Nat
  BY DEF StartJob, people, past
<1> DEFINE next == [at |-> "job", job |-> j, next |-> cursor[j] + 1, upto |-> feed[j]]
<1>2. next \in Process /\ next.at = "job" /\ next.job = j /\ next.next = cursor[j] + 1 BY <1>1 DEF Process, Running
<1>3. proc' = [proc EXCEPT ![w] = next] BY DEF StartJob, Goto
<1>4. next.next # 0 /\ next.next - 1 = cursor[j] BY <1>1
<1> HIDE DEF next
<1>5. Counts(next, rows', cleared', seen', invited', lastCode') /\ Unwiped(next, rows') /\ Unhindered(next, rows')
  BY <1>1, <1>2, <1>4 DEF Counts, Unwiped, Unhindered, ReportsDealtWith
<1> QED BY <1>1, <1>2, <1>3, <1>5 DEF MovesTo

-----------------------------------------------------------------------------
\* What process w holds now.
LEMMA Holds ==
  ASSUME Steady, NEW w \in Workers, proc[w].at # "free"
  PROVE  /\ w \in offer.crew /\ proc[w] \in Process /\ Counts(proc[w], rows, cleared, seen, invited, lastCode)
         /\ NoneWiped /\ Cardinality(offer.crew) = 1 => Unwiped(proc[w], rows)
         /\ Admits /\ Calm => Unhindered(proc[w], rows)
BY AtWork DEF Steady, TypeOK, CountsAll, NoneWiped, Admits, Calm

LEMMA ApproveMoves ==
  ASSUME Steady, NEW w \in Workers, Approve(w)
  PROVE  \E next : /\ MovesTo(w, next) /\ next.at \in {"enter", "consume", "free"}
                   /\ next.at = "enter" => /\ Cleared(proc[w].claims) /\ next.claims = proc[w].claims
                                           /\ cleared' = cleared \cup {proc[w].claims.mail}
                   /\ next.at = "consume" => next.claims = proc[w].claims /\ \E n \in Emails : invited[n].code = next.code
<1> USE DEF Steady, TypeOK
<1>1. /\ proc[w].at = "approve" /\ w \in offer.crew /\ proc[w] \in Entering /\ UNCHANGED <<rows, seen, lastCode>>
      /\ Admits /\ Calm => Unknown(proc[w].claims, {}, rows)
  BY Holds, ProcessAt DEF Approve, At, Unhindered
<1>2. PICK c \in Claims : c = proc[w].claims BY <1>1 DEF Entering
<1>3. PICK code \in Codes \cup {NoCode} : code = session[c.person].code BY <1>2 DEF Claims, Session
<1>4. CASE Cleared(c) /\ cleared' = cleared \cup {c.mail} /\ Goto(w, [proc[w] EXCEPT !.at = "enter"])
  <2> DEFINE next == [proc[w] EXCEPT !.at = "enter"]
  <2>1. next \in Process /\ next.at = "enter" /\ next.claims = c BY <1>1, <1>2 DEF Process, Entering
  <2>2. proc' = [proc EXCEPT ![w] = next] BY <1>4 DEF Goto
  <2> HIDE DEF next
  <2>3. Counts(next, rows', cleared', seen', invited', lastCode') /\ Unwiped(next, rows')
    BY <1>4, <2>1 DEF Counts, Unwiped
  <2>4. Admits /\ Calm => Unhindered(next, rows') BY <1>1, <1>2, <2>1 DEF Unhindered
  <2> QED BY <1>1, <1>2, <1>4, <2>1, <2>2, <2>3, <2>4 DEF MovesTo
<1>5. ASSUME NEW n \in Emails, code # NoCode, invited[n].code = code, UNCHANGED invited,
             Goto(w, [at |-> "consume", claims |-> c, way |-> "login", code |-> code, pk |-> invited[n].pk])
      PROVE  \E next : /\ MovesTo(w, next) /\ next.at = "consume" /\ next.claims = c
                       /\ \E m \in Emails : invited[m].code = next.code
  <2> DEFINE next == [at |-> "consume", claims |-> c, way |-> "login", code |-> code, pk |-> invited[n].pk]
  <2>1. invited[n] \in Invitation
    BY <1>5 DEF NoInvitation
  <2>2. invited[n].pk \in Codes /\ code \in Codes BY <1>5, <2>1 DEF Invitation
  <2>3. next \in Process /\ next.at = "consume" /\ next.claims = c /\ next.code = code /\ next.pk = invited[n].pk
    BY <2>2 DEF Process, Inviting
  <2>4. proc' = [proc EXCEPT ![w] = next] BY <1>5 DEF Goto
  <2> HIDE DEF next
  <2>5. Counts(next, rows', cleared', seen', invited', lastCode') /\ Unwiped(next, rows')
    BY <1>1, <1>5, <2>3 DEF Counts, Unwiped, CodesOnce
  <2>6. Admits /\ Calm => Unhindered(next, rows') BY <1>1, <1>2, <2>3 DEF Unhindered
  <2> QED BY <1>1, <1>5, <2>3, <2>4, <2>5, <2>6 DEF MovesTo
<1>6. CASE Done(w) BY <1>1, <1>6, FreeMoves DEF Free
<1>7. \/ Cleared(c) /\ cleared' = cleared \cup {c.mail} /\ Goto(w, [proc[w] EXCEPT !.at = "enter"])
      \/ \E n \in Emails :
           /\ code # NoCode /\ invited[n].code = code /\ UNCHANGED invited
           /\ Goto(w, [at |-> "consume", claims |-> c, way |-> "login", code |-> code, pk |-> invited[n].pk])
      \/ Done(w)
  BY <1>2, <1>3 DEF Approve
<1> QED BY <1>2, <1>4, <1>5, <1>6, <1>7

LEMMA ConsumeMoves ==
  ASSUME Steady, NEW w \in Workers, Consume(w)
  PROVE  \E next : /\ MovesTo(w, next) /\ next.at = "enter" /\ next.claims = proc[w].claims
                   /\ cleared' = cleared \cup {proc[w].claims.mail}
<1> USE DEF Steady, TypeOK
<1>1. /\ proc[w].at = "consume" /\ w \in offer.crew /\ proc[w] \in Inviting /\ UNCHANGED <<rows, seen, lastCode>>
      /\ Admits /\ Calm => Unknown(proc[w].claims, {}, rows)
  BY Holds, ProcessAt DEF Consume, At, Unhindered
<1>2. PICK c \in Claims : c = proc[w].claims BY <1>1 DEF Inviting
<1> DEFINE next == [at |-> "enter", claims |-> c, way |-> "login"]
<1>3. next \in Process /\ next.at = "enter" /\ next.claims = c BY <1>2 DEF Process, Entering, Ways
<1>4. proc' = [proc EXCEPT ![w] = next] /\ cleared' = cleared \cup {c.mail} BY <1>2 DEF Goto, Consume
<1> HIDE DEF next
<1>5. Counts(next, rows', cleared', seen', invited', lastCode') /\ Unwiped(next, rows')
  BY <1>3, <1>4 DEF Counts, Unwiped
<1>6. Admits /\ Calm => Unhindered(next, rows') BY <1>1, <1>2, <1>3 DEF Unhindered
<1> QED BY <1>1, <1>2, <1>3, <1>4, <1>5, <1>6 DEF MovesTo

LEMMA EnterMoves ==
  ASSUME Steady, NEW w \in Workers, Enter(w)
  PROVE  \E next : /\ MovesTo(w, next) /\ next.at \in {"create", "free"}
                   /\ next.at = "create" => next.claims = proc[w].claims /\ next.way = proc[w].way
                   /\ next.at = "free" => session' = [session EXCEPT ![proc[w].claims.person].claims = proc[w].claims]
<1> USE DEF Steady, TypeOK
<1>1. /\ proc[w].at = "enter" /\ w \in offer.crew /\ proc[w] \in Entering /\ UNCHANGED <<rows, seen, lastCode, cleared>>
      /\ Admits /\ Calm => Unknown(proc[w].claims, {}, rows)
      /\ proc[w].claims.mail \in cleared
  BY Holds, ProcessAt DEF Enter, At, Unhindered, past, Counts
<1>2. CASE Done(w) /\ session' = [session EXCEPT ![proc[w].claims.person].claims = proc[w].claims]
  BY <1>1, <1>2, FreeMoves DEF Free
<1>3. CASE Goto(w, [proc[w] EXCEPT !.at = "create"])
  <2> DEFINE next == [proc[w] EXCEPT !.at = "create"]
  <2>1. next \in Process /\ next.at = "create" /\ next.claims = proc[w].claims /\ next.way = proc[w].way
    BY <1>1 DEF Entering, Ways, Process
  <2>2. proc' = [proc EXCEPT ![w] = next] BY <1>3 DEF Goto
  <2> HIDE DEF next
  <2>3. Counts(next, rows', cleared', seen', invited', lastCode') /\ Unwiped(next, rows')
    BY <1>1, <2>1 DEF Counts, Unwiped
  <2>4. Admits /\ Calm => Unhindered(next, rows') BY <1>1, <2>1 DEF Unhindered
  <2> QED BY <1>1, <2>1, <2>2, <2>3, <2>4 DEF MovesTo
<1> QED BY <1>2, <1>3 DEF Enter

LEMMA CreateMoves ==
  ASSUME Steady, NEW w \in Workers, Create(w)
  PROVE  \E next :
           /\ MovesTo(w, next)
           /\ \/ next.at = "free" /\ rows' = rows /\ Taken(0, NewRow(proc[w].claims.mail))
              \/ /\ next.at = "forget" /\ next.claims = proc[w].claims /\ next.way = proc[w].way /\ next.new
                 /\ \E i \in FreeIds : rows' = [rows EXCEPT ![i] = NewRow(proc[w].claims.mail)]
<1> USE DEF Steady, TypeOK
<1>1. /\ proc[w].at = "create" /\ w \in offer.crew /\ proc[w] \in Entering
      /\ Admits /\ Calm /\ proc[w].way = "login" => Unknown(proc[w].claims, {}, rows)
      /\ proc[w].claims.mail \in cleared
  BY Holds, ProcessAt DEF Create, At, Unhindered, Counts
<1>2. PICK c \in Claims : c = proc[w].claims BY <1>1 DEF Entering
<1>3. PICK way \in Ways : way = proc[w].way BY <1>1 DEF Entering
<1>4. CASE Done(w) /\ rows' = rows /\ Taken(0, NewRow(c.mail))
  BY <1>1, <1>4, FreeMoves, <1>2 DEF Free
<1>5. ASSUME NEW i \in FreeIds, rows' = [rows EXCEPT ![i] = NewRow(c.mail)],
             Goto(w, [at |-> "forget", claims |-> c, way |-> way, new |-> TRUE, id |-> i, row |-> NewRow(c.mail)])
      PROVE  \E next : MovesTo(w, next) /\ next.at = "forget" /\ next.claims = c /\ next.way = way /\ next.new
  <2> DEFINE next == [at |-> "forget", claims |-> c, way |-> way, new |-> TRUE, id |-> i, row |-> NewRow(c.mail)]
  <2>1. c.mail \in Emails /\ i \in Ids BY DEF Claims, FreeIds
  <2>2. NewRow(c.mail) \in Row /\ NewRow(c.mail) # NoUser /\ ~Erased(NewRow(c.mail)) BY <2>1, NewRowIs, Kinds
  <2>3. /\ next \in Process /\ next.at = "forget" /\ next.claims = c /\ next.way = way /\ next.new = TRUE /\ next.id = i
        /\ next.row = NewRow(c.mail)
    BY <2>1, <2>2 DEF Process, Making
  <2>4. proc' = [proc EXCEPT ![w] = next] BY <1>5 DEF Goto
  <2> HIDE DEF next
  <2>5. rows'[i] = NewRow(c.mail) /\ \A j \in Ids \ {i} : rows'[j] = rows[j] BY <1>5, <2>1
  <2>6. Counts(next, rows', cleared', seen', invited', lastCode') /\ Unwiped(next, rows')
    BY <2>2, <2>3, <2>5 DEF Counts, Unwiped, Erased
  <2>7. Admits /\ Calm => Unhindered(next, rows') BY <1>1, <1>2, <1>3, <2>3, <2>5 DEF Unhindered, Unknown
  <2> QED BY <1>1, <2>3, <2>4, <2>6, <2>7 DEF MovesTo
<1>6. \/ Done(w) /\ rows' = rows /\ Taken(0, NewRow(c.mail))
      \/ \E i \in FreeIds :
           /\ rows' = [rows EXCEPT ![i] = NewRow(c.mail)]
           /\ Goto(w, [at |-> "forget", claims |-> c, way |-> way, new |-> TRUE, id |-> i, row |-> NewRow(c.mail)])
  BY <1>2, <1>3 DEF Create
<1> QED BY <1>2, <1>3, <1>4, <1>5, <1>6

LEMMA ForgetMoves ==
  ASSUME Steady, NEW w \in Workers, Forget(w)
  PROVE  \E next : /\ MovesTo(w, next) /\ next.at = "apply"
                   /\ next.claims = proc[w].claims /\ next.way = proc[w].way /\ next.new = proc[w].new
<1> USE DEF Steady, TypeOK
<1>1. /\ proc[w].at = "forget" /\ w \in offer.crew /\ proc[w] \in Making /\ UNCHANGED <<offer, rows>>
      /\ Counts(proc[w], rows, cleared, seen, invited, lastCode)
      /\ NoneWiped /\ Cardinality(offer.crew) = 1 => Unwiped(proc[w], rows)
      /\ Admits /\ Calm => Unhindered(proc[w], rows)
  BY Holds, ProcessAt DEF Forget, At
<1> DEFINE next == [proc[w] EXCEPT !.at = "apply"]
<1>2. /\ next \in Process /\ next.at = "apply" /\ next.claims = proc[w].claims /\ next.way = proc[w].way
      /\ next.new = proc[w].new /\ next.id = proc[w].id /\ next.row = proc[w].row
  BY <1>1 DEF Process, Making
<1>3. proc' = [proc EXCEPT ![w] = next] BY DEF Forget, Goto
<1> HIDE DEF next
<1>4. Counts(next, rows', cleared', seen', invited', lastCode') BY <1>1, <1>2 DEF Counts
<1>5. NoneWiped /\ Cardinality(offer.crew) = 1 => Unwiped(next, rows')
  BY <1>1, <1>2 DEF Unwiped, Erased
<1>6. Admits /\ Calm => Unhindered(next, rows') BY <1>1, <1>2 DEF Unhindered
<1> QED BY <1>1, <1>2, <1>3, <1>4, <1>5, <1>6 DEF MovesTo

LEMMA UpdatedIs ==
  ASSUME NEW row \in Row, NEW c \in Claims, NEW lifts \in BOOLEAN
  PROVE  /\ Updated(row, c, lifts) \in Row /\ Updated(row, c, lifts).mail = c.mail /\ Updated(row, c, lifts).ext = c.person
         /\ Updated(row, c, lifts).erased = row.erased /\ (row.active => Updated(row, c, lifts).active)
<1> DEFINE new == Applied(row, c)
<1>1. new \in Row /\ new.mail = c.mail /\ new.ext = c.person /\ new.active = row.active /\ new.erased = row.erased
  BY DEF Applied, Row, Claims
<1>2. Updated(row, c, lifts) = [new EXCEPT !.active = @ \/ (lifts /\ c.super)] BY DEF Updated
<1> HIDE DEF new
<1>3. PICK b \in BOOLEAN : b = (new.active \/ (lifts /\ c.super)) OBVIOUS
<1>4. Updated(row, c, lifts) = [new EXCEPT !.active = b] /\ (row.active => b) BY <1>1, <1>2, <1>3
<1> QED BY <1>1, <1>4 DEF Row

\* The row process w would write.
Written1(w) == Updated(proc[w].row, proc[w].claims, proc[w].way = "login" /\ ~proc[w].new)
LEMMA ApplyMoves ==
  ASSUME Steady, NEW w \in Workers, Apply(w)
  PROVE  /\ Written1(w) \in Row /\ proc[w] \in Making
         /\ \E next : /\ MovesTo(w, next) /\ next.at \in {"tidy", "free"}
         /\ \/ rows' = rows /\ session' = session /\ joined' = joined /\ Taken(proc[w].id, Written1(w))
            \/ rows' = [rows EXCEPT ![proc[w].id] = Written1(w)]
<1> USE DEF Steady, TypeOK
<1>1. /\ proc[w].at = "apply" /\ w \in offer.crew /\ proc[w] \in Making BY Holds, ProcessAt DEF Apply, At
<1>2. PICK lifts \in BOOLEAN : lifts = (proc[w].way = "login" /\ ~proc[w].new) OBVIOUS
<1>3. PICK row : row = Written1(w) OBVIOUS
<1>4. row \in Row /\ row # NoUser /\ proc[w].id \in Ids BY <1>1, <1>2, <1>3, UpdatedIs, Kinds DEF Making, Written1
<1>5. \/ rows' = rows /\ session' = session /\ joined' = joined /\ Taken(proc[w].id, row) /\ Done(w)
      \/ /\ rows' = [rows EXCEPT ![proc[w].id] = row]
         /\ Goto(w, [proc[w] EXCEPT !.at = "tidy", !.row = row]) \/ Done(w)
  BY <1>3 DEF Apply, Written1
<1>6. CASE Done(w)
  BY <1>1, <1>6, FreeMoves, <1>3, <1>4, <1>5 DEF Free
<1>7. CASE rows' = [rows EXCEPT ![proc[w].id] = row] /\ Goto(w, [proc[w] EXCEPT !.at = "tidy", !.row = row])
  <2> DEFINE next == [proc[w] EXCEPT !.at = "tidy", !.row = row]
  <2>1. next \in Process /\ next.at = "tidy" /\ next.id = proc[w].id BY <1>1, <1>4 DEF Process, Making
  <2>2. proc' = [proc EXCEPT ![w] = next] BY <1>7 DEF Goto
  <2> HIDE DEF next
  <2>3. Counts(next, rows', cleared', seen', invited', lastCode') /\ Unwiped(next, rows') /\ Unhindered(next, rows')
    BY <1>4, <1>7, <2>1 DEF Counts, Unwiped, Unhindered
  <2> QED BY <1>1, <1>3, <1>4, <1>7, <2>1, <2>2, <2>3 DEF MovesTo
<1> QED BY <1>5, <1>6, <1>7

LEMMA TidyMoves == ASSUME Steady, NEW w \in Workers, Tidy(w) PROVE MovesTo(w, Free)
BY Holds, FreeMoves DEF Tidy, At

LEMMA CrashMoves == ASSUME Steady, NEW w \in Workers, Crash(w) PROVE MovesTo(w, Free)
BY Holds, FreeMoves DEF Crash, At

LEMMA EndJobMoves == ASSUME Steady, NEW w \in Workers, EndJob(w) PROVE MovesTo(w, Free)
BY Holds, FreeMoves DEF EndJob, At

LEMMA FetchedMoves ==
  ASSUME Steady, NEW w \in Workers, Fetched(w)
  PROVE  \E next : MovesTo(w, next) /\ next.at \in {"save", "free"}
<1> USE DEF Steady, TypeOK
<1>1. /\ proc[w].at = "fetch" /\ w \in offer.crew /\ proc[w] \in Fetching /\ UNCHANGED <<offer, rows>>
      /\ Counts(proc[w], rows, cleared, seen, invited, lastCode)
      /\ NoneWiped /\ Cardinality(offer.crew) = 1 => Unwiped(proc[w], rows)
  BY Holds, ProcessAt DEF Fetched, At, people
<1>2. CASE Done(w) BY <1>1, <1>2, FreeMoves DEF Free
<1>3. ASSUME NEW active \in BOOLEAN, NEW p \in Persons, p = proc[w].row.ext,
             Goto(w, [at |-> "save", person |-> Noone, out |-> FALSE, id |-> proc[w].id,
                      row |-> [proc[w].row EXCEPT !.mail = provider[p].mail, !.super = provider[p].super,
                                                  !.erased = FALSE, !.active = active]])
      PROVE  \E next : MovesTo(w, next) /\ next.at = "save"
  <2> DEFINE new == [proc[w].row EXCEPT !.mail = provider[p].mail, !.super = provider[p].super,
                                        !.erased = FALSE, !.active = active]
             next == [at |-> "save", person |-> Noone, out |-> FALSE, id |-> proc[w].id, row |-> new]
  <2>1. new \in Row
    BY <1>1 DEF Fetching, Row, Profile
  <2> HIDE DEF new
  <2>2. next \in Process /\ next.at = "save" /\ next.id = proc[w].id BY <1>1, <2>1 DEF Process, Saving, Fetching
  <2>3. proc' = [proc EXCEPT ![w] = next] BY <1>3 DEF Goto, new
  <2> HIDE DEF next
  <2>4. Counts(next, rows', cleared', seen', invited', lastCode') /\ Unhindered(next, rows')
    BY <1>1, <2>2 DEF Counts, Unhindered
  <2>5. NoneWiped /\ Cardinality(offer.crew) = 1 => Unwiped(next, rows')
    BY <1>1, <2>2 DEF Unwiped, Erased
  <2> QED BY <1>1, <2>2, <2>3, <2>4, <2>5 DEF MovesTo
<1>4. proc[w].row.ext \in Persons
  BY <1>1, RowParts DEF Counts, Fetching
<1>5. proc[w].row.active \in BOOLEAN BY <1>1, RowParts DEF Fetching
<1> QED BY <1>2, <1>3, <1>4, <1>5 DEF Fetched

LEMMA StoreRowMoves ==
  ASSUME Steady, NEW w \in Workers, StoreRow(w)
  PROVE  /\ MovesTo(w, Free) /\ proc[w] \in Saving
         /\ rows' = rows \/ rows' = [rows EXCEPT ![proc[w].id] = proc[w].row]
BY Holds, ProcessAt, FreeMoves DEF StoreRow, At

LEMMA StoreNextMoves ==
  ASSUME Steady, NEW w \in Workers, StoreNext(w)
  PROVE  /\ proc[w] \in Looping
         /\ \E next : MovesTo(w, next) /\ next.at \in {"loop", "free"}
         /\ \E i \in Ids : /\ proc[w].rows[i] \in Row
                           /\ rows' = rows \/ rows' = [rows EXCEPT ![i] = proc[w].rows[i]]
<1> USE DEF Steady, TypeOK
<1>1. /\ proc[w].at = "loop" /\ w \in offer.crew /\ proc[w] \in Looping /\ UNCHANGED offer
      /\ Counts(proc[w], rows, cleared, seen, invited, lastCode)
      /\ NoneWiped /\ Cardinality(offer.crew) = 1 => Unwiped(proc[w], rows)
  BY Holds, ProcessAt DEF StoreNext, At
<1>2. /\ proc[w].rows \in [Ids -> Row \cup {NoUser}] /\ proc[w].left \subseteq Ids /\ proc[w].rounds \in Nat
      /\ proc[w].rounds # 0 /\ \A i \in proc[w].left : proc[w].rows[i] # NoUser
  BY <1>1 DEF Looping, Counts
<1>3. PICK i \in proc[w].left :
        /\ rows' = IF Taken(i, proc[w].rows[i]) THEN rows ELSE [rows EXCEPT ![i] = proc[w].rows[i]]
        /\ \/ Done(w)
           \/ proc[w].left \ {i} # {} /\ Goto(w, [proc[w] EXCEPT !.left = proc[w].left \ {i}])
           \/ /\ proc[w].left \ {i} = {} /\ proc[w].rounds # 1
              /\ Goto(w, [proc[w] EXCEPT !.left = {k \in Ids : proc[w].rows[k] # NoUser}, !.rounds = @ - 1])
  BY DEF StoreNext
<1>4. i \in Ids /\ proc[w].rows[i] \in Row /\ proc[w].rows[i] # NoUser BY <1>2
<1>5. rows' = rows \/ rows' = [rows EXCEPT ![i] = proc[w].rows[i]] BY <1>3
<1>6. ASSUME NEW next \in Looping, proc' = [proc EXCEPT ![w] = next], next.rows = proc[w].rows, next.rounds # 0,
             \A k \in next.left : proc[w].rows[k] # NoUser
      PROVE  MovesTo(w, next) /\ next.at = "loop"
  <2>1. next.at = "loop" /\ next \in Process BY <1>6 DEF Looping, Process
  <2>2. Counts(next, rows', cleared', seen', invited', lastCode') BY <1>1, <1>4, <1>5, <1>6, <2>1 DEF Counts
  <2>3. NoneWiped /\ Cardinality(offer.crew) = 1 => Unwiped(next, rows')
    BY <1>1, <1>4, <1>5, <1>6, <2>1 DEF Unwiped, Erased
  <2>4. Unhindered(next, rows') BY <2>1 DEF Unhindered
  <2> QED BY <1>1, <1>6, <2>1, <2>2, <2>3, <2>4 DEF MovesTo
<1>7. CASE Done(w) BY <1>1, <1>4, <1>5, <1>7, FreeMoves DEF Free
<1>8. CASE Goto(w, [proc[w] EXCEPT !.left = proc[w].left \ {i}])
  <2> DEFINE next == [proc[w] EXCEPT !.left = proc[w].left \ {i}]
  <2>1. next \in Looping /\ next.rows = proc[w].rows /\ next.rounds = proc[w].rounds /\ next.left = proc[w].left \ {i}
    BY <1>1, <1>2 DEF Looping
  <2>2. proc' = [proc EXCEPT ![w] = next] BY <1>8 DEF Goto
  <2> HIDE DEF next
  <2> QED BY <1>1, <1>2, <1>4, <1>5, <1>6, <2>1, <2>2
<1>9. CASE proc[w].rounds # 1 /\ Goto(w, [proc[w] EXCEPT !.left = {k \in Ids : proc[w].rows[k] # NoUser}, !.rounds = @ - 1])
  <2>1. PICK again \in SUBSET Ids : again = {k \in Ids : proc[w].rows[k] # NoUser} OBVIOUS
  <2>2. PICK rounds \in Nat : rounds = proc[w].rounds - 1 /\ rounds # 0 BY <1>2, <1>9
  <2> DEFINE next == [proc[w] EXCEPT !.left = again, !.rounds = rounds]
  <2>3. next \in Looping /\ next.rows = proc[w].rows /\ next.rounds = rounds /\ next.left = again
    BY <1>1, <1>2 DEF Looping
  <2>4. proc' = [proc EXCEPT ![w] = next] BY <1>9, <2>1, <2>2 DEF Goto
  <2> HIDE DEF next
  <2>5. \A k \in next.left : proc[w].rows[k] # NoUser BY <2>1, <2>3
  <2> QED BY <1>1, <1>2, <1>4, <1>5, <1>6, <2>2, <2>3, <2>4, <2>5
<1> QED BY <1>3, <1>7, <1>8, <1>9

LEMMA ReadReportMoves ==
  ASSUME Steady, NEW w \in Workers, ReadReport(w)
  PROVE  \E next : MovesTo(w, next) /\ next.at \in {"job", "report"}
<1> USE DEF Steady, TypeOK
<1>1. /\ proc[w].at = "job" /\ w \in offer.crew /\ proc[w] \in Running /\ UNCHANGED <<offer, rows>>
      /\ Counts(proc[w], rows, cleared, seen, invited, lastCode)
  BY Holds, ProcessAt DEF ReadReport, At, people
<1>2. PICK j \in Jobs, n \in Nat, upto \in Nat : j = proc[w].job /\ n = proc[w].next /\ upto = proc[w].upto
  BY <1>1 DEF Running
<1>3. n # 0 /\ 1..(n - 1) \subseteq seen[j] BY <1>1, <1>2 DEF Counts
<1>4. CASE Goto(w, [proc[w] EXCEPT !.next = @ + 1]) /\ seen' = [seen EXCEPT ![j] = @ \cup {n}]
  <2> DEFINE next == [proc[w] EXCEPT !.next = n + 1]
  <2>1. next \in Process /\ next.at = "job" /\ next.job = j /\ next.next = n + 1 BY <1>1, <1>2 DEF Process, Running
  <2>2. proc' = [proc EXCEPT ![w] = next] BY <1>1, <1>2, <1>4 DEF Goto, Running
  <2> HIDE DEF next
  <2>3. 1..n \subseteq seen'[j] BY <1>3, <1>4
  <2>4. Counts(next, rows', cleared', seen', invited', lastCode') BY <2>1, <2>3 DEF Counts
  <2>5. Unwiped(next, rows') /\ Unhindered(next, rows') BY <2>1 DEF Unwiped, Unhindered
  <2> QED BY <1>1, <2>1, <2>2, <2>4, <2>5 DEF MovesTo
<1>5. ASSUME NEW i \in About(j, n), seen' = seen,
             Goto(w, [at |-> "report", job |-> j, next |-> n, upto |-> upto, id |-> i, row |-> [rows[i] EXCEPT !.active = FALSE]])
      PROVE  \E next : MovesTo(w, next) /\ next.at = "report"
  <2> DEFINE next == [at |-> "report", job |-> j, next |-> n, upto |-> upto, id |-> i, row |-> [rows[i] EXCEPT !.active = FALSE]]
  <2>1. i \in Ids /\ Found(i) BY DEF About, ByMail, ByExt
  <2>2. rows[i] \in Row /\ rows[i] # NoUser /\ ~Erased(rows[i]) /\ [rows[i] EXCEPT !.active = FALSE] \in Row
    BY <2>1, FoundIs, RowParts
  <2>3. next \in Process /\ next.at = "report" /\ next.job = j /\ next.next = n /\ next.id = i
    BY <2>1, <2>2 DEF Process, Banning
  <2>4. proc' = [proc EXCEPT ![w] = next] BY <1>5 DEF Goto
  <2> HIDE DEF next
  <2>5. Counts(next, rows', cleared', seen', invited', lastCode') BY <1>1, <1>3, <1>5, <2>2, <2>3 DEF Counts
  <2>6. Unwiped(next, rows') /\ Unhindered(next, rows') BY <1>1, <2>2, <2>3 DEF Unwiped, Unhindered, Erased
  <2> QED BY <1>1, <2>3, <2>4, <2>5, <2>6 DEF MovesTo
<1>6. \/ Goto(w, [proc[w] EXCEPT !.next = @ + 1]) /\ seen' = [seen EXCEPT ![j] = @ \cup {n}]
      \/ \E i \in About(j, n) :
           /\ seen' = seen
           /\ Goto(w, [at |-> "report", job |-> j, next |-> n, upto |-> upto, id |-> i, row |-> [rows[i] EXCEPT !.active = FALSE]])
  BY <1>2 DEF ReadReport
<1> QED BY <1>4, <1>5, <1>6

LEMMA BanReportedMoves ==
  ASSUME Steady, NEW w \in Workers, BanReported(w)
  PROVE  /\ proc[w] \in Banning
         /\ \E next : MovesTo(w, next) /\ next.at \in {"job", "free"}
         /\ rows' = rows \/ rows' = [rows EXCEPT ![proc[w].id] = proc[w].row]
<1> USE DEF Steady, TypeOK
<1>1. /\ proc[w].at = "report" /\ w \in offer.crew /\ proc[w] \in Banning
      /\ Counts(proc[w], rows, cleared, seen, invited, lastCode)
  BY Holds, ProcessAt DEF BanReported, At
<1>2. PICK j \in Jobs, n \in Nat, upto \in Nat : j = proc[w].job /\ n = proc[w].next /\ upto = proc[w].upto
  BY <1>1 DEF Banning
<1>3. n # 0 /\ 1..(n - 1) \subseteq seen[j] BY <1>1, <1>2 DEF Counts
<1>4. CASE Done(w) /\ rows' = rows BY <1>1, <1>4, FreeMoves DEF Free
<1>5. CASE /\ Goto(w, [at |-> "job", job |-> j, next |-> n + 1, upto |-> upto]) /\ seen' = [seen EXCEPT ![j] = @ \cup {n}]
           /\ rows' = [rows EXCEPT ![proc[w].id] = proc[w].row]
  <2> DEFINE next == [at |-> "job", job |-> j, next |-> n + 1, upto |-> upto]
  <2>1. next \in Process /\ next.at = "job" /\ next.job = j /\ next.next = n + 1 BY DEF Process, Running
  <2>2. proc' = [proc EXCEPT ![w] = next] BY <1>5 DEF Goto
  <2> HIDE DEF next
  <2>3. 1..n \subseteq seen'[j] BY <1>3, <1>5
  <2>4. Counts(next, rows', cleared', seen', invited', lastCode') BY <2>1, <2>3 DEF Counts
  <2>5. Unwiped(next, rows') /\ Unhindered(next, rows') BY <2>1 DEF Unwiped, Unhindered
  <2> QED BY <1>1, <1>5, <2>1, <2>2, <2>4, <2>5 DEF MovesTo
<1> QED BY <1>2, <1>4, <1>5 DEF BanReported

-----------------------------------------------------------------------------
LEMMA WorkerMoves ==
  ASSUME Steady, NEW w \in Workers, Take(w) \/ Step(w) \/ Crash(w) PROVE \E next : MovesTo(w, next)
<1>1. CASE Take(w)
  BY <1>1, LogInMoves, OnboardMoves, ChangeMoves, EditUsersMoves, ExternalMoves, FetchMoves, StartJobMoves DEF Take
<1>2. CASE Step(w) \/ Crash(w)
  BY <1>2, ApproveMoves, ConsumeMoves, EnterMoves, CreateMoves, ForgetMoves, ApplyMoves, TidyMoves, FetchedMoves, StoreRowMoves,
     StoreNextMoves, ReadReportMoves, BanReportedMoves, EndJobMoves, CrashMoves DEF Step
<1> QED BY <1>1, <1>2

\* What is done without a worker.
Besides ==
  \/ \E p \in Persons : AskAccess(p) \/ \E c \in Codes : OpenLink(p, c)
  \/ \E m \in Emails :
       \/ Invite(m) \/ Revoke(m) \/ Import(m)
       \/ \E accept \in BOOLEAN : Answer(m, accept)
       \/ \E p \in Persons : Move(p, m)
  \/ \E j \in Jobs : Report(j)
  \/ ChangeSettings

LEMMA NextSplit == Next <=> (\E w \in Workers : Take(w) \/ Step(w) \/ Crash(w)) \/ Besides
BY DEF Next, Besides

LEMMA BesidesProc == Besides => proc' = proc
BY DEF Besides, AskAccess, OpenLink, Invite, Revoke, Import, Answer, Move, Report, ChangeSettings, work

\* Requests that only read or begin something leave the tables alone.
LEMMA TakeFrame ==
  ASSUME NEW w \in Workers, Take(w) PROVE UNCHANGED <<offer, people, feed, cursor, past, settings>>
BY DEF Take, LogIn, Onboard, Change, EditUsers, External, Fetch, StartJob

LEMMA OfferStays == Next => offer' = offer
<1> SUFFICES ASSUME Next PROVE offer' = offer OBVIOUS
<1>1. CASE Besides
  BY <1>1 DEF Besides, AskAccess, OpenLink, Invite, Revoke, Import, Answer, Move, Report, ChangeSettings
<1>2. ASSUME NEW w \in Workers, Step(w) \/ Crash(w) PROVE offer' = offer
  BY <1>2 DEF Step, Crash, Approve, Consume, Enter, Create, Forget, Apply, Tidy, Fetched, StoreRow, StoreNext, ReadReport,
     BanReported, EndJob
<1> QED BY <1>1, <1>2, NextSplit, TakeFrame

LEMMA SettingsMove == Next => UNCHANGED settings \/ SettingsNext
<1> SUFFICES ASSUME Next PROVE UNCHANGED settings \/ SettingsNext OBVIOUS
<1>1. CASE Besides
  BY <1>1 DEF Besides, AskAccess, OpenLink, Invite, Revoke, Import, Answer, Move, Report, ChangeSettings
<1>2. ASSUME NEW w \in Workers, Step(w) \/ Crash(w) PROVE UNCHANGED settings
  BY <1>2 DEF Step, Crash, Approve, Consume, Enter, Create, Forget, Apply, Tidy, Fetched, StoreRow, StoreNext, ReadReport,
     BanReported, EndJob
<1> QED BY <1>1, <1>2, NextSplit, TakeFrame

\* Who writes a row, and which.
LEMMA RowsMove ==
  ASSUME Steady, Next
  PROVE  \/ rows' = rows
         \/ \E i \in Ids, row \in Row :
              /\ rows' = [rows EXCEPT ![i] = row]
              /\ \/ i \in FreeIds /\ (requests' = requests => row.mail \in cleared)
                 \/ rows[i] # NoUser
<1> USE DEF Steady, TypeOK
<1>1. CASE Besides
  <2>1. ASSUME NEW m \in Emails, Import(m)
        PROVE  \E i \in Ids, row \in Row : rows' = [rows EXCEPT ![i] = row] /\ i \in FreeIds /\ requests' # requests
    <3>1. PICK i \in FreeIds : rows' = [rows EXCEPT ![i] = NewRow(m)] BY <2>1 DEF Import
    <3>2. requests' # requests
      BY <2>1 DEF Import, Asked
    <3> QED BY <3>1, <3>2, NewRowIs DEF FreeIds
  <2>2. ASSUME ~\E m \in Emails : Import(m) PROVE rows' = rows
    BY <1>1, <2>2 DEF Besides, AskAccess, OpenLink, Invite, Revoke, Answer, Move, Report, ChangeSettings, people
  <2> QED BY <2>1, <2>2
<1>2. ASSUME NEW w \in Workers, Create(w)
      PROVE  \/ rows' = rows
             \/ \E i \in Ids, row \in Row : rows' = [rows EXCEPT ![i] = row] /\ i \in FreeIds /\ row.mail \in cleared
  <2>1. rows' = rows \/ \E i \in FreeIds : rows' = [rows EXCEPT ![i] = NewRow(proc[w].claims.mail)]
    BY <1>2, CreateMoves
  <2>2. proc[w].at = "create" /\ proc[w].claims \in Claims /\ proc[w].claims.mail \in cleared
    BY <1>2, Holds, ProcessParts DEF Create, At, Counts, LettingIn
  <2> QED BY <2>1, <2>2, NewRowIs DEF FreeIds, Claims
<1>3. ASSUME NEW w \in Workers, Apply(w) \/ StoreRow(w) \/ BanReported(w)
      PROVE  \/ rows' = rows
             \/ \E i \in Ids, row \in Row : rows' = [rows EXCEPT ![i] = row] /\ rows[i] # NoUser
  <2>1. proc[w].at \in {"apply", "save", "report"} BY <1>3 DEF Apply, StoreRow, BanReported, At
  <2>2. proc[w].id \in Ids /\ proc[w].row \in Row /\ rows[proc[w].id] # NoUser BY <2>1, Holds, ProcessParts DEF Counts
  <2>3. \/ rows' = rows \/ rows' = [rows EXCEPT ![proc[w].id] = proc[w].row]
        \/ rows' = [rows EXCEPT ![proc[w].id] = Written1(w)] /\ Written1(w) \in Row
    BY <1>3, ApplyMoves, StoreRowMoves, BanReportedMoves
  <2> QED BY <2>2, <2>3
<1>4. ASSUME NEW w \in Workers, StoreNext(w)
      PROVE  \/ rows' = rows
             \/ \E i \in Ids, row \in Row : rows' = [rows EXCEPT ![i] = row] /\ rows[i] # NoUser
  <2>1. proc[w].at = "loop" BY <1>4 DEF StoreNext, At
  <2>2. \A i \in Ids : proc[w].rows[i] # NoUser => rows[i] # NoUser BY <2>1, Holds DEF Counts
  <2> QED BY <1>4, <2>2, StoreNextMoves, Kinds
<1>5. ASSUME NEW w \in Workers, Step(w) \/ Crash(w), ~(Create(w) \/ Apply(w) \/ StoreRow(w) \/ BanReported(w) \/ StoreNext(w))
      PROVE  rows' = rows
  BY <1>5 DEF Step, Crash, Approve, Consume, Enter, Forget, Tidy, Fetched, ReadReport, EndJob, people
<1>6. ASSUME NEW w \in Workers, Take(w) PROVE rows' = rows BY <1>6, TakeFrame DEF people
<1> QED BY <1>1, <1>2, <1>3, <1>4, <1>5, <1>6, NextSplit

LEMMA RowsTyped ==
  ASSUME Steady, Next
  PROVE  rows' \in [Ids -> Row \cup {NoUser}] /\ \A i \in Ids : rows[i] # NoUser => rows'[i] # NoUser
BY RowsMove, Kinds DEF Steady, TypeOK

LEMMA ClearedMoves ==
  ASSUME Steady, Next PROVE cleared \subseteq cleared' /\ cleared' \subseteq Emails
<1> USE DEF Steady, TypeOK
<1>1. ASSUME NEW w \in Workers, Approve(w) \/ Consume(w) PROVE cleared \subseteq cleared' /\ cleared' \subseteq Emails
  BY <1>1, ProcessParts DEF Approve, Consume, At, LettingIn, Claims
<1>2. ASSUME NEW w \in Workers, Step(w) \/ Crash(w), ~(Approve(w) \/ Consume(w)) PROVE cleared' = cleared
  BY <1>2 DEF Step, Crash, Enter, Create, Forget, Apply, Tidy, Fetched, StoreRow, StoreNext, ReadReport, BanReported, EndJob, past
<1>3. CASE Besides
  BY <1>3 DEF Besides, AskAccess, OpenLink, Invite, Revoke, Import, Answer, Move, Report, ChangeSettings, past
<1> QED BY <1>1, <1>2, <1>3, NextSplit, TakeFrame DEF past

LEMMA SeenMoves ==
  ASSUME Steady, Next PROVE seen' \in [Jobs -> SUBSET Nat] /\ \A j \in Jobs : seen[j] \subseteq seen'[j]
<1> USE DEF Steady, TypeOK
<1>1. ASSUME NEW w \in Workers, ReadReport(w) \/ BanReported(w)
      PROVE  seen' \in [Jobs -> SUBSET Nat] /\ \A j \in Jobs : seen[j] \subseteq seen'[j]
  <2>1. proc[w].at \in {"job", "report"} BY <1>1 DEF ReadReport, BanReported, At
  <2>2. PICK j \in Jobs, n \in Nat : j = proc[w].job /\ n = proc[w].next BY <2>1, ProcessParts
  <2>3. seen' = seen \/ seen' = [seen EXCEPT ![j] = @ \cup {n}] BY <1>1, <2>2 DEF ReadReport, BanReported
  <2> QED BY <2>3
<1>2. ASSUME NEW w \in Workers, Step(w) \/ Crash(w), ~(ReadReport(w) \/ BanReported(w)) PROVE seen' = seen
  BY <1>2 DEF Step, Crash, Approve, Consume, Enter, Create, Forget, Apply, Tidy, Fetched, StoreRow, StoreNext, EndJob, past
<1>3. CASE Besides
  BY <1>3 DEF Besides, AskAccess, OpenLink, Invite, Revoke, Import, Answer, Move, Report, ChangeSettings, past
<1> QED BY <1>1, <1>2, <1>3, NextSplit, TakeFrame DEF past

\* An invitation stays, goes, or has a new code.
LEMMA InvitedMoves ==
  ASSUME Steady, Next
  PROVE  /\ invited' \in [Emails -> Invitation \cup {NoInvitation}]
         /\ \/ /\ lastCode' = lastCode
               /\ \A n \in Emails : invited'[n] = invited[n] \/ invited'[n] = NoInvitation
            \/ /\ lastCode' = lastCode + 1 /\ lastCode' \in 0..MaxCodes /\ "invite" \in offer.kinds
               /\ \E m \in Emails : /\ invited'[m].code = lastCode' /\ \A n \in Emails \ {m} : invited'[n] = invited[n]
<1> USE DEF Steady, TypeOK
<1>1. ASSUME NEW m \in Emails, Invite(m)
      PROVE  /\ invited' \in [Emails -> Invitation \cup {NoInvitation}]
             /\ lastCode' = lastCode + 1 /\ lastCode' \in 0..MaxCodes /\ "invite" \in offer.kinds
             /\ invited'[m].code = lastCode' /\ \A n \in Emails \ {m} : invited'[n] = invited[n]
  <2>1. lastCode < MaxCodes /\ lastCode' = lastCode + 1 /\ lastCode \in Nat /\ "invite" \in offer.kinds
    BY <1>1, AccountsAssumption DEF Invite, ByAdmin, Asked
  <2>2. lastCode' \in Codes BY <2>1, AccountsAssumption DEF Codes
  <2>3. PICK pk : pk = IF invited[m] = NoInvitation THEN lastCode + 1 ELSE invited[m].pk OBVIOUS
  <2>4. pk \in Codes
    BY <2>1, <2>2, <2>3 DEF Invitation
  <2> DEFINE new == [pk |-> pk, code |-> lastCode']
  <2>5. new \in Invitation /\ new.code = lastCode' BY <2>2, <2>4 DEF Invitation
  <2>6. invited' = [invited EXCEPT ![m] = new] BY <1>1, <2>1, <2>3 DEF Invite
  <2> HIDE DEF new
  <2> QED BY <2>1, <2>2, <2>5, <2>6, AccountsAssumption DEF Codes
<1>2. ASSUME NEW w \in Workers, Approve(w) \/ Consume(w) \/ Tidy(w)
      PROVE  /\ lastCode' = lastCode /\ invited' \in [Emails -> Invitation \cup {NoInvitation}]
             /\ \A n \in Emails : invited'[n] = invited[n] \/ invited'[n] = NoInvitation
  BY <1>2 DEF Approve, Consume, Tidy, Without, Used
<1>3. ASSUME NEW m \in Emails, Revoke(m)
      PROVE  /\ lastCode' = lastCode /\ invited' \in [Emails -> Invitation \cup {NoInvitation}]
             /\ \A n \in Emails : invited'[n] = invited[n] \/ invited'[n] = NoInvitation
  BY <1>3 DEF Revoke
<1>4. ASSUME NEW w \in Workers, Step(w) \/ Crash(w), ~(Approve(w) \/ Consume(w) \/ Tidy(w)) PROVE UNCHANGED <<invited, lastCode>>
  BY <1>4 DEF Step, Crash, Enter, Create, Forget, Apply, Fetched, StoreRow, StoreNext, ReadReport, BanReported, EndJob, people
<1>5. ASSUME Besides, ~\E m \in Emails : Invite(m) \/ Revoke(m) PROVE UNCHANGED <<invited, lastCode>>
  BY <1>5 DEF Besides, AskAccess, OpenLink, Import, Answer, Move, Report, ChangeSettings, people
<1>6. ASSUME NEW w \in Workers, Take(w) PROVE UNCHANGED <<invited, lastCode>> BY <1>6, TakeFrame DEF people
<1>7. CASE UNCHANGED <<invited, lastCode>> BY <1>7
<1> QED BY <1>1, <1>2, <1>3, <1>4, <1>5, <1>6, <1>7, NextSplit

-----------------------------------------------------------------------------
LEMMA ByAdminMoves ==
  ASSUME TypeOK, NEW kind, ByAdmin(kind)
  PROVE  \E p \in Persons, i \in Ids, out \in BOOLEAN :
           /\ ActsAs(p, i) /\ out = ~rows[i].active
           /\ session' = IF out THEN [session EXCEPT ![p] = Fresh] ELSE session
BY DEF ByAdmin, AfterResponse

LEMMA FreshIs == Fresh \in Session /\ Fresh.claims = NoClaims /\ Fresh.user = 0
BY DEF Fresh, Session

LEMMA SessionMoves ==
  ASSUME Steady, Next
  PROVE  /\ session' \in [Persons -> Session]
         /\ \A p \in Persons : session'[p].claims # NoClaims =>
              session'[p].claims = session[p].claims \/ \E w \in Workers : Enter(w) /\ session'[p].claims = proc[w].claims
<1> USE DEF Steady, TypeOK
<1> DEFINE Kept(s) == /\ s \in [Persons -> Session]
                      /\ \A p \in Persons : s[p].claims # NoClaims => s[p].claims = session[p].claims
<1>0. Kept(session) OBVIOUS
<1>1. ASSUME NEW p \in Persons PROVE Kept([session EXCEPT ![p] = Fresh]) BY FreshIs
<1>2. ASSUME NEW p \in Persons, NEW c \in Codes, OpenLink(p, c) PROVE Kept(session')
  <2>1. [session[p] EXCEPT !.code = c] \in Session /\ [session[p] EXCEPT !.code = c].claims = session[p].claims
    BY DEF Session
  <2>2. session' = [session EXCEPT ![p] = [session[p] EXCEPT !.code = c]] BY <1>2 DEF OpenLink
  <2> DEFINE new == [session[p] EXCEPT !.code = c]
  <2>3. session' = [session EXCEPT ![p] = new] /\ new \in Session /\ new.claims = session[p].claims BY <2>1, <2>2
  <2> HIDE DEF new
  <2> QED BY <2>3
<1>3. ASSUME NEW kind, ByAdmin(kind) PROVE Kept(session') BY <1>0, <1>1, <1>3, ByAdminMoves
<1>4. ASSUME NEW w \in Workers, Approve(w) PROVE Kept(session')
  <2>1. proc[w].claims \in Claims BY <1>4, ProcessParts DEF Approve, At, LettingIn
  <2>2. PICK c \in Claims, p \in Persons : c = proc[w].claims /\ p = c.person /\ c.mail \in Emails BY <2>1 DEF Claims
  <2> DEFINE new == [session[p] EXCEPT !.asks = c.mail]
  <2>3. new \in Session /\ new.claims = session[p].claims
    <3>1. session[p] \in Session OBVIOUS
    <3> QED BY <2>2, <3>1 DEF Session
  <2>4. session' = session \/ session' = [session EXCEPT ![p] = new] BY <1>4, <2>2 DEF Approve, Refused
  <2> HIDE DEF new
  <2> QED BY <1>0, <2>3, <2>4
<1>5. ASSUME NEW w \in Workers, Consume(w) PROVE Kept(session')
  <2>1. proc[w].claims \in Claims BY <1>5, ProcessParts DEF Consume, At, LettingIn
  <2>2. PICK p \in Persons : p = proc[w].claims.person BY <2>1 DEF Claims
  <2> DEFINE new == [session[p] EXCEPT !.code = NoCode]
  <2>3. new \in Session /\ new.claims = session[p].claims
    BY DEF Session
  <2>4. session' = [session EXCEPT ![p] = new] BY <1>5, <2>2 DEF Consume
  <2> HIDE DEF new
  <2> QED BY <2>3, <2>4
<1>6. ASSUME NEW p \in Persons, NEW i \in Ids, NEW row, NEW way, EnterSite(p, i, row, way) PROVE Kept(session')
  <2>0. session[p] \in Session OBVIOUS
  <2> DEFINE new1 == [session[p] EXCEPT !.user = i]
             new2 == [session[p] EXCEPT !.user = i, !.claims = NoClaims]
  <2>1. new1 \in Session /\ new1.claims = session[p].claims /\ new2 \in Session /\ new2.claims = NoClaims
    BY <2>0 DEF Session
  <2>2. \/ session' = [session EXCEPT ![p] = new1] \/ session' = [session EXCEPT ![p] = new2]
        \/ session' = [session EXCEPT ![p] = Fresh] \/ session' = session
    <3>1. new1 = [session[p] EXCEPT !.user = i, !.claims = session[p].claims] BY <2>0 DEF Session
    <3> DEFINE put == IF row.active
                      THEN [session[p] EXCEPT !.user = i, !.claims = IF way = "login" THEN session[p].claims ELSE NoClaims]
                      ELSE IF way = "login" THEN session[p] ELSE Fresh
    <3>2. session' = [session EXCEPT ![p] = put] BY <1>6 DEF EnterSite
    <3>3. [session EXCEPT ![p] = session[p]] = session OBVIOUS
    <3>4. put \in {new1, new2, session[p], Fresh}
      BY <3>1
    <3> HIDE DEF put
    <3> QED BY <3>2, <3>3, <3>4
  <2> HIDE DEF new1, new2
  <2> QED BY <1>0, <1>1, <2>1, <2>2
<1>7. ASSUME NEW w \in Workers, Apply(w) \/ Tidy(w) PROVE Kept(session')
  <2>1. proc[w].claims \in Claims /\ proc[w].id \in Ids BY <1>7, ProcessParts DEF Apply, Tidy, At, LettingIn
  <2>2. proc[w].claims.person \in Persons BY <2>1 DEF Claims
  <2>3. session' = session \/ \E row, way : EnterSite(proc[w].claims.person, proc[w].id, row, way)
    BY <1>7 DEF Apply, Tidy
  <2> QED BY <1>0, <1>6, <2>1, <2>2, <2>3
<1>8. ASSUME NEW w \in Workers, StoreRow(w) \/ StoreNext(w) PROVE Kept(session')
  <2>1. /\ proc[w].at \in {"save", "loop"} /\ proc[w].person \in Persons \cup {Noone}
        /\ proc[w].at = "loop" => proc[w].person \in Persons
    BY <1>8, ProcessParts DEF StoreRow, StoreNext, At
  <2>2. session' = session \/ (proc[w].person \in Persons /\ session' = [session EXCEPT ![proc[w].person] = Fresh])
    BY <1>8, <2>1 DEF StoreRow, StoreNext, AfterResponse, At
  <2> QED BY <1>0, <1>1, <2>2
<1>9. ASSUME NEW w \in Workers, Enter(w)
      PROVE  /\ session' \in [Persons -> Session]
             /\ \A p \in Persons : session'[p].claims = session[p].claims \/ session'[p].claims = proc[w].claims
  <2>1. proc[w].claims \in Claims BY <1>9, ProcessParts DEF Enter, At, LettingIn
  <2>2. PICK c \in Claims, p \in Persons : c = proc[w].claims /\ p = c.person BY <2>1 DEF Claims
  <2> DEFINE new == [session[p] EXCEPT !.claims = c]
  <2>3. new \in Session /\ new.claims = c
    BY DEF Session
  <2>4. session' = session \/ session' = [session EXCEPT ![p] = new] BY <1>9, <2>2 DEF Enter
  <2> HIDE DEF new
  <2> QED BY <2>2, <2>3, <2>4
<1>10. ASSUME NEW w \in Workers, Step(w) \/ Crash(w),
              ~(Approve(w) \/ Consume(w) \/ Enter(w) \/ Apply(w) \/ Tidy(w) \/ StoreRow(w) \/ StoreNext(w))
       PROVE  session' = session
  BY <1>10 DEF Step, Crash, Create, Forget, Fetched, ReadReport, BanReported, EndJob, people
<1>11. CASE Besides
  <2>1. CASE \E p \in Persons, c \in Codes : OpenLink(p, c) BY <1>2, <2>1
  <2>2. CASE \E kind : ByAdmin(kind) BY <1>3, <2>2
  <2>3. ASSUME ~\E p \in Persons, c \in Codes : OpenLink(p, c), ~\E kind : ByAdmin(kind) PROVE session' = session
    BY <1>11, <2>3 DEF Besides, AskAccess, Import, Answer, Invite, Revoke, Move, Report, ChangeSettings, people
  <2> QED BY <1>0, <2>1, <2>2, <2>3
<1>12. ASSUME NEW w \in Workers, Take(w) PROVE session' = session BY <1>12, TakeFrame DEF people
<1>13. CASE Kept(session') BY <1>13
<1> HIDE DEF Kept
<1>14. ASSUME NEW w \in Workers, Step(w) \/ Crash(w), ~Enter(w) PROVE Kept(session')
  BY <1>0, <1>4, <1>5, <1>7, <1>8, <1>10, <1>14
<1> QED BY <1>0, <1>9, <1>11, <1>12, <1>13, <1>14, NextSplit

LEMMA OthersTyped ==
  ASSUME Steady, Next
  PROVE  /\ provider' \in [Persons -> Profile] /\ asked' \in [Emails -> {"none", "pending", "accepted"}]
         /\ feed' \in [Jobs -> Nat] /\ requests' \in 0..MaxRequests /\ joined \subseteq joined' /\ joined' \subseteq Persons
<1> USE DEF Steady, TypeOK
<1>1. provider' \in [Persons -> Profile]
  <2>1. ASSUME NEW p \in Persons, NEW m \in Emails, Move(p, m) PROVE provider' \in [Persons -> Profile]
    <3> DEFINE new == [provider[p] EXCEPT !.mail = m]
    <3>1. new \in Profile
      BY DEF Profile
    <3>2. provider' = [provider EXCEPT ![p] = new] BY <2>1 DEF Move
    <3> HIDE DEF new
    <3> QED BY <3>1, <3>2
  <2>2. ASSUME NEW w \in Workers, Step(w) \/ Crash(w) PROVE provider' = provider
    BY <2>2 DEF Step, Crash, Approve, Consume, Enter, Create, Forget, Apply, Tidy, Fetched, StoreRow, StoreNext, ReadReport,
       BanReported, EndJob, people
  <2>3. ASSUME Besides, ~\E p \in Persons, m \in Emails : Move(p, m) PROVE provider' = provider
    BY <2>3 DEF Besides, AskAccess, OpenLink, Invite, Revoke, Import, Answer, Report, ChangeSettings, people
  <2> QED BY <2>1, <2>2, <2>3, NextSplit, TakeFrame DEF people
<1>2. asked' \in [Emails -> {"none", "pending", "accepted"}]
  <2>1. ASSUME NEW w \in Workers, Forget(w) PROVE asked' \in [Emails -> {"none", "pending", "accepted"}]
    BY <2>1 DEF Forget
  <2>2. ASSUME NEW p \in Persons, AskAccess(p) PROVE asked' \in [Emails -> {"none", "pending", "accepted"}]
    BY <2>2 DEF AskAccess, Session
  <2>3. ASSUME NEW m \in Emails, NEW accept \in BOOLEAN, Answer(m, accept) PROVE asked' \in [Emails -> {"none", "pending", "accepted"}]
    BY <2>3 DEF Answer
  <2>4. ASSUME NEW w \in Workers, Step(w) \/ Crash(w), ~Forget(w) PROVE asked' = asked
    BY <2>4 DEF Step, Crash, Approve, Consume, Enter, Create, Apply, Tidy, Fetched, StoreRow, StoreNext, ReadReport,
       BanReported, EndJob, people
  <2>5. ASSUME Besides, ~\E p \in Persons : AskAccess(p), ~\E m \in Emails, accept \in BOOLEAN : Answer(m, accept) PROVE asked' = asked
    BY <2>5 DEF Besides, OpenLink, Invite, Revoke, Import, Move, Report, ChangeSettings, people
  <2> QED BY <2>1, <2>2, <2>3, <2>4, <2>5, NextSplit, TakeFrame DEF people
<1>3. feed' \in [Jobs -> Nat]
  <2>1. ASSUME NEW j \in Jobs, Report(j) PROVE feed' \in [Jobs -> Nat] BY <2>1 DEF Report
  <2>2. ASSUME NEW w \in Workers, Step(w) \/ Crash(w) PROVE feed' = feed
    BY <2>2 DEF Step, Crash, Approve, Consume, Enter, Create, Forget, Apply, Tidy, Fetched, StoreRow, StoreNext, ReadReport,
       BanReported, EndJob
  <2>3. ASSUME Besides, ~\E j \in Jobs : Report(j) PROVE feed' = feed
    BY <2>3 DEF Besides, AskAccess, OpenLink, Invite, Revoke, Import, Answer, Move, ChangeSettings, work
  <2> QED BY <2>1, <2>2, <2>3, NextSplit, TakeFrame
<1>4. requests' \in 0..MaxRequests
  <2>1. ASSUME NEW kind, Asked(kind) PROVE requests' \in 0..MaxRequests
    BY <2>1, AccountsAssumption DEF Asked
  <2>2. ASSUME NEW w \in Workers, Take(w) PROVE requests' = requests \/ \E kind : Asked(kind)
    BY <2>2 DEF Take, LogIn, Onboard, Change, EditUsers, External, Fetch, StartJob, Taking
  <2>3. ASSUME NEW w \in Workers, Step(w) \/ Crash(w) PROVE requests' = requests \/ \E kind : Asked(kind)
    BY <2>3 DEF Step, Crash, Approve, Consume, Enter, Create, Forget, Apply, Tidy, Fetched, StoreRow, StoreNext, ReadReport,
       BanReported, EndJob
  <2>4. ASSUME Besides PROVE requests' = requests \/ \E kind : Asked(kind)
    BY <2>4 DEF Besides, AskAccess, OpenLink, Invite, Revoke, Import, Answer, Move, Report, ChangeSettings, ByAdmin, work
  <2> QED BY <2>1, <2>2, <2>3, <2>4, NextSplit
<1>5. joined \subseteq joined' /\ joined' \subseteq Persons
  <2>1. ASSUME NEW w \in Workers, Apply(w) \/ Tidy(w) PROVE joined \subseteq joined' /\ joined' \subseteq Persons
    <3>1. proc[w].claims \in Claims BY <2>1, ProcessParts DEF Apply, Tidy, At, LettingIn
    <3>2. joined' = joined \/ joined' = joined \cup {proc[w].claims.person} BY <2>1 DEF Apply, Tidy, EnterSite
    <3> QED BY <3>1, <3>2 DEF Claims
  <2>2. ASSUME NEW w \in Workers, Step(w) \/ Crash(w), ~(Apply(w) \/ Tidy(w)) PROVE joined' = joined
    BY <2>2 DEF Step, Crash, Approve, Consume, Enter, Create, Forget, Fetched, StoreRow, StoreNext, ReadReport, BanReported, EndJob, past
  <2>3. ASSUME Besides PROVE joined' = joined
    BY <2>3 DEF Besides, AskAccess, OpenLink, Invite, Revoke, Import, Answer, Move, Report, ChangeSettings, past
  <2> QED BY <2>1, <2>2, <2>3, NextSplit, TakeFrame DEF past
<1> QED BY <1>1, <1>2, <1>3, <1>4, <1>5

LEMMA CursorMoves ==
  ASSUME Steady, Next
  PROVE  cursor' \in [Jobs -> Nat] /\ ReportsDealtWith'
<1> USE DEF Steady, TypeOK
<1>1. ASSUME NEW w \in Workers, EndJob(w)
      PROVE  cursor' \in [Jobs -> Nat] /\ \A j \in Jobs : 1..cursor'[j] \subseteq seen[j]
  <2>1. proc[w].at = "job" /\ Counts(proc[w], rows, cleared, seen, invited, lastCode) /\ proc[w] \in Process
    BY <1>1, Holds DEF EndJob, At
  <2>2. PICK j \in Jobs, n \in Nat : j = proc[w].job /\ n = proc[w].next BY <2>1, ProcessParts
  <2>3. n # 0 /\ 1..(n - 1) \subseteq seen[j] BY <2>1, <2>2 DEF Counts
  <2>4. cursor' = [cursor EXCEPT ![j] = n - 1] BY <1>1, <2>2 DEF EndJob, Reached
  <2> QED BY <2>3, <2>4 DEF ReportsDealtWith
<1>2. ASSUME NEW w \in Workers, Step(w) \/ Crash(w), ~EndJob(w) PROVE cursor' = cursor
  BY <1>2 DEF Step, Crash, Approve, Consume, Enter, Create, Forget, Apply, Tidy, Fetched, StoreRow, StoreNext, ReadReport,
     BanReported
<1>3. ASSUME Besides PROVE cursor' = cursor
  BY <1>3 DEF Besides, AskAccess, OpenLink, Invite, Revoke, Import, Answer, Move, Report, ChangeSettings, work
<1>4. cursor' \in [Jobs -> Nat] /\ \A j \in Jobs : 1..cursor'[j] \subseteq seen[j]
  BY <1>1, <1>2, <1>3, NextSplit, TakeFrame DEF ReportsDealtWith
<1> QED BY <1>4, SeenMoves DEF ReportsDealtWith

LEMMA SpentMoves ==
  ASSUME Steady, Next
  PROVE  \/ spent' = spent /\ \A w \in Workers : ~Consume(w)
         \/ \E w \in Workers, p \in Persons :
              /\ Consume(w) /\ proc[w].code \in Codes
              /\ spent' = [spent EXCEPT ![proc[w].code] = @ \cup {p}] /\ p = proc[w].claims.person
<1>1. ASSUME NEW w \in Workers, Consume(w)
      PROVE  \E p \in Persons : /\ proc[w].code \in Codes /\ p = proc[w].claims.person
                                /\ spent' = [spent EXCEPT ![proc[w].code] = @ \cup {p}]
  BY <1>1, Holds, ProcessParts DEF Consume, At, LettingIn, Claims
<1>2. ASSUME NEW w \in Workers, Step(w) \/ Crash(w), ~Consume(w) PROVE spent' = spent
  BY <1>2 DEF Step, Crash, Approve, Enter, Create, Forget, Apply, Tidy, Fetched, StoreRow, StoreNext, ReadReport,
     BanReported, EndJob, past
<1>3. ASSUME Besides PROVE spent' = spent
  BY <1>3 DEF Besides, AskAccess, OpenLink, Invite, Revoke, Import, Answer, Move, Report, ChangeSettings, past
<1>4. ASSUME NEW w \in Workers, Take(w) PROVE spent' = spent BY <1>4, TakeFrame DEF past
<1>5. spent' = spent \/ \E w \in Workers : Consume(w) BY <1>2, <1>3, <1>4, NextSplit
<1> QED BY <1>1, <1>5

LEMMA TypeMoves == ASSUME Steady, Next PROVE TypeOK'
<1>1. proc' \in [Workers -> Process] BY WorkerMoves, BesidesProc, NextSplit DEF MovesTo, Steady, TypeOK
<1>2. spent' \in [Codes -> SUBSET Persons] BY SpentMoves DEF Steady, TypeOK
<1>3. SettingsTypeOK' BY SettingsMove, SettingsTypeStep DEF Steady, TypeOK
<1>4. offer' \in Offers BY OfferStays DEF Steady, TypeOK
<1>5. lastCode' \in 0..MaxCodes /\ invited' \in [Emails -> Invitation \cup {NoInvitation}]
  BY InvitedMoves DEF Steady, TypeOK
<1>6. /\ rows' \in [Ids -> Row \cup {NoUser}] /\ session' \in [Persons -> Session] /\ cleared' \subseteq Emails
      /\ cursor' \in [Jobs -> Nat] /\ seen' \in [Jobs -> SUBSET Nat]
  BY RowsTyped, SessionMoves, ClearedMoves, CursorMoves, SeenMoves
<1> QED BY <1>1, <1>2, <1>3, <1>4, <1>5, <1>6, OthersTyped DEF TypeOK

LEMMA OneCrewMoves == ASSUME Steady, Next PROVE OneCrew'
BY WorkerMoves, BesidesProc, NextSplit, OfferStays DEF MovesTo, Steady, TypeOK, OneCrew

\* What processes count on is never taken away by others.
LEMMA CountsStay ==
  ASSUME Steady, Next, NEW step \in Process, Counts(step, rows, cleared, seen, invited, lastCode)
  PROVE  Counts(step, rows', cleared', seen', invited', lastCode')
<1>1. \A i \in Ids : rows[i] # NoUser => rows'[i] # NoUser BY RowsTyped
<1>2. cleared \subseteq cleared' /\ \A j \in Jobs : seen[j] \subseteq seen'[j] BY ClearedMoves, SeenMoves
<1>3. step.at = "consume" =>
        step.code <= lastCode' /\ \A n \in Emails : invited'[n].code = step.code => invited'[n].pk = step.pk
  <2> SUFFICES ASSUME step.at = "consume"
               PROVE  step.code <= lastCode' /\ \A n \in Emails : invited'[n].code = step.code => invited'[n].pk = step.pk
    OBVIOUS
  <2>1. step.code \in Codes /\ lastCode \in Nat BY ProcessParts DEF Steady, TypeOK
  <2>2. step.code \in Nat \ {0} BY <2>1, AccountsAssumption DEF Codes
  <2>3. step.code <= lastCode /\ \A n \in Emails : invited[n].code = step.code => invited[n].pk = step.pk
    BY DEF Counts
  <2>4. NoInvitation.code # step.code BY <2>2 DEF NoInvitation, NoCode
  <2>5. \/ /\ lastCode' = lastCode
           /\ \A n \in Emails : invited'[n] = invited[n] \/ invited'[n] = NoInvitation
        \/ /\ lastCode' = lastCode + 1
           /\ \E m \in Emails : /\ invited'[m].code = lastCode' /\ \A n \in Emails \ {m} : invited'[n] = invited[n]
    BY InvitedMoves
  <2> QED BY <2>1, <2>2, <2>3, <2>4, <2>5
<1>4. step.at \in {"forget", "apply", "tidy", "save", "fetch", "report"} => step.id \in Ids BY ProcessParts
<1>5. step.at \in {"job", "report"} => step.job \in Jobs BY ProcessParts
<1> QED BY <1>1, <1>2, <1>3, <1>4, <1>5 DEF Counts

LEMMA CountsMoves == ASSUME Steady, Next PROVE CountsAll'
<1>1. ASSUME NEW w \in Workers PROVE Counts(proc[w], rows', cleared', seen', invited', lastCode')
  BY CountsStay DEF Steady, CountsAll, TypeOK
<1>2. CASE Besides BY <1>1, <1>2, BesidesProc DEF CountsAll
<1>3. ASSUME NEW w \in Workers, NEW next, MovesTo(w, next) PROVE CountsAll'
  BY <1>3, <1>1 DEF CountsAll, MovesTo, Steady, TypeOK
<1> QED BY <1>2, <1>3, NextSplit, WorkerMoves

LEMMA CodesOnceMoves == ASSUME Steady, Next PROVE CodesOnce'
<1>1. CodesOnce /\ lastCode \in Nat /\ Codes \subseteq Nat \ {0} BY AccountsAssumption DEF Steady, TypeOK, Codes
<1>2. /\ invited' \in [Emails -> Invitation \cup {NoInvitation}]
      /\ \/ /\ lastCode' = lastCode
            /\ \A n \in Emails : invited'[n] = invited[n] \/ invited'[n] = NoInvitation
         \/ /\ lastCode' = lastCode + 1
            /\ \E m \in Emails : /\ invited'[m].code = lastCode' /\ \A n \in Emails \ {m} : invited'[n] = invited[n]
  BY InvitedMoves
<1>3. ASSUME NEW n \in Emails PROVE invited'[n].code \in Nat /\ invited[n].code \in Nat
  <2>1. ASSUME NEW x \in Invitation \cup {NoInvitation} PROVE x.code \in Nat
    <3>1. CASE x \in Invitation
      <4>1. x.code \in Codes BY <3>1 DEF Invitation
      <4> QED BY <1>1, <4>1
    <3>2. CASE x = NoInvitation BY <3>2 DEF NoInvitation, NoCode
    <3> QED BY <3>1, <3>2
  <2> QED BY <1>2, <2>1 DEF Steady, TypeOK
<1>4. NoInvitation.code = 0 /\ NoCode = 0 BY DEF NoInvitation, NoCode
<1>5. \A n \in Emails : invited'[n].code <= lastCode' BY <1>1, <1>2, <1>3, <1>4 DEF CodesOnce
<1>6. \A n, m \in Emails : invited'[n].code = invited'[m].code /\ invited'[n].code # NoCode => n = m
  BY <1>1, <1>2, <1>3, <1>4 DEF CodesOnce
<1>7. ASSUME NEW c \in Codes, spent[c] # {} PROVE c <= lastCode' /\ \A n \in Emails : invited'[n].code # c
  BY <1>1, <1>2, <1>3, <1>4, <1>7 DEF CodesOnce
<1>8. ASSUME NEW w \in Workers, Consume(w) PROVE proc[w].code <= lastCode' /\ \A n \in Emails : invited'[n].code # proc[w].code
  <2>1. proc[w].at = "consume" /\ proc[w] \in Process /\ Counts(proc[w], rows, cleared, seen, invited, lastCode)
    BY <1>8, Holds DEF Consume, At
  <2>2. PICK k \in Codes : k = proc[w].code BY <2>1, ProcessParts
  <2>3. \A n \in Emails : invited'[n] = IF invited[n].pk = proc[w].pk THEN NoInvitation ELSE invited[n]
    BY <1>8 DEF Consume, Used
  <2>4. k <= lastCode /\ lastCode' = lastCode /\ \A n \in Emails : invited[n].code = k => invited[n].pk = proc[w].pk
    BY <1>8, <2>1, <2>2 DEF Counts, Consume
  <2> QED BY <1>1, <1>4, <2>2, <2>3, <2>4
<1>9. ASSUME NEW c \in Codes, spent'[c] # {} PROVE c <= lastCode' /\ \A n \in Emails : invited'[n].code # c
  BY <1>7, <1>9, SpentMoves, <1>8 DEF Steady, TypeOK
<1> QED BY <1>5, <1>6, <1>9 DEF CodesOnce

LEMMA ClaimsClearedMoves == ASSUME Steady, Next PROVE ClaimsCleared'
<1> SUFFICES ASSUME NEW p \in Persons, session'[p].claims # NoClaims PROVE session'[p].claims.mail \in cleared'
  BY DEF ClaimsCleared
<1>1. CASE session'[p].claims = session[p].claims BY <1>1, ClearedMoves DEF ClaimsCleared, Steady
<1>2. ASSUME NEW w \in Workers, Enter(w), session'[p].claims = proc[w].claims PROVE session'[p].claims.mail \in cleared'
  BY <1>2, Holds, ClearedMoves DEF Enter, At, Counts
<1> QED BY <1>1, <1>2, SessionMoves

\* A step changes the holders of codes by the one who moves.
LEMMA HoldersMove ==
  ASSUME Steady, Next, NEW c \in Codes
  PROVE  \/ Holders(c)' \subseteq Holders(c)
         \/ \E w \in offer.crew, n \in Emails : Holders(c)' = Holders(c) \cup {w} /\ invited[n].code = c
<1>1. CASE Besides BY <1>1, BesidesProc, OfferStays DEF Holders
<1>2. ASSUME NEW w \in Workers, NEW next, MovesTo(w, next), next.at # "consume" PROVE Holders(c)' \subseteq Holders(c)
  BY <1>2, OfferStays DEF MovesTo, Holders, Steady, TypeOK
<1>3. ASSUME NEW w \in Workers, NEW next, MovesTo(w, next), NEW n \in Emails, invited[n].code = next.code
      PROVE  \/ Holders(c)' \subseteq Holders(c)
             \/ \E v \in offer.crew, m \in Emails : Holders(c)' = Holders(c) \cup {v} /\ invited[m].code = c
  <2>1. \A v \in Workers : proc'[v] = IF v = w THEN next ELSE proc[v] BY <1>3 DEF MovesTo, Steady, TypeOK
  <2>2. offer' = offer /\ offer.crew \subseteq Workers /\ w \in offer.crew
    BY <1>3, OfferStays, AccountsAssumption DEF MovesTo, Steady, TypeOK
  <2>3. CASE next.code = c
    BY <2>1, <2>2, <1>3, <2>3 DEF Holders
  <2>4. CASE next.code # c BY <2>1, <2>2, <2>4 DEF Holders
  <2> QED BY <2>3, <2>4
<1>4. ASSUME NEW w \in Workers, Take(w) \/ Step(w) \/ Crash(w)
      PROVE  \E next : MovesTo(w, next) /\ (next.at = "consume" => \E n \in Emails : invited[n].code = next.code)
  <2>1. CASE Take(w)
    BY <2>1, LogInMoves, OnboardMoves, ChangeMoves, EditUsersMoves, ExternalMoves, FetchMoves, StartJobMoves DEF Take
  <2>2. CASE Crash(w) BY <2>2, CrashMoves DEF Free
  <2>3. CASE Step(w)
    <3>1. CASE Approve(w) BY <3>1, ApproveMoves
    <3>2. CASE Consume(w) \/ Enter(w) \/ Create(w) BY <3>2, ConsumeMoves, EnterMoves, CreateMoves
    <3>3. CASE Forget(w) \/ Apply(w) \/ Fetched(w) BY <3>3, ForgetMoves, ApplyMoves, FetchedMoves
    <3>4. CASE Tidy(w) \/ StoreRow(w) \/ EndJob(w) BY <3>4, TidyMoves, StoreRowMoves, EndJobMoves DEF Free
    <3>5. CASE StoreNext(w) \/ ReadReport(w) \/ BanReported(w)
      BY <3>5, StoreNextMoves, ReadReportMoves, BanReportedMoves
    <3> QED BY <2>3, <3>1, <3>2, <3>3, <3>4, <3>5 DEF Step
  <2> QED BY <1>4, <2>1, <2>2, <2>3
<1> QED BY <1>1, <1>2, <1>3, <1>4, NextSplit

LEMMA CodesSharedMoves == ASSUME Steady, CodesShared, Next PROVE CodesShared'
<1> SUFFICES ASSUME NEW c \in Codes
             PROVE  /\ IsFiniteSet(spent'[c])
                    /\ Cardinality(spent'[c]) + Cardinality(Holders(c)') <= Cardinality(offer'.crew)
  BY DEF CodesShared
<1>1. /\ IsFiniteSet(offer.crew) /\ offer' = offer /\ Holders(c) \subseteq offer.crew /\ Holders(c)' \subseteq offer.crew
  BY OfferStays, AccountsAssumption DEF Holders, Steady, TypeOK
<1>2. /\ IsFiniteSet(Holders(c)) /\ IsFiniteSet(Holders(c)')
      /\ Cardinality(Holders(c)) \in Nat /\ Cardinality(Holders(c)') \in Nat
      /\ Cardinality(offer.crew) \in Nat /\ Cardinality(Holders(c)') <= Cardinality(offer.crew)
  BY <1>1, FS_Subset, FS_CardinalityType
<1>3. /\ IsFiniteSet(spent[c]) /\ Cardinality(spent[c]) \in Nat
      /\ Cardinality(spent[c]) + Cardinality(Holders(c)) <= Cardinality(offer.crew)
  BY FS_CardinalityType DEF CodesShared
<1>4. ASSUME NEW w \in Workers, NEW p \in Persons, Consume(w), proc[w].code = c, spent' = [spent EXCEPT ![c] = @ \cup {p}]
      PROVE  /\ IsFiniteSet(spent'[c])
             /\ Cardinality(spent'[c]) + Cardinality(Holders(c)') <= Cardinality(offer.crew)
  <2>1. proc[w].at = "consume" /\ w \in offer.crew BY <1>4, Holds DEF Consume, At
  <2>2. PICK next : MovesTo(w, next) /\ next.at = "enter" BY <1>4, ConsumeMoves
  <2>3. w \in Holders(c) /\ Holders(c)' \subseteq Holders(c) \ {w}
    BY <1>1, <1>4, <2>1, <2>2, AccountsAssumption DEF Holders, MovesTo, Steady, TypeOK
  <2>4. IsFiniteSet(Holders(c) \ {w}) /\ Cardinality(Holders(c) \ {w}) = Cardinality(Holders(c)) - 1
    BY <1>2, <2>3, FS_RemoveElement
  <2>5. Cardinality(Holders(c)') <= Cardinality(Holders(c)) - 1 BY <2>3, <2>4, FS_Subset
  <2>6. spent'[c] = spent[c] \cup {p} BY <1>4 DEF Steady, TypeOK
  <2>7. /\ IsFiniteSet(spent'[c]) /\ Cardinality(spent'[c]) \in Nat
        /\ Cardinality(spent'[c]) <= Cardinality(spent[c]) + 1
    <3>1. PICK S : S = spent[c] OBVIOUS
    <3>2. /\ IsFiniteSet(S \cup {p}) /\ Cardinality(S \cup {p}) = IF p \in S THEN Cardinality(S) ELSE Cardinality(S) + 1
      BY <1>3, <3>1, FS_AddElement
    <3>3. Cardinality(S \cup {p}) \in Nat BY <3>2, FS_CardinalityType
    <3> QED BY <1>3, <2>6, <3>1, <3>2, <3>3
  <2> QED BY <1>2, <1>3, <2>5, <2>7
<1>5. CASE spent'[c] = spent[c]
  <2>1. CASE Holders(c)' \subseteq Holders(c)
    BY <1>2, <2>1, FS_Subset, <1>1, <1>3, <1>5
  <2>2. ASSUME NEW w \in offer.crew, NEW n \in Emails, Holders(c)' = Holders(c) \cup {w}, invited[n].code = c
        PROVE  Cardinality(spent[c]) = 0
    <3>1. spent[c] = {} BY <2>2 DEF Steady, CodesOnce
    <3> QED BY <3>1, FS_EmptySet
  <2>3. Holders(c)' \subseteq Holders(c) \/ Cardinality(spent[c]) = 0 BY <2>2, HoldersMove
  <2> QED BY <1>1, <1>2, <1>3, <1>5, <2>1, <2>3
<1>6. spent'[c] = spent[c] \/ \E w \in Workers, p \in Persons :
                                Consume(w) /\ proc[w].code = c /\ spent' = [spent EXCEPT ![c] = @ \cup {p}]
  BY SpentMoves DEF Steady, TypeOK
<1> QED BY <1>1, <1>4, <1>5, <1>6

LEMMA Bounded == Steady /\ CodesShared => InvitationBound
<1> SUFFICES ASSUME Steady, CodesShared, NEW c \in Codes PROVE Cardinality(spent[c]) <= Cardinality(offer.crew)
  BY DEF InvitationBound
<1>1. /\ IsFiniteSet(offer.crew) /\ Holders(c) \subseteq offer.crew BY AccountsAssumption DEF Holders, Steady, TypeOK
<1>2. Cardinality(Holders(c)) \in Nat /\ Cardinality(offer.crew) \in Nat BY <1>1, FS_Subset, FS_CardinalityType
<1>3. Cardinality(spent[c]) \in Nat /\ Cardinality(spent[c]) + Cardinality(Holders(c)) <= Cardinality(offer.crew)
  BY FS_CardinalityType DEF CodesShared
<1> QED BY <1>2, <1>3

\* Where one process works, the others are free, before and after.
LEMMA NoneWipedMoves == ASSUME Steady, NoneWiped, Next PROVE NoneWiped'
<1> SUFFICES ASSUME Cardinality(offer'.crew) = 1, NEW v \in Workers PROVE Unwiped(proc'[v], rows') BY DEF NoneWiped
<1>1. offer' = offer /\ Cardinality(offer.crew) = 1 /\ IsFiniteSet(offer.crew)
  BY OfferStays, AccountsAssumption DEF Steady, TypeOK
<1>2. PICK u : offer.crew = {u} BY <1>1, FS_Singleton
<1>3. proc[v].at = "free" => Unwiped(proc[v], rows') BY DEF Unwiped
<1>4. ASSUME NEW w \in Workers, NEW next, MovesTo(w, next) PROVE Unwiped(proc'[v], rows')
  <2>1. w = u /\ Unwiped(next, rows') /\ proc'[v] = IF v = w THEN next ELSE proc[v]
    BY <1>1, <1>2, <1>4 DEF MovesTo, Steady, TypeOK
  <2>2. CASE v = w BY <2>1, <2>2
  <2>3. CASE v # w BY <1>2, <1>3, <2>1, <2>3 DEF Steady, OneCrew
  <2> QED BY <2>2, <2>3
<1>5. CASE Besides
  <2>1. proc' = proc /\ Unwiped(proc[v], rows) BY <1>1, <1>5, BesidesProc DEF NoneWiped
  <2>2. \A i \in Ids : rows'[i] = rows[i] \/ rows[i] = NoUser
    <3>1. CASE \E m \in Emails : Import(m)
      BY <3>1 DEF Import, FreeIds, Steady, TypeOK
    <3>2. CASE ~\E m \in Emails : Import(m)
      BY <1>5, <3>2 DEF Besides, AskAccess, OpenLink, Answer, Invite, Revoke, Move, Report, ChangeSettings, people
    <3> QED BY <3>1, <3>2
  <2>3. Counts(proc[v], rows, cleared, seen, invited, lastCode) /\ proc[v] \in Process
    BY DEF Steady, CountsAll, TypeOK
  <2>4. proc[v].at \in {"forget", "apply", "save", "fetch", "report"} => ~Erased(rows'[proc[v].id])
    BY <2>1, <2>2, <2>3, ProcessParts DEF Unwiped, Counts
  <2>5. proc[v].at = "loop" => \A i \in Ids : proc[v].rows[i] # NoUser /\ Erased(rows'[i]) => rows'[i] = proc[v].rows[i]
    BY <2>1, <2>2, <2>3 DEF Unwiped, Counts
  <2> QED BY <2>1, <2>4, <2>5 DEF Unwiped
<1> QED BY <1>4, <1>5, NextSplit, WorkerMoves

\* What was spent by the processes at work.
LEMMA AccountsInit == Init => AccountsInv
<1> SUFFICES ASSUME Init PROVE AccountsInv OBVIOUS
<1> USE AccountsAssumption DEF Init
<1>1. TypeOK
  BY SettingsTypeInit DEF Process, TypeOK
<1>2. OneCrew /\ CountsAll /\ NoneWiped BY DEF OneCrew, CountsAll, NoneWiped, Counts, Unwiped, Free
<1>3. CodesOnce BY DEF CodesOnce, NoInvitation, NoCode
<1>4. CodesShared
  <2> SUFFICES ASSUME NEW c \in Codes
               PROVE  /\ IsFiniteSet(spent[c])
                      /\ Cardinality(spent[c]) + Cardinality(Holders(c)) <= Cardinality(offer.crew)
    BY DEF CodesShared
  <2>1. spent[c] = {} /\ Holders(c) = {} BY DEF Holders, Free
  <2>2. Cardinality(offer.crew) \in Nat BY FS_CardinalityType
  <2> QED BY <2>1, <2>2, FS_EmptySet
<1>5. ClaimsCleared BY DEF ClaimsCleared
<1>6. ReportsDealtWith BY DEF ReportsDealtWith
<1> QED BY <1>1, <1>2, <1>3, <1>4, <1>5, <1>6 DEF AccountsInv

LEMMA AccountsStep == AccountsInv /\ [Next]_vars => AccountsInv'
<1> SUFFICES ASSUME AccountsInv, [Next]_vars PROVE AccountsInv' OBVIOUS
<1>1. Steady BY DEF AccountsInv, Steady
<1>2. CASE Next
  BY <1>1, <1>2, TypeMoves, OneCrewMoves, CountsMoves, CodesOnceMoves, CodesSharedMoves, ClaimsClearedMoves, NoneWipedMoves,
     CursorMoves DEF AccountsInv
<1>3. CASE UNCHANGED vars
  BY <1>3 DEF vars, people, work, past, settings, AccountsInv, TypeOK, OneCrew, CountsAll, CodesOnce, CodesShared, Holders,
     ClaimsCleared, NoneWiped, ReportsDealtWith, Counts, Unwiped, SettingsTypeOK, Erased
<1> QED BY <1>2, <1>3

LEMMA AccountsInvariant == Spec => []AccountsInv
BY AccountsInit, AccountsStep, PTL DEF Spec

\* The settings that logins read are those of the processes that write them.
LEMMA SettingsUnder == Spec => []SettingsInv
<1>1. Init => SettingsInv BY SettingsInvInit DEF Init
<1>2. [Next]_vars => [SettingsNext]_settings BY SettingsMove DEF vars
<1>3. SettingsInv /\ [Next]_vars => SettingsInv' BY <1>2, SettingsInvStep
<1> QED BY <1>1, <1>3, PTL DEF Spec

\* Whatever is asked and whoever works or dies: what people, rows, invitations and
\* processes hold keeps its type, an invitation lets in no more people than there
\* are processes, and no job passes a report it did not deal with.
THEOREM InvitationsBounded == Spec => [](TypeOK /\ InvitationBound /\ ReportsDealtWith)
<1>1. AccountsInv => TypeOK /\ InvitationBound /\ ReportsDealtWith BY Bounded DEF AccountsInv, Steady
<1> QED BY <1>1, AccountsInvariant, PTL

\* Logins and onboarding forms make rows for addresses that were let in only.
THEOREM GroundedAlways == Spec => Grounded
<1> DEFINE Kept == \A i \in Ids :
               rows[i] = NoUser /\ rows'[i] # NoUser /\ requests' = requests => rows'[i].mail \in cleared
<1>1. AccountsInv /\ [Next]_vars => [Kept]_vars
  BY RowsMove DEF AccountsInv, Steady, TypeOK
<1> QED BY <1>1, AccountsInvariant, PTL DEF Spec, Grounded

\* With one process, whatever was read before: a row that was wiped stays wiped.
THEOREM WipedStaysWipedAlways == Spec => WipedStaysWiped
<1> DEFINE Kept == \A i \in Ids : Cardinality(offer.crew) = 1 /\ Erased(rows[i]) => rows'[i] = rows[i]
<1>1. AccountsInv /\ [Next]_vars => [Kept]_vars
  <2> SUFFICES ASSUME AccountsInv, Next, NEW i \in Ids, Cardinality(offer.crew) = 1, Erased(rows[i])
               PROVE  rows'[i] = rows[i]
    OBVIOUS
  <2>1. Steady /\ NoneWiped BY DEF AccountsInv, Steady
  <2>2. /\ \A w \in Workers : Unwiped(proc[w], rows)
        /\ rows \in [Ids -> Row \cup {NoUser}] /\ rows[i] # NoUser
    BY <2>1 DEF NoneWiped, Steady, TypeOK, Erased
  <2>3. CASE Besides
    <3>1. CASE \E m \in Emails : Import(m)
      BY <3>1, <2>2 DEF Import, FreeIds
    <3>2. CASE ~\E m \in Emails : Import(m)
      BY <2>3, <3>2 DEF Besides, AskAccess, OpenLink, Answer, Invite, Revoke, Move, Report, ChangeSettings, people
    <3> QED BY <3>1, <3>2
  <2>4. ASSUME NEW w \in Workers, Create(w) PROVE rows'[i] = rows[i]
    BY <2>1, <2>4, CreateMoves, <2>2 DEF FreeIds
  <2>5. ASSUME NEW w \in Workers, Apply(w) \/ StoreRow(w) \/ BanReported(w) PROVE rows'[i] = rows[i]
    <3>1. proc[w].at \in {"apply", "save", "report"} BY <2>5 DEF Apply, StoreRow, BanReported, At
    <3>2. proc[w].id # i BY <2>2, <3>1 DEF Unwiped
    <3>3. \/ rows' = rows \/ rows' = [rows EXCEPT ![proc[w].id] = proc[w].row]
          \/ rows' = [rows EXCEPT ![proc[w].id] = Written1(w)]
      BY <2>1, <2>5, ApplyMoves, StoreRowMoves, BanReportedMoves
    <3> QED BY <2>2, <3>2, <3>3
  <2>6. ASSUME NEW w \in Workers, StoreNext(w) PROVE rows'[i] = rows[i]
    <3>1. proc[w].at = "loop" BY <2>6 DEF StoreNext, At
    <3>2. PICK k \in Ids : /\ proc[w].rows[k] \in Row
                           /\ rows' = rows \/ rows' = [rows EXCEPT ![k] = proc[w].rows[k]]
      BY <2>1, <2>6, StoreNextMoves
    <3>3. proc[w].rows[k] # NoUser BY <3>2, Kinds
    <3> QED BY <2>2, <3>1, <3>2, <3>3 DEF Unwiped
  <2>7. ASSUME NEW w \in Workers, Step(w) \/ Crash(w), ~(Create(w) \/ Apply(w) \/ StoreRow(w) \/ BanReported(w) \/ StoreNext(w))
        PROVE  rows' = rows
    BY <2>7 DEF Step, Crash, Approve, Consume, Enter, Forget, Tidy, Fetched, ReadReport, EndJob, people
  <2>8. ASSUME NEW w \in Workers, Take(w) PROVE rows' = rows BY <2>8, TakeFrame DEF people
  <2> QED BY <2>3, <2>4, <2>5, <2>6, <2>7, <2>8, NextSplit
<1> QED BY <1>1, AccountsInvariant, PTL DEF Spec, WipedStaysWiped

\* Who is let in without a request and an invitation is let in while the row says
\* so, unless a write is on its way or overlapped a read.
THEOREM ClosedMeansClosedAlways == Spec => ClosedMeansClosed
<1> DEFINE Kept == \A w \in Workers :
       /\ At(w, "approve") /\ proc'[w].at = "enter"
       /\ ~proc[w].claims.super /\ asked[proc[w].claims.mail] # "accepted"
       => \/ StoredAllow = "on" \/ torn[Allow]
          \/ \E c \in Clients : Writing(c, Allow)
<1>1. AccountsInv /\ SettingsInv /\ [Next]_vars => [Kept]_vars
  <2> SUFFICES ASSUME AccountsInv, SettingsInv, Next, NEW w \in Workers, At(w, "approve"), proc'[w].at = "enter",
                      ~proc[w].claims.super, asked[proc[w].claims.mail] # "accepted",
                      ~torn[Allow], \A c \in Clients : ~Writing(c, Allow)
               PROVE  StoredAllow = "on"
    OBVIOUS
  <2>1. Steady BY DEF AccountsInv, Steady
  <2>2. Approve(w)
    <3>1. ASSUME NEW v \in Workers, NEW next, MovesTo(v, next), v # w PROVE FALSE
      BY <2>1, <3>1 DEF MovesTo, At, Steady, TypeOK
    <3>2. PICK v \in Workers : Take(v) \/ Step(v) \/ Crash(v) BY NextSplit, BesidesProc DEF At
    <3>3. v = w BY <2>1, <3>1, <3>2, WorkerMoves
    <3>4. ~Take(w) BY DEF Take, LogIn, Onboard, Change, EditUsers, External, Fetch, StartJob, Taking, At
    <3>5. ~Crash(w) BY <2>1 DEF Crash, Done, Goto, Free, Steady, TypeOK
    <3> QED BY <3>2, <3>3, <3>4, <3>5 DEF Step, At, Consume, Enter, Create, Forget, Apply, Tidy, Fetched, StoreRow, StoreNext,
           ReadReport, BanReported, EndJob
  <2>3. Config(Allow) = "on"
    BY <2>1, <2>2, ApproveMoves DEF MovesTo, Steady, TypeOK, Cleared
  <2>4. cached[Allow] # Miss => cached[Allow] = stored[Allow] /\ cached[Allow] \in Values
    BY AccountsAssumption DEF SettingsInv, SettingsTypeOK, Whole, UpToDate
  <2> QED BY <2>3, <2>4 DEF Config, StoredAllow
<1> QED BY <1>1, AccountsInvariant, SettingsUnder, PTL DEF Spec, ClosedMeansClosed

\* One process that lets people in is at nothing else.
Letting == OnlyAdmits(offer) => \A w \in Workers : proc[w].at \in LettingIn \cup {"free"}

LEMMA LettingMoves == ASSUME Steady, Letting, Next PROVE Letting'
<1> SUFFICES ASSUME OnlyAdmits(offer), NEW v \in Workers PROVE proc'[v].at \in LettingIn \cup {"free"}
  BY OfferStays DEF Letting
<1>1. ASSUME NEW w \in Workers, NEW next, MovesTo(w, next), next.at \in LettingIn \cup {"free"}
      PROVE  proc'[v].at \in LettingIn \cup {"free"}
  BY <1>1 DEF MovesTo, Letting, Steady, TypeOK
<1>2. ASSUME NEW w \in Workers, Take(w) PROVE \E next : MovesTo(w, next) /\ next.at \in LettingIn
  <2>1. offer.kinds \subseteq Admitting BY DEF OnlyAdmits
  <2>2. \A p \in Persons, i \in Ids, kind \in Changes : ~Change(w, p, i, kind)
    BY <2>1 DEF Change, Taking, Asked, Admitting, Changes
  <2>3. \A p \in Persons, chosen \in SUBSET Ids, active \in BOOLEAN : ~EditUsers(w, p, chosen, active)
    BY <2>1 DEF EditUsers, Taking, Asked, Admitting
  <2>4. \A i \in Ids : ~External(w, i) /\ ~Fetch(w, i) BY <2>1 DEF External, Fetch, Taking, Asked, Admitting
  <2>5. \A j \in Jobs : ~StartJob(w, j) BY <2>1 DEF StartJob, Admitting
  <2> QED BY <1>2, <2>2, <2>3, <2>4, <2>5, LogInMoves, OnboardMoves DEF Take, LettingIn
<1>3. ASSUME NEW w \in Workers, Step(w) \/ Crash(w)
      PROVE  \E next : MovesTo(w, next) /\ next.at \in LettingIn \cup {"free"}
  <2>1. proc[w].at \in LettingIn \cup {"free"} BY DEF Letting
  <2>2. CASE Crash(w) BY <2>2, CrashMoves DEF Free
  <2>3. CASE Step(w)
    <3>1. CASE Approve(w) BY <3>1, ApproveMoves DEF LettingIn
    <3>5. CASE Consume(w) \/ Enter(w) BY <3>5, ConsumeMoves, EnterMoves DEF LettingIn
    <3>6. CASE Create(w) BY <3>6, CreateMoves DEF LettingIn
    <3>2. CASE Forget(w) \/ Apply(w) BY <3>2, ForgetMoves, ApplyMoves DEF LettingIn
    <3>3. CASE Tidy(w) BY <3>3, TidyMoves DEF Free
    <3>4. CASE Fetched(w) \/ StoreRow(w) \/ StoreNext(w) \/ ReadReport(w) \/ BanReported(w) \/ EndJob(w)
      BY <2>1, <3>4 DEF Fetched, StoreRow, StoreNext, ReadReport, BanReported, EndJob, At, LettingIn
    <3> QED BY <2>3, <3>1, <3>2, <3>3, <3>4, <3>5, <3>6 DEF Step
  <2> QED BY <1>3, <2>2, <2>3
<1>4. CASE Besides BY <1>4, BesidesProc DEF Letting
<1> QED BY <1>1, <1>2, <1>3, <1>4, NextSplit

\* What is left for a process that only lets people in.
Welcomes(w) == Approve(w) \/ Consume(w) \/ Enter(w) \/ Create(w) \/ Forget(w) \/ Apply(w) \/ Tidy(w)
LEMMA CalmNext ==
  ASSUME Steady, Letting, Calm, Next
  PROVE  \/ \E w \in Workers : Welcomes(w)
         \/ /\ \E w \in Workers, p \in Persons : LogIn(w, p) \/ Onboard(w, p)
            /\ UNCHANGED <<rows, session, spent, joined>>
         \/ /\ Besides /\ UNCHANGED <<rows, spent, joined, proc>>
<1>1. offer.kinds \subseteq Admitting /\ "crash" \notin offer.kinds BY DEF Calm, OnlyAdmits, Alone
<1>2. ASSUME NEW w \in Workers, Step(w) \/ Crash(w) PROVE Welcomes(w)
  <2>1. ~Crash(w) /\ proc[w].at \in LettingIn \cup {"free"} BY <1>1 DEF Crash, Asked, Letting, Calm
  <2> QED BY <1>2, <2>1 DEF Step, Welcomes, Fetched, StoreRow, StoreNext, ReadReport, BanReported, EndJob, At, LettingIn
<1>3. ASSUME NEW w \in Workers, Take(w)
      PROVE  (\E p \in Persons : LogIn(w, p) \/ Onboard(w, p)) /\ UNCHANGED <<rows, session, spent, joined>>
  <2>1. UNCHANGED <<rows, session, spent, joined>> BY <1>3, TakeFrame DEF people, past
  <2>2. \A p \in Persons, i \in Ids, kind \in Changes : ~Change(w, p, i, kind)
    BY <1>1 DEF Change, Taking, Asked, Admitting, Changes
  <2>3. \A p \in Persons, chosen \in SUBSET Ids, active \in BOOLEAN : ~EditUsers(w, p, chosen, active)
    BY <1>1 DEF EditUsers, Taking, Asked, Admitting
  <2>4. \A i \in Ids : ~External(w, i) /\ ~Fetch(w, i) BY <1>1 DEF External, Fetch, Taking, Asked, Admitting
  <2>5. \A j \in Jobs : ~StartJob(w, j) BY <1>1 DEF StartJob, Admitting
  <2> QED BY <1>3, <2>1, <2>2, <2>3, <2>4, <2>5 DEF Take
<1>4. ASSUME Besides PROVE UNCHANGED <<rows, spent, joined, proc>>
  <2>1. \A m \in Emails : ~Import(m) BY <1>1 DEF Import, Asked, Admitting
  <2> QED BY <1>4, <2>1, BesidesProc
         DEF Besides, AskAccess, OpenLink, Answer, Invite, Revoke, Move, Report, ChangeSettings, people, past
<1> QED BY <1>2, <1>3, <1>4, NextSplit

\* The parts of Admits.
MailsGone(R)      == \A i \in Ids : Erased(R[i]) => R[i].mail = NoMail /\ R[i].ext = Noone
LivelyUsers(s, R, in) == \A p \in Persons \ in : s[p].user # 0 => R[s[p].user] # NoUser /\ R[s[p].user].active
LetIn(p, s, P, in) ==
  p \in in \/ s[p].claims # NoClaims \/ \E w \in Workers : IsNew(P[w]) /\ P[w].claims.person = p
SpentFor(sp, s, P, in) == \A c \in Codes : \A p \in sp[c] : LetIn(p, s, P, in)
LEMMA AdmitsParts ==
  Admits <=> (Calm => /\ MailsGone(rows) /\ LivelyUsers(session, rows, joined)
                      /\ \A w \in Workers : Unhindered(proc[w], rows)
                      /\ SpentFor(spent, session, proc, joined))
BY DEF Admits, Calm, MailsGone, LivelyUsers, SpentFor, LetIn

\* Rows that are made or updated while one process lets people in.
LEMMA CalmRows ==
  ASSUME Steady, Letting, NoneWiped, Admits, Calm, Next
  PROVE  \A i \in Ids : \/ rows'[i] = rows[i]
                        \/ /\ rows'[i] # NoUser /\ ~Erased(rows'[i])
                           /\ rows[i] # NoUser /\ rows[i].active => rows'[i].active
<1> USE DEF Steady, TypeOK
<1> DEFINE Better(i) == \/ rows'[i] = rows[i]
                        \/ /\ rows'[i] # NoUser /\ ~Erased(rows'[i])
                           /\ rows[i] # NoUser /\ rows[i].active => rows'[i].active
<1>1. ASSUME NEW w \in Workers, Create(w), NEW i \in Ids PROVE Better(i)
  <2>1. rows' = rows \/ \E k \in FreeIds : rows' = [rows EXCEPT ![k] = NewRow(proc[w].claims.mail)]
    BY <1>1, CreateMoves
  <2>2. proc[w].claims.mail \in Emails BY <1>1, ProcessParts DEF Create, At, LettingIn, Claims
  <2> QED BY <2>1, <2>2, NewRowIs, Kinds DEF FreeIds
<1>2. ASSUME NEW w \in Workers, Apply(w), NEW i \in Ids PROVE Better(i)
  <2>1. proc[w].at = "apply" /\ proc[w] \in Process /\ Unhindered(proc[w], rows) /\ Unwiped(proc[w], rows)
    BY <1>2, Holds DEF Apply, At, Calm, Alone
  <2>2. proc[w].id \in Ids /\ proc[w].row \in Row /\ proc[w].claims \in Claims /\ proc[w].new \in BOOLEAN
    BY <2>1, ProcessParts DEF LettingIn
  <2>3. rows' = rows \/ rows' = [rows EXCEPT ![proc[w].id] = Written1(w)] BY <1>2, ApplyMoves
  <2>4. rows[proc[w].id] = proc[w].row /\ ~Erased(proc[w].row) BY <2>1 DEF Unhindered, Unwiped
  <2>5. /\ Written1(w) \in Row /\ Written1(w).erased = proc[w].row.erased
        /\ proc[w].row.active => Written1(w).active
    BY <2>2, UpdatedIs DEF Written1
  <2>6. Written1(w) # NoUser /\ proc[w].row # NoUser /\ Written1(w).active \in BOOLEAN /\ proc[w].row.active \in BOOLEAN
    BY <2>2, <2>5, Kinds, RowParts
  <2>7. ~Erased(Written1(w)) BY <2>4, <2>5, <2>6 DEF Erased
  <2> QED BY <2>2, <2>3, <2>4, <2>5, <2>6, <2>7
<1>3. ASSUME NEW w \in Workers, Welcomes(w), ~Create(w), ~Apply(w) PROVE rows' = rows
  BY <1>3 DEF Welcomes, Approve, Consume, Enter, Forget, Tidy
<1> QED BY <1>1, <1>2, <1>3, CalmNext

LEMMA MailsGoneMoves == ASSUME Steady, Letting, NoneWiped, Admits, Calm, Next PROVE MailsGone(rows')
BY CalmRows, AdmitsParts DEF MailsGone

LEMMA UnhinderedMoves ==
  ASSUME Steady, Letting, NoneWiped, Admits, Calm, Next PROVE \A v \in Workers : Unhindered(proc'[v], rows')
<1> SUFFICES ASSUME NEW v \in Workers PROVE Unhindered(proc'[v], rows') OBVIOUS
<1>1. IsFiniteSet(offer.crew) /\ Cardinality(offer.crew) = 1 BY AccountsAssumption DEF Calm, Alone, Steady, TypeOK
<1>2. PICK u : offer.crew = {u} BY <1>1, FS_Singleton
<1>3. ASSUME NEW w \in Workers, NEW next, MovesTo(w, next) PROVE Unhindered(proc'[v], rows')
  BY <1>2, <1>3 DEF MovesTo, Steady, TypeOK, OneCrew, Unhindered
<1>4. CASE Besides /\ UNCHANGED <<rows, spent, joined, proc>> BY <1>4, AdmitsParts
<1>5. (\E w \in Workers : \E next : MovesTo(w, next)) \/ (Besides /\ UNCHANGED <<rows, spent, joined, proc>>)
  BY CalmNext, WorkerMoves DEF Welcomes, Step, Take
<1> QED BY <1>3, <1>4, <1>5

\* What the sessions of people who are not in yet keep.
LEMMA CalmSession ==
  ASSUME Steady, Letting, NoneWiped, Admits, Calm, Next
  PROVE  /\ joined \subseteq joined'
         /\ \A p \in Persons \ joined' : /\ session'[p].user = session[p].user
                                         /\ session[p].claims # NoClaims => session'[p].claims # NoClaims
<1> USE DEF Steady, TypeOK
<1> DEFINE Stays(p) == /\ session'[p].user = session[p].user
                       /\ session[p].claims # NoClaims => session'[p].claims # NoClaims
<1>0. joined \subseteq joined' BY OthersTyped
<1>1. ASSUME NEW p \in Persons, NEW rec \in Session, session' = [session EXCEPT ![p] = rec],
             rec.user = session[p].user, session[p].claims # NoClaims => rec.claims # NoClaims
      PROVE  \A q \in Persons : Stays(q)
  BY <1>1
<1>2. ASSUME NEW w \in Workers, Approve(w), NEW q \in Persons PROVE Stays(q)
  <2>1. proc[w].claims \in Claims BY <1>2, ProcessParts DEF Approve, At, LettingIn
  <2>2. PICK c \in Claims, p \in Persons : c = proc[w].claims /\ p = c.person /\ c.mail \in Emails BY <2>1 DEF Claims
  <2> DEFINE new == [session[p] EXCEPT !.asks = c.mail]
  <2>3. new \in Session /\ new.claims = session[p].claims /\ new.user = session[p].user
    BY <2>2 DEF Session
  <2>4. session' = session \/ session' = [session EXCEPT ![p] = new] BY <1>2, <2>2 DEF Approve, Refused
  <2> HIDE DEF new
  <2> QED BY <1>1, <2>3, <2>4
<1>3. ASSUME NEW w \in Workers, Consume(w), NEW q \in Persons PROVE Stays(q)
  <2>1. proc[w].claims \in Claims BY <1>3, ProcessParts DEF Consume, At, LettingIn
  <2>2. PICK p \in Persons : p = proc[w].claims.person BY <2>1 DEF Claims
  <2> DEFINE new == [session[p] EXCEPT !.code = NoCode]
  <2>3. new \in Session /\ new.claims = session[p].claims /\ new.user = session[p].user
    BY DEF Session
  <2>4. session' = [session EXCEPT ![p] = new] BY <1>3, <2>2 DEF Consume
  <2> HIDE DEF new
  <2> QED BY <1>1, <2>3, <2>4
<1>4. ASSUME NEW w \in Workers, Enter(w), NEW q \in Persons PROVE Stays(q)
  <2>1. proc[w].claims \in Claims BY <1>4, ProcessParts DEF Enter, At, LettingIn
  <2>2. PICK c \in Claims, p \in Persons : c = proc[w].claims /\ p = c.person BY <2>1 DEF Claims
  <2> DEFINE new == [session[p] EXCEPT !.claims = c]
  <2>3. new \in Session /\ new.claims # NoClaims /\ new.user = session[p].user
    BY <2>2, Kinds DEF Session
  <2>4. session' = session \/ session' = [session EXCEPT ![p] = new] BY <1>4, <2>2 DEF Enter
  <2> HIDE DEF new
  <2> QED BY <1>1, <2>3, <2>4
<1>5. ASSUME NEW w \in Workers, Apply(w) \/ Tidy(w), NEW q \in Persons \ joined' PROVE Stays(q)
  BY <1>5 DEF Apply, Tidy, EnterSite
<1>6. ASSUME NEW p \in Persons, NEW c \in Codes, OpenLink(p, c), NEW q \in Persons PROVE Stays(q)
  <2> DEFINE new == [session[p] EXCEPT !.code = c]
  <2>1. new \in Session /\ new.claims = session[p].claims /\ new.user = session[p].user
    BY DEF Session
  <2>2. session' = [session EXCEPT ![p] = new] BY <1>6 DEF OpenLink
  <2> HIDE DEF new
  <2> QED BY <1>1, <2>1, <2>2
<1>7. ASSUME NEW kind, ByAdmin(kind), NEW q \in Persons \ joined' PROVE Stays(q)
  <2>1. PICK p \in Persons, i \in Ids, out \in BOOLEAN :
          /\ ActsAs(p, i) /\ out = ~rows[i].active
          /\ session' = IF out THEN [session EXCEPT ![p] = Fresh] ELSE session
    BY <1>7, ByAdminMoves
  <2>2. CASE p = q
    <3>1. q \in Persons \ joined /\ LivelyUsers(session, rows, joined) BY <1>0, <1>7, AdmitsParts
    <3>2. session[q].user = i /\ i # 0 BY <2>1, <2>2, AccountsAssumption DEF ActsAs
    <3>3. ~out BY <2>1, <2>2, <3>1, <3>2 DEF LivelyUsers
    <3> QED BY <2>1, <3>3
  <2>3. CASE p # q BY <1>7, <2>1, <2>3
  <2> QED BY <2>2, <2>3
<1>8. CASE Besides
  <2>1. ASSUME ~\E p \in Persons, c \in Codes : OpenLink(p, c), ~\E kind : ByAdmin(kind) PROVE session' = session
    BY <1>8, <2>1 DEF Besides, AskAccess, Import, Answer, Invite, Revoke, Move, Report, ChangeSettings, people
  <2> QED BY <1>0, <1>6, <1>7, <2>1
<1>9. ASSUME NEW w \in Workers, Welcomes(w), NEW q \in Persons \ joined' PROVE Stays(q)
  <2>1. ASSUME Create(w) \/ Forget(w) PROVE session' = session BY <2>1 DEF Create, Forget
  <2> QED BY <1>2, <1>3, <1>4, <1>5, <1>9, <2>1 DEF Welcomes
<1> QED BY <1>0, <1>8, <1>9, CalmNext

LEMMA LivelyMoves ==
  ASSUME Steady, Letting, NoneWiped, Admits, Calm, Next PROVE LivelyUsers(session', rows', joined')
<1> SUFFICES ASSUME NEW p \in Persons \ joined', session'[p].user # 0
             PROVE  rows'[session'[p].user] # NoUser /\ rows'[session'[p].user].active
  BY DEF LivelyUsers
<1>1. session'[p].user = session[p].user /\ p \in Persons \ joined BY CalmSession
<1>2. PICK i \in Ids : i = session[p].user BY <1>1 DEF Steady, TypeOK, Session
<1>3. rows[i] # NoUser /\ rows[i].active BY <1>1, <1>2, AccountsAssumption, AdmitsParts DEF LivelyUsers
<1>4. rows'[i] # NoUser BY <1>3, RowsTyped
<1> QED BY <1>1, <1>2, <1>3, <1>4, CalmRows

\* Nothing hinders who is new, and who is new gets in or has the form waiting.
LEMMA NewStays ==
  ASSUME Steady, Letting, NoneWiped, Admits, Calm, Next, NEW w \in Workers, IsNew(proc[w]),
         NEW p \in Persons, proc[w].claims.person = p
  PROVE  LetIn(p, session', proc', joined')
<1> USE DEF Steady, TypeOK
<1> DEFINE New(step) == IsNew(step) /\ step.claims.person = p
<1>0. proc[w] \in Process /\ proc[w].claims \in Claims /\ Unhindered(proc[w], rows) /\ proc[w].at # "free"
  BY ProcessParts, AdmitsParts DEF IsNew, LettingIn
<1>1. ASSUME NEW next, MovesTo(w, next), New(next) PROVE LetIn(p, session', proc', joined')
  <2>1. proc'[w] = next BY <1>1 DEF MovesTo
  <2> QED BY <1>1, <2>1 DEF LetIn
<1>2. CASE Enter(w)
  <2>1. PICK next : /\ MovesTo(w, next) /\ next.at \in {"create", "free"}
                    /\ next.at = "create" => next.claims = proc[w].claims /\ next.way = proc[w].way
                    /\ next.at = "free" => session' = [session EXCEPT ![proc[w].claims.person].claims = proc[w].claims]
    BY <1>2, EnterMoves
  <2>2. CASE next.at = "create"
    <3>1. proc[w].way = "login" BY <1>0, <1>2, ProcessParts DEF Enter, At
    <3> QED BY <1>1, <2>1, <2>2, <3>1 DEF IsNew
  <2>3. CASE next.at = "free"
    <3> DEFINE new == [session[p] EXCEPT !.claims = proc[w].claims]
    <3>1. session' = [session EXCEPT ![p] = new] BY <2>1, <2>3
    <3>2. new.claims = proc[w].claims
      BY DEF Session
    <3> HIDE DEF new
    <3>3. session'[p].claims # NoClaims BY <1>0, <3>1, <3>2, Kinds
    <3> QED BY <3>3 DEF LetIn
  <2> QED BY <2>1, <2>2, <2>3
<1>3. CASE Create(w)
  <2>1. proc[w].at = "create" BY <1>3 DEF Create, At
  <2>2. proc[w].way = "login" /\ Unknown(proc[w].claims, {}, rows) BY <1>0, <2>1 DEF IsNew, Unhindered
  <2>3. ~Taken(0, NewRow(proc[w].claims.mail)) BY <1>0, <2>2, NewRowIs DEF Taken, Unknown, Claims
  <2>4. PICK next : /\ MovesTo(w, next)
                    /\ next.at = "forget" /\ next.claims = proc[w].claims /\ next.way = proc[w].way /\ next.new
    BY <1>3, <2>3, CreateMoves
  <2> QED BY <1>1, <2>2, <2>4 DEF IsNew
<1>4. CASE Forget(w)
  BY <1>4, ForgetMoves, <1>1 DEF Forget, At, IsNew
<1>5. CASE Apply(w)
  <2>1. proc[w].at = "apply" BY <1>5 DEF Apply, At
  <2>2. proc[w].way = "login" /\ proc[w].new /\ Unknown(proc[w].claims, {proc[w].id}, rows)
    BY <1>0, <2>1 DEF IsNew, Unhindered
  <2>3. Written1(w).mail = proc[w].claims.mail /\ Written1(w).ext = proc[w].claims.person
    <3>1. proc[w].row \in Row /\ proc[w].new \in BOOLEAN BY <1>0, <2>1, ProcessParts
    <3> QED BY <1>0, <3>1, UpdatedIs DEF Written1
  <2>4. ~Taken(proc[w].id, Written1(w)) BY <2>2, <2>3 DEF Taken, Unknown
  <2>5. \E i, row, way : EnterSite(p, i, row, way) BY <1>5, <2>2, <2>4 DEF Apply, Written1
  <2>6. p \in joined' BY <2>5 DEF EnterSite
  <2> QED BY <2>6 DEF LetIn
<1>6. ASSUME Welcomes(w) PROVE LetIn(p, session', proc', joined')
  BY <1>2, <1>3, <1>4, <1>5, <1>6 DEF Welcomes, Approve, Consume, Tidy, At, IsNew
<1>7. ASSUME proc'[w] = proc[w] PROVE LetIn(p, session', proc', joined') BY <1>7 DEF LetIn
<1>8. ASSUME NEW v \in Workers, v # w, Take(v) \/ Step(v) PROVE proc'[w] = proc[w]
  BY <1>8, WorkerMoves DEF MovesTo
<1>9. ~Take(w) BY <1>0 DEF Take, LogIn, Onboard, Change, EditUsers, External, Fetch, StartJob, Taking, At
<1>10. \/ Welcomes(w) \/ (\E v \in Workers : v # w /\ (Take(v) \/ Step(v))) \/ proc' = proc
  BY <1>9, CalmNext DEF Welcomes, Step, Take
<1> QED BY <1>6, <1>7, <1>8, <1>10

LEMMA SpentForMoves ==
  ASSUME Steady, Letting, NoneWiped, Admits, Calm, Next PROVE SpentFor(spent', session', proc', joined')
<1> SUFFICES ASSUME NEW c \in Codes, NEW p \in spent'[c] PROVE LetIn(p, session', proc', joined') BY DEF SpentFor
<1>1. CASE p \in spent[c]
  <2>1. LetIn(p, session, proc, joined) /\ p \in Persons BY <1>1, AdmitsParts DEF SpentFor, Steady, TypeOK
  <2>2. CASE \E w \in Workers : IsNew(proc[w]) /\ proc[w].claims.person = p BY <2>1, <2>2, NewStays
  <2>3. CASE p \in joined \/ session[p].claims # NoClaims BY <2>1, <2>3, CalmSession DEF LetIn
  <2> QED BY <2>1, <2>2, <2>3 DEF LetIn
<1>2. CASE p \notin spent[c]
  <2>1. PICK w \in Workers : Consume(w) /\ p = proc[w].claims.person BY <1>2, SpentMoves DEF Steady, TypeOK
  <2>2. PICK next : MovesTo(w, next) /\ next.at = "enter" /\ next.claims = proc[w].claims BY <2>1, ConsumeMoves
  <2>3. proc'[w] = next BY <2>2 DEF MovesTo, Steady, TypeOK
  <2> QED BY <2>1, <2>2, <2>3 DEF LetIn, IsNew
<1> QED BY <1>1, <1>2

\* What holds where one process lets people in and nothing else is done.
AdmitsInv == Letting /\ Admits /\ NoCodes

LEMMA AdmitsInit == Init => AdmitsInv
<1> SUFFICES ASSUME Init PROVE AdmitsInv OBVIOUS
<1>1. \A w \in Workers : proc[w] = Free BY DEF Init
<1>2. Letting /\ NoCodes BY <1>1 DEF Init, Letting, NoCodes, Free
<1>3. \A c \in Codes : spent[c] = {} BY DEF Init
<1>4. Calm => MailsGone(rows) /\ LivelyUsers(session, rows, joined)
  BY DEF Init, Calm, OnlyAdmits, MailsGone, LivelyUsers
<1>5. \A w \in Workers : Unhindered(proc[w], rows) BY <1>1 DEF Unhindered, Free
<1> QED BY <1>2, <1>3, <1>4, <1>5, AdmitsParts DEF AdmitsInv, SpentFor

LEMMA AdmitsStep == AccountsInv /\ AdmitsInv /\ [Next]_vars => AdmitsInv'
<1> SUFFICES ASSUME AccountsInv, AdmitsInv, [Next]_vars PROVE AdmitsInv' OBVIOUS
<1>1. Steady /\ NoneWiped /\ Letting /\ Admits /\ NoCodes BY DEF AccountsInv, AdmitsInv, Steady
<1>2. CASE Next
  <2>1. offer' = offer BY <1>2, OfferStays
  <2>2. Letting' BY <1>1, <1>2, LettingMoves
  <2>3. NoCodes' BY <1>1, <1>2, <2>1, InvitedMoves DEF NoCodes
  <2>4. Admits'
    <3>1. Calm' <=> Calm BY <2>1 DEF Calm, Alone
    <3>2. Calm => /\ MailsGone(rows') /\ LivelyUsers(session', rows', joined')
                  /\ \A w \in Workers : Unhindered(proc'[w], rows')
                  /\ SpentFor(spent', session', proc', joined')
      BY <1>1, <1>2, MailsGoneMoves, LivelyMoves, UnhinderedMoves, SpentForMoves
    <3> QED BY <3>1, <3>2 DEF Admits, Calm, MailsGone, LivelyUsers, SpentFor, LetIn
  <2> QED BY <2>2, <2>3, <2>4 DEF AdmitsInv
<1>3. CASE UNCHANGED vars
  BY <1>1, <1>3 DEF vars, people, work, past, AdmitsInv, Letting, Admits, NoCodes, Alone, Unhindered, Erased
<1> QED BY <1>2, <1>3

\* Invitations, types and reports, for any offers whose executions with one process
\* either hand out no invitation or do nothing but let people in: there a code that
\* was used up let somebody in, or the form of that person is waiting.
THEOREM AccountsHold == InvitesOnlyToAdmit => (Spec => []AccountsSound)
<1> SUFFICES ASSUME InvitesOnlyToAdmit PROVE Spec => []AccountsSound OBVIOUS
<1>1. AccountsInv /\ AdmitsInv => AccountsSound
  <2> SUFFICES ASSUME AccountsInv, AdmitsInv PROVE AccountsSound OBVIOUS
  <2>1. Steady /\ CodesShared /\ NoCodes /\ Admits BY DEF AccountsInv, AdmitsInv, Steady
  <2>2. NotSpentForNothing
    <3> SUFFICES ASSUME Alone, NEW c \in Codes, NEW p \in spent[c]
                 PROVE  \/ p \in joined \/ session[p].claims # NoClaims
                        \/ \E w \in Workers : proc[w].at \in LettingIn /\ proc[w].claims.person = p
      BY DEF NotSpentForNothing
    <3>1. CASE "invite" \notin offer.kinds
      BY <2>1, <3>1, AccountsAssumption DEF NoCodes, Steady, CodesOnce, Codes
    <3>2. CASE OnlyAdmits(offer)
      <4>1. LetIn(p, session, proc, joined) BY <2>1, <3>2, AdmitsParts DEF Calm, SpentFor
      <4>2. \A w \in Workers : IsNew(proc[w]) => proc[w].at \in LettingIn BY DEF IsNew, LettingIn
      <4> QED BY <4>1, <4>2 DEF LetIn
    <3> QED BY <2>1, <3>1, <3>2 DEF InvitesOnlyToAdmit, Alone, Steady, TypeOK
  <2> QED BY <2>1, <2>2, Bounded DEF AccountsSound, Steady
<1>2. Spec => []AdmitsInv BY AdmitsInit, AdmitsStep, AccountsInvariant, PTL DEF Spec
<1> QED BY <1>1, <1>2, AccountsInvariant, PTL
=============================================================================
