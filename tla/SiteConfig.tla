------------------------------ MODULE SiteConfig ------------------------------
(***************************************************************************)
(* The settings of a site (core/base_config.py, core/models/setting.py,    *)
(* core/resolvers/mutation_edit_site_setting.py): one row for each key,    *)
(* and a cache in memcached in front of the rows, shared by every process. *)
(*                                                                         *)
(* A read that misses the cache reads the row and fills the cache in a     *)
(* later call; a read that finds no row stores the default, as a write     *)
(* would.  A write makes the row, saves the value, and fills the cache, in *)
(* three calls.  Entries expire after the cache's time-out.                *)
(***************************************************************************)
EXTENDS Naturals

CONSTANTS
  Keys, Values,
  Default,      \* Default[k]: DEFAULT_SITE_CONFIG
  Clients,      \* processes and threads that read and write settings
  Stores,       \* Stores: the rows a site may start with
  MaxCalls      \* bound on the number of reads, writes, starts and crashes

NoRow == "no row"
Null  == "null"     \* a row just made by get_or_create
Miss  == "miss"     \* nothing in the cache
Nobody == "nobody"

ASSUME SiteConfigAssumption ==
  /\ Default \in [Keys -> Values]
  /\ Stores \subseteq [Keys -> Values \cup {NoRow}]
  /\ NoRow \notin Values /\ Null \notin Values /\ Miss \notin Values
  /\ MaxCalls \in Nat

VARIABLES
  stored,   \* stored[k]: Setting.value
  cached,   \* cached[k]: the entry in memcached
  client,   \* client[c]: where process c is
  torn,     \* history: the keys a write overlapped or died on, until the entry expires
  calls     \* reads and writes begun so far

settings == <<stored, cached, client, torn, calls>>

\* What a process is at: a row to be read, values to be put into the cache, a
\* write on its way.  "by" tells who writes: editSiteSetting, other code that
\* sets config.KEY, or a read that stores the default.
Idle    == [at |-> "idle", keys |-> {}]
Reading == [at : {"row"}, keys : SUBSET Keys, key : Keys]
Filling == [at : {"fill"}, keys : SUBSET Keys, value : [Keys -> Values]]
Storing == [at : {"create", "save", "put"}, keys : SUBSET Keys, key : Keys, value : Values,
            by : {"edit", "config", "default"}]
Client == {Idle} \cup Reading \cup Filling \cup Storing

Busy(c, k) == k \in client[c].keys
Writing(c, k) == Busy(c, k) /\ client[c].at \in {"create", "save", "put"}

\* The keys among ks that a step of c shares with a write.
Clashes(c, ks, writes) ==
  {k \in ks : \E d \in Clients \ {c} : Busy(d, k) /\ (writes \/ Writing(d, k))}
Overlap(c, ks, writes) ==
  torn' = [k \in Keys |-> torn[k] \/ k \in Clashes(c, ks, writes)]

ClientAt(c, next) == client' = [client EXCEPT ![c] = next]
Begin(c) == client[c].at = "idle" /\ calls < MaxCalls /\ calls' = calls + 1

SettingsInit ==
  /\ stored \in Stores
  /\ cached = [k \in Keys |-> Miss]
  /\ client = [c \in Clients |-> Idle]
  /\ torn = [k \in Keys |-> FALSE]
  /\ calls = 0

(***************************************************************************)
(* Reading.                                                                *)
(***************************************************************************)
\* ConfigBackend.get, on a miss: the read of the row is still to come.
Get(c, k) ==
  /\ Begin(c)
  /\ cached[k] = Miss
  /\ ClientAt(c, [at |-> "row", keys |-> {k}, key |-> k])
  /\ Overlap(c, {k}, FALSE)
  /\ UNCHANGED <<stored, cached>>

\* A write as set and save_setting make it.
Write(k, v, by) == [at |-> "create", keys |-> {k}, key |-> k, value |-> v, by |-> by]

\* Mutant of HasValue: the row is looked up by the key of the cache.
HasValueNot(k) == FALSE
HasValue(k) == stored[k] \in Values

\* The row has a value, to be put into the cache; or Config.__getattr__ stores
\* the default.
ReadRow(c) ==
  /\ client[c].at = "row"
  /\ LET k == client[c].key IN
     IF HasValue(k)
     THEN /\ ClientAt(c, [at |-> "fill", keys |-> {k}, value |-> [j \in Keys |-> stored[k]]])
          /\ Overlap(c, {k}, FALSE)
     ELSE /\ ClientAt(c, Write(k, Default[k], "default"))
          /\ Overlap(c, {k}, TRUE)
  /\ UNCHANGED <<stored, cached, calls>>

\* One entry goes into the cache.
Fill(c) ==
  /\ client[c].at = "fill"
  /\ \E k \in client[c].keys :
       /\ cached' = [cached EXCEPT ![k] = client[c].value[k]]
       /\ Overlap(c, {k}, FALSE)
       /\ ClientAt(c, IF client[c].keys = {k} THEN Idle
                  ELSE [client[c] EXCEPT !.keys = @ \ {k}])
  /\ UNCHANGED <<stored, calls>>

\* ConfigBackend.init, when a process starts: one query, then entry by entry.
Load(c) ==
  /\ Begin(c)
  /\ LET rows == {k \in Keys : stored[k] \in Values} IN
       /\ rows # {}
       /\ ClientAt(c, [at |-> "fill", keys |-> rows,
                   value |-> [k \in Keys |-> IF k \in rows THEN stored[k] ELSE Default[k]]])
       /\ Overlap(c, rows, FALSE)
  /\ UNCHANGED <<stored, cached>>

(***************************************************************************)
(* Writing.                                                                *)
(***************************************************************************)
\* save_setting and config.KEY = v.
Set(c, k, v, by) ==
  /\ Begin(c)
  /\ ClientAt(c, Write(k, v, by))
  /\ Overlap(c, {k}, TRUE)
  /\ UNCHANGED <<stored, cached>>

\* save_setting always saves, ConfigBackend.set when the row is new or differs.
Saves(k, step) == step.by = "edit" \/ stored[k] # step.value

\* get_or_create.
GetOrCreate(c) ==
  /\ client[c].at = "create"
  /\ LET k == client[c].key IN
       /\ stored' = [stored EXCEPT ![k] = IF @ = NoRow THEN Null ELSE @]
       /\ ClientAt(c, [client[c] EXCEPT !.at = IF Saves(k, client[c]) THEN "save" ELSE "put"])
       /\ Overlap(c, {k}, TRUE)
  /\ UNCHANGED <<cached, calls>>

SaveRow(c) ==
  /\ client[c].at = "save"
  /\ LET k == client[c].key IN
       /\ stored' = [stored EXCEPT ![k] = client[c].value]
       /\ ClientAt(c, [client[c] EXCEPT !.at = "put"])
       /\ Overlap(c, {k}, TRUE)
  /\ UNCHANGED <<cached, calls>>

\* cache.set.  Mutant of Entry: the entry that is there stays.
EntryKept(old, v) == IF old = Miss THEN v ELSE old
Entry(old, v) == v
Put(c) ==
  /\ client[c].at = "put"
  /\ LET k == client[c].key IN
       /\ cached' = [cached EXCEPT ![k] = Entry(@, client[c].value)]
       /\ ClientAt(c, Idle)
       /\ Overlap(c, {k}, TRUE)
  /\ UNCHANGED <<stored, calls>>

(***************************************************************************)
(* A process dies; an entry expires.                                       *)
(***************************************************************************)
Die(c) ==
  /\ client[c].at # "idle"
  /\ calls < MaxCalls /\ calls' = calls + 1
  /\ torn' = [k \in Keys |-> torn[k] \/ Writing(c, k)]
  /\ ClientAt(c, Idle)
  /\ UNCHANGED <<stored, cached>>

\* Mutant of Expire: entries are stored without a time-out.
ExpireNot(k) == FALSE /\ UNCHANGED settings
Expire(k) ==
  /\ cached[k] # Miss
  /\ cached' = [cached EXCEPT ![k] = Miss]
  /\ torn' = [torn EXCEPT ![k] = @ /\ \E c \in Clients : Busy(c, k)]
  /\ UNCHANGED <<stored, client, calls>>

Work(c) == ReadRow(c) \/ Fill(c) \/ GetOrCreate(c) \/ SaveRow(c) \/ Put(c)
SettingsNext ==
  \/ \E c \in Clients :
       \/ Work(c) \/ Load(c) \/ Die(c)
       \/ \E k \in Keys :
            \/ Get(c, k)
            \/ \E v \in Values, by \in {"edit", "config"} : Set(c, k, v, by)
  \/ \E k \in Keys : Expire(k)

SettingsSpec == SettingsInit /\ [][SettingsNext]_settings
\* A call that began goes on, and memcached drops entries after its time-out.
SettingsFairness ==
  /\ \A c \in Clients : WF_settings(Work(c))
  /\ \A k \in Keys : WF_settings(Expire(k))

(***************************************************************************)
(* What the rest of the program sees.                                      *)
(***************************************************************************)
\* config.KEY.
Config(k) ==
  IF cached[k] # Miss THEN cached[k]
  ELSE IF stored[k] \in Values THEN stored[k] ELSE Default[k]

(***************************************************************************)
(* Properties.                                                             *)
(***************************************************************************)
\* Keys, rows, entries and processes keep their types.
SettingsTypeOK ==
  /\ stored \in [Keys -> Values \cup {NoRow, Null}]
  /\ cached \in [Keys -> Values \cup {Miss}]
  /\ client \in [Clients -> Client]
  /\ torn \in [Keys -> BOOLEAN]
  /\ calls \in 0..MaxCalls

\* An entry in the cache is what the row says, unless a write is on its way, or
\* overlapped another call or died since the entry was last dropped: reads and
\* fills alone never bring an old value back.
CacheAgrees ==
  \A k \in Keys :
    cached[k] # Miss /\ ~torn[k] /\ (\A c \in Clients : ~Writing(c, k)) => cached[k] = stored[k]

\* Nobody but an edit replaces a value that was stored; the default a read
\* stores can, but only when its calls overlapped those of a write.
ChoiceKept ==
  [][\A k \in Keys :
       stored[k] \in Values /\ stored'[k] # stored[k] =>
         torn[k] \/ \E c \in Clients : client[c].at = "save" /\ client[c].key = k /\ client[c].by # "default"
    ]_settings

\* An entry that disagrees with its row does not stay.
Heals ==
  \A k \in Keys : (cached[k] # Miss /\ cached[k] # stored[k]) ~> (cached[k] \in {Miss, stored[k]})
===============================================================================
