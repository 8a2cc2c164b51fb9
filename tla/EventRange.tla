----------------------------- MODULE EventRange -----------------------------
(***************************************************************************)
(* One range of recurring events: the factory that appends occurrences     *)
(* (event/range/factory.py), the follow-up of edits and deletions          *)
(* (event/range/sync.py), and the queries both use (event/models.py).      *)
(*                                                                         *)
(* The range is completed by the nightly task and by every request that    *)
(* lists events, in several processes at once; these steps are statements. *)
(* Time is counted in days.  RangeCalculator.next adds `every' days: the   *)
(* monthly calculators are left out (dates are days).                     *)
(***************************************************************************)
EXTENDS Integers, FiniteSets

CONSTANTS
  MaxOccurrences, \* bound: how many rows can ever be made
  Dates,          \* the days an edit can move an occurrence to
  Untils,         \* the days the program completes ranges to
  Cycles,         \* how many occurrences it wants from that day on
  Settings,       \* the range settings a form can submit
  People,         \* those who attend
  Workers,        \* the processes
  Crews,          \* the sets of processes that run side by side
  Offers,         \* the sets of kinds of request that occur together
  MaxRequests,    \* bound: number of requests
  MaxCrashes      \* bound: number of processes that die

Ids    == 1..MaxOccurrences
NoId   == 0
Unset  == -1      \* start_date is NULL
Never  == 0       \* repeatUntil is null
NoLimit == 0      \* instanceLimit is null

Setting == [every : Nat \ {0}, until : Nat, limit : Nat]

ASSUME RangeAssumption ==
  /\ MaxOccurrences \in Nat \ {0}
  /\ Dates \subseteq Nat \ {0} /\ Untils \subseteq Nat /\ Cycles \subseteq Nat
  /\ Settings \subseteq Setting
  /\ Crews \subseteq SUBSET Workers
  /\ Offers \subseteq SUBSET {"complete", "editAll", "editOne", "delete"}
  /\ MaxRequests \in Nat /\ MaxCrashes \in Nat

VARIABLES
  live,     \* the events of the range that exist
  occ,      \* their rows
  pc,       \* the statement a process executes next
  job,      \* what it has in memory
  crew,     \* the processes of this behaviour
  offer,    \* the requests of this behaviour
  budget    \* bounds: requests and crashes still to come, errors so far,
            \* whether a process died while it handed a range over

vars == <<live, occ, pc, job, crew, offer, budget>>

-----------------------------------------------------------------------------
(* Rows and queries.                                                       *)

Row == [start : Nat, date : Nat \cup {Unset}, set : Setting,
        master : Ids \cup {NoId}, ignored : BOOLEAN, closed : BOOLEAN,
        cycle : Nat \ {0}, att : SUBSET People]

NoRow == [start |-> 0, date |-> Unset,
          set |-> [every |-> 1, until |-> Never, limit |-> NoLimit],
          master |-> NoId, ignored |-> FALSE, closed |-> FALSE,
          cycle |-> 1, att |-> {}]

MasterOf(e) == IF occ[e].master = NoId THEN e ELSE occ[e].master

\* get_full_range, and the part of it after and before an occurrence.
FullRange(e)   == {x \in live : x = MasterOf(e) \/ occ[x].master = MasterOf(e)}
RangeAfter(e)  == {x \in FullRange(e) : occ[x].start > occ[e].start}
RangeBefore(e) == {x \in FullRange(e) : occ[x].start < occ[e].start}

\* Those that an ORDER BY range_starttime can put first, or last.
Firsts(S) == {x \in S : \A y \in S : occ[x].start <= occ[y].start}
Lasts(S)  == {x \in S : \A y \in S : occ[x].start >= occ[y].start}

\* get_range_stopper and get_range_last_referable.
Stoppers(e) == Lasts(FullRange(e))
Following(S) == {x \in S : ~occ[x].ignored}
Referables(e, last) ==
  IF Following(FullRange(e)) = {} THEN {last} ELSE Lasts(Following(FullRange(e)))

\* RangeCalculator.next; with the cycles that deleted occurrences left behind.
\* Mutant of NextStart: the interval is subtracted.
StepBack(r)  == r.start - r.set.every
NextStart(r) == r.start + r.set.every
NextAfter(s, r) == r.start + s.every * r.cycle

Section(e, until) == {x \in FullRange(e) : occ[x].date >= until}

\* What a process has in memory: `ref' is the event the request is about,
\* `last' the one before in a loop, `made' what the next row is made of.
Recipe == [start : Nat, master : Ids, from : Row]
Stored == [from : Ids, date : Int, people : SUBSET People]
Job == [kind : {"none", "complete", "editAll", "delete"}, ref : Ids, until : Int,
        cycle : Nat, last : Ids, made : Recipe, todo : SUBSET Ids,
        black : SUBSET Ids, stored : SUBSET Stored]

NoJob == [kind |-> "none", ref |-> 1, until |-> 0, cycle |-> 0, last |-> 1,
          made |-> [start |-> 0, master |-> 1, from |-> NoRow],
          todo |-> {}, black |-> {}, stored |-> {}]

Labels == {"idle", "look", "check", "insert", "fill", "close", "sync",
           "prune", "place", "hand over", "crown", "limit", "limits", "remove"}

-----------------------------------------------------------------------------
(* A range of n occurrences with regular dates, of which the one after g    *)
(* was deleted (none if g = n); anybody attends any.                       *)

StartOf(i, g, s) == 1 + s.every * (IF i > g THEN i ELSE i - 1)

Regular(n, g, s, a) ==
  [i \in Ids |-> IF i > n THEN NoRow
                 ELSE [NoRow EXCEPT !.start = StartOf(i, g, s),
                                    !.date = StartOf(i, g, s),
                                    !.set = s,
                                    !.cycle = IF i = g /\ g < n THEN 2 ELSE 1,
                                    !.master = IF i = 1 THEN NoId ELSE 1,
                                    !.att = a[i]]]

Within(n, g, s) == /\ s.limit # NoLimit => n <= s.limit
                   /\ s.until # Never => StartOf(n, g, s) <= s.until

InitialLengths == 1..3

Init ==
  /\ crew \in Crews /\ offer \in Offers
  /\ \E n \in InitialLengths \cap Ids, s \in Settings :
       \E g \in 1..n, a \in [1..n -> SUBSET People] :
         /\ Within(n, g, s)
         /\ g < n => "delete" \in offer
         /\ live = 1..n
         /\ occ = Regular(n, g, s, a)
  /\ pc = [w \in Workers |-> "idle"]
  /\ job = [w \in Workers |-> NoJob]
  /\ budget = [requests |-> MaxRequests, crashes |-> MaxCrashes, errors |-> 0, torn |-> FALSE]

May(w, kind) == /\ w \in crew /\ pc[w] = "idle" /\ kind \in offer
                /\ budget.requests > 0
                /\ budget' = [budget EXCEPT !.requests = @ - 1]

GoTo(w, l)  == pc' = [pc EXCEPT ![w] = l]
Finish(w)   == /\ pc' = [pc EXCEPT ![w] = "idle"]
               /\ job' = [job EXCEPT ![w] = NoJob]
Fixed       == UNCHANGED <<crew, offer>>
Failed      == budget' = [budget EXCEPT !.errors = @ + 1]

-----------------------------------------------------------------------------
(* complete_range and EventRangeFactory.create_next_event.                 *)

\* The nightly task, a list of events, the field nextEvent: any open master.
Complete(w) ==
  /\ May(w, "complete")
  /\ \E m \in live, u \in Untils, c \in Cycles :
       /\ occ[m].master = NoId /\ ~occ[m].closed
       /\ job' = [job EXCEPT ![w] = [NoJob EXCEPT !.kind = "complete", !.ref = m,
                                                  !.until = u, !.cycle = c]]
  /\ GoTo(w, "look") /\ Fixed /\ UNCHANGED <<live, occ>>

\* What follows when there is nothing (more) to append.
\* Mutant of Completed: the recursion is entered again.
TryAgain(w)  == GoTo(w, "look") /\ UNCHANGED job
Completed(w) == IF job[w].kind = "editAll"
                THEN GoTo(w, "prune") /\ UNCHANGED job ELSE Finish(w)

Enough(w) == Cardinality(Section(job[w].ref, job[w].until)) >= job[w].cycle

LookEnough(w) ==
  /\ pc[w] = "look" /\ Enough(w)
  /\ Completed(w) /\ Fixed /\ UNCHANGED <<live, occ, budget>>

\* The copy of the stopper that the factory keeps as its event.
Look(w) ==
  /\ pc[w] = "look" /\ ~Enough(w)
  /\ \E e \in Stoppers(job[w].ref) : job' = [job EXCEPT ![w].last = e]
  /\ GoTo(w, "check") /\ Fixed /\ UNCHANGED <<live, occ, budget>>

\* assert_due_date_valid and assert_instance_count_valid, with the settings of
\* the copy e: start is the date of the next occurrence.
\* Mutant of DueDateValid: the last date is compared, not the next.
LastDateValid(e, start) == occ[e].set.until # Never => occ[e].start <= occ[e].set.until
DueDateValid(e, start) == occ[e].set.until # Never => start <= occ[e].set.until
\* Mutant of CountValid: off by one.
CountAlmostValid(e) == occ[e].set.limit # NoLimit
                         => occ[e].set.limit >= Cardinality(FullRange(e))
CountValid(e) == occ[e].set.limit # NoLimit
                   => occ[e].set.limit > Cardinality(FullRange(e))

\* The master of the occurrence after e, for the factory of f.
\* Mutant of MasterFor: always the factory's own event.
MasterSelf(e, f) == f
MasterFor(e, f) == IF occ[e].master = NoId THEN f ELSE occ[e].master

\* create_next_event looks for the last occurrence once more, and for the last
\* one that has not left the range, of which the new one becomes a copy.
Check(w) ==
  /\ pc[w] = "check"
  /\ \E e \in Stoppers(job[w].last) : \E r \in Referables(job[w].last, e) :
       /\ job' = [job EXCEPT ![w].made =
                    [start  |-> NextStart(occ[e]),
                     master |-> MasterFor(e, job[w].last),
                     from   |-> [occ[r] EXCEPT !.att = {}]]]
       /\ GoTo(w, IF /\ DueDateValid(job[w].last, NextStart(occ[e]))
                     /\ CountValid(job[w].last)
                  THEN "insert" ELSE "close")
  /\ Fixed /\ UNCHANGED <<live, occ, budget>>

Close(w) ==
  /\ pc[w] = "close"
  /\ occ' = [x \in Ids |-> IF x \in FullRange(job[w].ref)
                           THEN [occ[x] EXCEPT !.closed = TRUE] ELSE occ[x]]
  /\ Completed(w) /\ Fixed /\ UNCHANGED <<live, budget>>

\* Event.objects.create: the new row has no start_date yet.
Insert(w) ==
  /\ pc[w] = "insert"
  /\ \E x \in Ids \ live :
       /\ \A y \in Ids \ live : x <= y
       /\ live' = live \cup {x}
       /\ occ' = [occ EXCEPT ![x] = [NoRow EXCEPT
                    !.start = job[w].made.start, !.master = job[w].made.master,
                    !.set = job[w].made.from.set]]
       /\ job' = [job EXCEPT ![w].todo = {x}]
  /\ GoTo(w, "fill") /\ Fixed /\ UNCHANGED budget

\* The row of x as update_range leaves it, after row r, starter s.
\* Mutant of Updated: every date is computed from the starter.
UpdatedFromStarter(x, r, s) ==
  [occ[x] EXCEPT !.start = NextAfter(s.set, s), !.set = s.set,
                 !.date = NextAfter(s.set, s) + s.date - s.start]
Updated(x, r, s) ==
  [occ[x] EXCEPT !.start = NextAfter(s.set, r), !.set = s.set,
                 !.date = IF occ[x].ignored THEN occ[x].date
                          ELSE NextAfter(s.set, r) + s.date - s.start]

\* update_range on the new row; then complete_range calls itself.
Fill(w) ==
  /\ pc[w] = "fill" /\ job[w].made.from.date # Unset
  /\ occ' = [x \in Ids |-> IF x \in job[w].todo
                           THEN Updated(x, job[w].made.from, job[w].made.from)
                           ELSE occ[x]]
  /\ job' = [job EXCEPT ![w].todo = {}]
  /\ GoTo(w, "look") /\ Fixed /\ UNCHANGED <<live, budget>>

\* The offset of a row without start_date raises TypeError: the request fails
\* and the new row stays as it is.
FillFails(w) ==
  /\ pc[w] = "fill" /\ job[w].made.from.date = Unset
  /\ Finish(w) /\ Failed /\ Fixed /\ UNCHANGED <<live, occ>>

-----------------------------------------------------------------------------
(* Edits: event_edit and EventRangeSync.                                   *)

\* assert_valid_updated_range.
ValidSettings(e, d, s) ==
  /\ s.until # Never => d <= s.until
  /\ s.until = Never /\ s.limit # NoLimit => s.limit > Cardinality(RangeBefore(e))

\* Nobody moves an occurrence past the one before or after it.
InPlace(e, d) == \A x \in FullRange(e) \ {e} :
                    /\ occ[x].start < occ[e].start => occ[x].start < d
                    /\ occ[x].start >= occ[e].start => occ[x].start > d

\* The form is saved with updateRange; _store_attendees reads who attends later.
StoredAttendees(e, d) ==
  {[from |-> x, date |-> occ[x].date, people |-> occ[x].att] :
     x \in {y \in FullRange(e) \ {e} : occ[y].start > d /\ occ[y].att # {}}}

LastDate(d, stored) ==
  CHOOSE m \in {d} \cup {t.date : t \in stored} :
    \A n \in {d} \cup {t.date : t \in stored} : n <= m

EditAll(w) ==
  /\ May(w, "editAll")
  /\ \E e \in live, d \in Dates, s \in Settings :
       /\ ValidSettings(e, d, s) /\ InPlace(e, d)
       /\ occ' = [occ EXCEPT ![e].start = d, ![e].date = d, ![e].set = s]
       /\ job' = [job EXCEPT ![w] =
                    [NoJob EXCEPT !.kind = "editAll", !.ref = e, !.last = e,
                                  !.stored = StoredAttendees(e, d),
                                  !.until = LastDate(d, StoredAttendees(e, d)),
                                  !.cycle = 1,
                                  !.todo = {x \in FullRange(e) \ {e} : occ[x].start > d}]]
  /\ GoTo(w, "sync") /\ Fixed /\ UNCHANGED live

\* update_range: one later occurrence after the other.
Sync(w) ==
  /\ pc[w] = "sync"
  /\ \E x \in Firsts(job[w].todo) :
       /\ occ' = [occ EXCEPT ![x] = Updated(x, occ[job[w].last], occ[job[w].ref])]
       /\ job' = [job EXCEPT ![w].last = x, ![w].todo = @ \ {x}]
  /\ Fixed /\ UNCHANGED <<live, pc, budget>>

\* update_range_limit: the limits of the row r in the settings of another.
Limited(s, r) ==
  [s EXCEPT !.until = r.set.until,
            !.limit = IF r.set.until # Never THEN NoLimit ELSE r.set.limit]

SyncLimits(w) ==
  /\ pc[w] = "sync" /\ job[w].todo = {}
  /\ occ' = [x \in Ids |->
               IF x \in RangeBefore(job[w].ref)
               THEN [occ[x] EXCEPT !.set = Limited(@, occ[job[w].ref])]
               ELSE occ[x]]
  /\ GoTo(w, "look") /\ Fixed /\ UNCHANGED <<live, job, budget>>

\* The order of the range; occurrences of one date in the order they were made.
Precedes(y, x) == \/ occ[y].start < occ[x].start
                  \/ occ[y].start = occ[x].start /\ y < x

\* _remove_obsolete_items: which occurrences have to go.
Beyond(e, S) ==
  LET s == occ[e].set IN
  IF s.until # Never THEN {x \in S : x \in RangeAfter(e) /\ occ[x].date > s.until}
  ELSE IF s.limit = NoLimit THEN {}
  ELSE {x \in S : Cardinality({y \in S : Precedes(y, x)}) >= s.limit}

Prune(w) ==
  /\ pc[w] = "prune"
  /\ job' = [job EXCEPT ![w].black = Beyond(job[w].ref, FullRange(job[w].ref))]
  /\ GoTo(w, "place") /\ Fixed /\ UNCHANGED <<live, occ, budget>>

\* RepositionAttendees: the first occurrence from that day on, or the last.
\* Mutant of Targets: the occurrences about to be deleted are not left out.
TargetsAnywhere(e, black, t) ==
  LET later == {x \in RangeAfter(e) : occ[x].date >= t.date}
  IN IF later # {} THEN Firsts(later) ELSE Lasts(FullRange(e))
Targets(e, black, t) ==
  LET later == {x \in RangeAfter(e) \ black : occ[x].date >= t.date}
  IN IF later # {} THEN Firsts(later) ELSE Lasts(FullRange(e) \ black)

Earliest(S) == {t \in S : \A u \in S : occ[t.from].start <= occ[u.from].start}

Moved(t, x, who) == [occ EXCEPT ![t.from].att = @ \ who, ![x].att = @ \cup who]

Place(w) ==
  /\ pc[w] = "place"
  /\ \E t \in Earliest(job[w].stored) :
       \E x \in Targets(job[w].ref, job[w].black, t) :
         /\ t.from = x \/ t.people \cap occ[x].att = {}
         /\ occ' = IF t.from = x THEN occ ELSE Moved(t, x, t.people)
         /\ job' = [job EXCEPT ![w].stored = @ \ {t}]
  /\ Fixed /\ UNCHANGED <<live, pc, budget>>

\* Somebody already attends the other occurrence: the unique key refuses the
\* save and the request fails, with the attendees before that one moved.
PlaceFails(w) ==
  /\ pc[w] = "place"
  /\ \E t \in Earliest(job[w].stored) :
       \E x \in Targets(job[w].ref, job[w].black, t) :
         /\ t.from # x /\ t.people \cap occ[x].att # {}
         /\ \E who \in SUBSET (t.people \ occ[x].att) : occ' = Moved(t, x, who)
  /\ Finish(w) /\ Failed /\ Fixed /\ UNCHANGED live

\* The rows in gone are deleted, and by CASCADE those they are the master of, or
\* the master of their master: with one death no chain of masters is longer.
Deleted(gone) == gone \cup {x \in live : occ[x].master # NoId /\ {occ[x].master, occ[occ[x].master].master} \cap gone # {}}

\* The obsolete occurrences are deleted and the range is opened.
PlaceDone(w) ==
  /\ pc[w] = "place" /\ job[w].stored = {}
  /\ LET gone == Deleted(job[w].black) IN
       /\ live' = live \ gone
       /\ occ' = [x \in Ids |->
                    IF x \in gone THEN NoRow
                    ELSE IF x \in FullRange(job[w].ref)
                         THEN [occ[x] EXCEPT !.closed = FALSE] ELSE occ[x]]
  /\ Finish(w) /\ Fixed /\ UNCHANGED budget

\* The form is saved without updateRange: the occurrence leaves the range, and
\* the range is opened unless it had left before.
EditOne(w) ==
  /\ May(w, "editOne")
  /\ \E e \in live, d \in Dates, s \in Settings :
       /\ ValidSettings(e, d, s)
       /\ occ' = [x \in Ids |->
            LET y == IF ~occ[e].ignored /\ x \in FullRange(e)
                     THEN [occ[x] EXCEPT !.closed = FALSE] ELSE occ[x]
            IN IF x = e THEN [y EXCEPT !.date = d, !.set = s, !.ignored = TRUE]
                        ELSE y]
  /\ Fixed /\ UNCHANGED <<live, pc, job>>

-----------------------------------------------------------------------------
(* deleteEntity: EventRangeSync.pre_delete and the deletion.               *)

\* resolve_delete_entity has the copy it loaded; what follows are commits of
\* their own.
Delete(w) ==
  /\ May(w, "delete")
  /\ \E e \in live : job' = [job EXCEPT ![w] = [NoJob EXCEPT !.kind = "delete", !.ref = e]]
  /\ GoTo(w, "hand over") /\ Fixed /\ UNCHANGED <<live, occ>>

\* What a deletion does next: a range with a limit is to have one less.
AfterHanding(w) == GoTo(w, IF occ[job[w].ref].set.limit = NoLimit THEN "remove" ELSE "limit")

\* The occurrence before takes over the place of the deleted one, ...
Bridge(w) ==
  /\ pc[w] = "hand over" /\ RangeBefore(job[w].ref) # {}
  /\ \E p \in Lasts(RangeBefore(job[w].ref)) :
       /\ occ' = [occ EXCEPT ![p].cycle = @ + 1]
       /\ job' = [job EXCEPT ![w].last = p]
  /\ AfterHanding(w) /\ Fixed /\ UNCHANGED <<live, budget>>

\* ... or the next one gets the range: first the others name it, ...
\* Mutant of Renamed: the others keep their master.
RenamedNone(n) == occ
Renamed(n) == [x \in Ids |-> IF x \in RangeAfter(n) THEN [occ[x] EXCEPT !.master = n] ELSE occ[x]]
HandOver(w) ==
  /\ pc[w] = "hand over" /\ RangeBefore(job[w].ref) = {}
  /\ IF RangeAfter(job[w].ref) = {} THEN GoTo(w, "remove") /\ UNCHANGED <<occ, job>>
     ELSE /\ \E n \in Firsts(RangeAfter(job[w].ref)) :
               occ' = Renamed(n) /\ job' = [job EXCEPT ![w].last = n]
          /\ GoTo(w, "crown")
  /\ Fixed /\ UNCHANGED <<live, budget>>

\* ... then it stops naming another.
Crown(w) ==
  /\ pc[w] = "crown"
  /\ occ' = [occ EXCEPT ![job[w].last].master = NoId]
  /\ AfterHanding(w) /\ Fixed /\ UNCHANGED <<live, job, budget>>

\* _decrement_instance_limit: the one that took over, then those it still finds
\* after the deleted one, which are none when the range was handed over, and
\* those before.
Decrement(w) ==
  /\ pc[w] = "limit"
  /\ LET e == job[w].ref IN
     /\ occ' = [occ EXCEPT ![job[w].last].set.limit = occ[e].set.limit - 1]
     /\ job' = [job EXCEPT ![w].todo = RangeAfter(e) \cup RangeBefore(e)]
  /\ GoTo(w, "limits") /\ Fixed /\ UNCHANGED <<live, budget>>

FollowLimit(w) ==
  /\ pc[w] = "limits"
  /\ IF job[w].todo = {} THEN GoTo(w, "remove") /\ UNCHANGED <<occ, job>>
     ELSE LET after == {x \in job[w].todo : occ[x].start > occ[job[w].ref].start} IN
          /\ \E x \in Firsts(IF after # {} THEN after ELSE job[w].todo) :
               /\ occ' = [occ EXCEPT ![x].set = Limited(@, occ[job[w].last])]
               /\ job' = [job EXCEPT ![w].todo = @ \ {x}]
          /\ UNCHANGED pc
  /\ Fixed /\ UNCHANGED <<live, budget>>

Remove(w) ==
  /\ pc[w] = "remove"
  /\ LET gone == Deleted({job[w].ref}) IN
       /\ live' = live \ gone
       /\ occ' = [x \in Ids |-> IF x \in gone THEN NoRow ELSE occ[x]]
  /\ Finish(w) /\ Fixed /\ UNCHANGED budget

\* A process dies between two statements.
HandingOver(w) == job[w].kind = "delete" /\ pc[w] # "hand over" /\ occ[job[w].ref].master = NoId
Die(w) ==
  /\ pc[w] # "idle" /\ budget.crashes > 0
  /\ budget' = [budget EXCEPT !.crashes = @ - 1, !.torn = @ \/ HandingOver(w)]
  /\ Finish(w) /\ Fixed /\ UNCHANGED <<live, occ>>

Step(w) == \/ LookEnough(w) \/ Look(w) \/ Check(w) \/ Close(w) \/ Insert(w)
           \/ Fill(w) \/ FillFails(w) \/ Sync(w) \/ SyncLimits(w) \/ Prune(w)
           \/ Place(w) \/ PlaceFails(w) \/ PlaceDone(w)
           \/ Bridge(w) \/ HandOver(w) \/ Crown(w) \/ Decrement(w) \/ FollowLimit(w) \/ Remove(w)

Arrive(w) == Complete(w) \/ EditAll(w) \/ EditOne(w) \/ Delete(w)

Next == \E w \in Workers : Step(w) \/ Arrive(w) \/ Die(w)

Spec     == Init /\ [][Next]_vars
FairSpec == Spec /\ \A w \in Workers : WF_vars(Step(w))

-----------------------------------------------------------------------------
(* Properties.                                                             *)

TypeOK ==
  /\ live \subseteq Ids
  /\ occ \in [Ids -> Row]
  /\ pc \in [Workers -> Labels]
  /\ job \in [Workers -> Job]
  /\ crew \in Crews /\ offer \in Offers
  /\ budget \in [requests : Nat, crashes : Nat, errors : Nat, torn : BOOLEAN]

Alone  == \A v, w \in crew : v = w
Quiet  == \A w \in Workers : pc[w] = "idle"
Intact == budget.crashes = MaxCrashes /\ budget.errors = 0

\* Between two requests a range has one master, the first of its occurrences,
\* and every other names it: FullRange finds the same events from each of them.
\* A process that dies between handing the range over and deleting leaves two.
OneMaster ==
  Alone /\ Quiet /\ ~budget.torn /\ live # {} =>
    \E m \in Firsts(live) : /\ occ[m].master = NoId
                            /\ \A x \in live \ {m} : occ[x].master = m

\* Deleting an occurrence takes no other along: the master hands the range over
\* before the CASCADE of range_master reaches it (pre_delete, sync.py:41).  Not
\* so once an edit was interrupted: two occurrences can then have one date.  A
\* deletion that died while it handed over can be repeated; only the next
\* occurrence may then be named by others and name the old master, and takes
\* them along.
RangeSurvives ==
  [][\A w \in Workers :
       /\ Remove(w) /\ Alone
       /\ Intact \/ (budget.torn /\ budget.errors = 0 /\ occ[job[w].ref].master = NoId)
       => \A x \in live \ live' : live = live' \cup {x}]_vars

\* Between two requests no two occurrences that follow the range have the same
\* date: appending, renumbering after an edit and bridging a deleted occurrence
\* (range_cycle) fit together.  Occurrences that left the range are exempt.
DistinctStarts ==
  Alone /\ Quiet /\ Intact =>
    \A x, y \in Following(live) : occ[x].start = occ[y].start => x = y

\* No occurrence lies beyond repeatUntil, whatever edits moved it to
\* (assert_due_date_valid, _remove_obsolete_items), as long as none is deleted:
\* the date is checked without the extra cycle that a deletion leaves.
UntilRespected ==
  Alone /\ Quiet /\ Intact /\ offer \subseteq {"complete", "editAll"} =>
    \A x \in Following(live) :
      occ[x].set.until # Never => occ[x].start <= occ[x].set.until

\* instanceLimit is counted in one statement and the row made in a later one
\* (factory.py:43, :58): n processes exceed it by n - 1 at most, one process
\* never, also after an edit that lowers it.
LimitBound ==
  \/ offer = {"complete"}
  \/ Alone /\ Quiet /\ Intact /\ offer = {"complete", "editAll"}
  => \A x \in live : occ[x].set.limit # NoLimit =>
       Cardinality(live) <= occ[x].set.limit + Cardinality(crew) - 1

\* Whoever attends an occurrence still attends one after any step but the
\* deletion of an occurrence: obsolete ones are emptied before they go
\* (RepositionAttendees), also when the request fails half-way.  Not so in a
\* range a deletion left torn: what an edit prunes there can be named by others.
Attending == UNION {occ[x].att : x \in live}
NobodyDropped ==
  [][(\E w \in Workers : Remove(w)) \/ budget.torn \/ Attending \subseteq Attending']_vars

\* Every request ends: completing a range, the recursion included, stops.
JobsEnd == \A w \in Workers : (pc[w] # "idle") ~> (pc[w] = "idle")

\* The comment of the nightly task: "Add the two next events".  A request that
\* completes an open range leaves the occurrences it wanted, or closes it.
AddsNext ==
  [][\A w \in Workers :
       /\ job[w].kind = "complete" /\ pc[w] # "idle" /\ pc'[w] = "idle"
       /\ budget.crashes' = budget.crashes
       => \/ occ'[job[w].ref].closed
          \/ Cardinality({x \in live' : occ'[x].date >= job[w].until})
               >= job[w].cycle]_vars

\* What holds of the occurrences of a range between requests.
RangeSound == TypeOK /\ OneMaster /\ DistinctStarts /\ UntilRespected /\ LimitBound
\* What no step does to the attendees and the occurrences, and that each request ends.
RangeKept == NobodyDropped /\ RangeSurvives /\ JobsEnd
=============================================================================
