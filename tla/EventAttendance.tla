--------------------------- MODULE EventAttendance ---------------------------
(***************************************************************************)
(* Registration for events: event/models.py (Event, EventAttendee) and the *)
(* resolvers and views that change attendee rows.                          *)
(*                                                                         *)
(* The code runs without ATOMIC_REQUESTS, transaction.atomic or row locks: *)
(* every ORM call is a transaction of its own.  A worker (a web process or *)
(* a Celery process) therefore executes a request one database statement   *)
(* at a time, and the statements of different workers interleave.  One     *)
(* action below is one statement together with the local computation up to *)
(* the next one.  A row read by a worker is a copy; Model.save() writes    *)
(* every field of that copy back, by primary key, and inserts it again     *)
(* when the key is gone.                                                   *)
(***************************************************************************)
EXTENDS Integers, FiniteSets

CONSTANTS
  Events,       \* events and their sub-events
  Children,     \* Children[e]: the sub-events of e
  SlotMates,    \* SlotMates[e]: the other sub-events that share a slot with e
  Emails,       \* persons, identified by their e-mail address
  Accounts,     \* the persons who have a user account
  Asked,        \* persons who hold a confirmation code when the model starts
  Capacities,   \* values max_attendees can take; 0 stands for "no maximum"
  Tables,       \* attendee tables the model may start with
  StartClock,   \* no row of these tables is younger than this
  Workers,      \* the processes that serve requests
  Kinds,        \* the kinds of request that occur, and "crash"
  Inputs,       \* the states members ask for; "invalid" is any refused one
  MaxRequests   \* bound: number of requests served in a behaviour

AllKinds == {"attend", "confirm", "remove", "add", "ask", "edit", "scan",
             "code", "capacity", "crash"}

ASSUME ParamAssumption ==
  /\ Events # {}
  /\ Emails # {} /\ IsFiniteSet(Emails)
  /\ Workers # {} /\ IsFiniteSet(Workers)
  /\ Accounts \subseteq Emails
  /\ Asked \subseteq Emails
  /\ Children \in [Events -> SUBSET Events]
  /\ SlotMates \in [Events -> SUBSET Events]
  /\ \A e \in Events : /\ e \notin Children[e] \cup SlotMates[e]
                      /\ \A m \in SlotMates[e] : e \in SlotMates[m]
  /\ Capacities \subseteq Nat
  /\ StartClock \in Nat
  /\ Kinds \subseteq AllKinds
  /\ Inputs \subseteq {"accept", "maybe", "reject", "waitinglist", "invalid"}
  /\ MaxRequests \in Nat

VARIABLES
  rows,    \* rows[e][p]: the attendee row of p for e, NoRow when there is none
  maxAtt,  \* maxAtt[e]: the stored max_attendees of e
  asks,    \* asks[e][p]: the codes of the EventAttendeeRequest rows
  now,     \* the clock that stamps rows; also the source of primary keys
  left,    \* requests that may still arrive
  pc,      \* pc[w]: the statement worker w executes next
  job,     \* job[w]: the request w serves
  row,     \* row[w]: the copy of the requester's row w has in memory
  cap,     \* cap[w][e]: max_attendees in the copy of e that w has in memory
  cur,     \* cur[w]: the event whose row is deleted or waiting list processed
  del,     \* del[w]: primary key of the row w deletes next
  todo,    \* todo[w]: sub-events whose row w still has to delete
  wl,      \* wl[w][p]: copies of the waiting rows w still has to process
  head     \* head[w]: the person w is promoting

db    == <<rows, maxAtt, asks, now, left>>
local == <<job, row, cap, cur, del, todo, wl, head>>
vars  == <<rows, maxAtt, asks, now, left,
           pc, job, row, cap, cur, del, todo, wl, head>>

States == {"absent", "blank", "accept", "maybe", "reject", "waitinglist"}

\* by: whether the row's user is set or only its email; desk: checked in or not.
Row == [id: Nat, state: States, by: {"user", "email"}, desk: {"in", "out"}, at: Nat]

NoRow == [id |-> 0, state |-> "absent", by |-> "email", desk |-> "out", at |-> 0]

Labels == {"idle", "get", "again", "state", "clean", "write", "kids", "child",
           "del", "list", "seat", "offer", "promote", "forget", "store", "ask"}

Wants == Inputs \cup {"accept", "none", "in", "out"}

Job == [kind: AllKinds \cup {"none"}, ev: Events, who: Emails,
        want: Wants, code: Nat]

(***************************************************************************)
(* What the queries return.                                                *)
(***************************************************************************)

Seated(e)     == {p \in Emails : rows[e][p].state = "accept"}
Waiting(e)    == {p \in Emails : rows[e][p].state = "waitinglist"}
\* Mutant of Full: the comparison is off by one.
FullTooLate(limit, e) == limit # 0 /\ Cardinality(Seated(e)) > limit

Full(limit, e) == limit # 0 /\ Cardinality(Seated(e)) >= limit

\* event.attendees.get(user=user) misses a row that has no user set, and the
\* check-in view fails on attendee.user.name before it changes such a row.
Found(w) ==
  LET r == rows[job[w].ev][job[w].who]
  IN  IF job[w].kind \in {"attend", "scan"} /\ r.by # "user" THEN NoRow ELSE r

\* Mutant of Clash: rows without an account are not compared.
ClashOfMembers(e, p) ==
  \E m \in SlotMates[e] : rows[m][p].state = "accept" /\ rows[m][p].by = "user"

\* clean_event: p already holds a seat in a sub-event of the same slot.
Clash(e, p) == \E m \in SlotMates[e] : rows[m][p].state = "accept"

\* Only a row saved as accepted, in a sub-event with slots, is validated.
NeedsClean(e, r) == SlotMates[e] # {} /\ r.state = "accept"
SaveLabel(e, r)  == IF NeedsClean(e, r) THEN "clean" ELSE "write"

Queue(w)   == {p \in Emails : wl[w][p] # NoRow}

\* Mutant of IsFirst: the waiting list is read in the opposite order.
IsLast(w, p) == /\ p \in Queue(w)
                /\ \A q \in Queue(w) : wl[w][p].at >= wl[w][q].at

IsFirst(w, p) == /\ p \in Queue(w)
                 /\ \A q \in Queue(w) : wl[w][p].at <= wl[w][q].at

\* The copy can be saved: its row is still there, or no row is.
Saves(e, p, r) == rows[e][p].id \in {r.id, 0}

-----------------------------------------------------------------------------
NoJob == [kind |-> "none", ev |-> CHOOSE e \in Events : TRUE,
          who |-> CHOOSE p \in Emails : TRUE, want |-> "none", code |-> 0]
NoQueue == [p \in Emails |-> NoRow]

\* What earlier requests leave behind: nobody waits for an event with a free
\* seat, no event has more accepted attendees than seats, and nobody holds two
\* seats of a slot.
Settled(e) ==
  /\ \A m \in SlotMates[e] : Seated(e) \cap Seated(m) = {}
  /\ Waiting(e) # {} => Full(maxAtt[e], e)
  /\ maxAtt[e] # 0 => Cardinality(Seated(e)) <= maxAtt[e]

Init ==
  /\ rows \in Tables
  /\ rows \in [Events -> [Emails -> Row]]
  /\ \A e \in Events, p \in Emails :
       /\ rows[e][p].id <= StartClock /\ rows[e][p].at <= StartClock
       /\ (rows[e][p].id = 0) <=> (rows[e][p] = NoRow)
  /\ maxAtt \in [Events -> Capacities]
  /\ \A e \in Events : Settled(e)
  /\ asks = [e \in Events |-> [p \in Emails |-> IF p \in Asked THEN {0} ELSE {}]]
  /\ now = StartClock
  /\ left = MaxRequests
  /\ pc   = [w \in Workers |-> "idle"]
  /\ job  = [w \in Workers |-> NoJob]
  /\ row  = [w \in Workers |-> NoRow]
  /\ cap  = [w \in Workers |-> [e \in Events |-> 0]]
  /\ cur  = [w \in Workers |-> NoJob.ev]
  /\ del  = [w \in Workers |-> 0]
  /\ todo = [w \in Workers |-> {}]
  /\ wl   = [w \in Workers |-> NoQueue]
  /\ head = [w \in Workers |-> NoJob.who]

Goto(w, label) == pc' = [pc EXCEPT ![w] = label]

\* The request is answered, with a result or with an error: the worker drops
\* everything it held in memory.
Finish(w) ==
  /\ Goto(w, "idle")
  /\ job'  = [job  EXCEPT ![w] = NoJob]
  /\ row'  = [row  EXCEPT ![w] = NoRow]
  /\ cap'  = [cap  EXCEPT ![w] = [e \in Events |-> 0]]
  /\ cur'  = [cur  EXCEPT ![w] = NoJob.ev]
  /\ del'  = [del  EXCEPT ![w] = 0]
  /\ todo' = [todo EXCEPT ![w] = {}]
  /\ wl'   = [wl   EXCEPT ![w] = NoQueue]
  /\ head' = [head EXCEPT ![w] = NoJob.who]

(***************************************************************************)
(* A request arrives: the resolver loads the event.                        *)
(***************************************************************************)

\* What the request of each kind may carry.
Asks(k, p) ==
  CASE k = "attend"  -> IF p \in Accounts THEN Inputs \cup {"none"} ELSE {}
    [] k = "confirm" -> (Inputs \ {"invalid"}) \cup {"none"}
    [] k = "edit"    -> {"in", "out"}
    [] k = "add"     -> {"accept"}
    [] OTHER         -> {"none"}

Start(w, k, e, p, x, c, limits, label) ==
  /\ pc[w] = "idle"
  /\ left > 0
  /\ left' = left - 1
  /\ job' = [job EXCEPT ![w] = [kind |-> k, ev |-> e, who |-> p,
                                want |-> x, code |-> c]]
  /\ cap' = [cap EXCEPT ![w] = limits]
  /\ cur' = [cur EXCEPT ![w] = e]
  /\ Goto(w, label)
  /\ UNCHANGED <<rows, maxAtt, asks, now, row, del, todo, wl, head>>

Request(w) ==
  \E k \in Kinds \ {"confirm", "capacity", "crash"}, e \in Events, p \in Emails :
    \E x \in Asks(k, p) : Start(w, k, e, p, x, 0, maxAtt, "get")

\* The anonymous visitor presents a code that an EventAttendeeRequest holds.
Confirm(w) ==
  /\ "confirm" \in Kinds
  /\ \E e \in Events, p \in Emails : \E x \in Asks("confirm", p), c \in asks[e][p] :
       Start(w, "confirm", e, p, x, c, maxAtt, "get")

\* resolve_update_max_attendees changes the copy and processes the waiting
\* list with it; entity.save() stores the new maximum only afterwards.
EditCapacity(w) ==
  /\ "capacity" \in Kinds
  /\ \E e \in Events, n \in Capacities :
       Start(w, "capacity", e, NoJob.who, "none", 0,
             [maxAtt EXCEPT ![e] = n], "list")

(***************************************************************************)
(* The attendee row is looked up.                                          *)
(***************************************************************************)

NewRow(state, by) ==
  [id |-> now + 1, state |-> state, by |-> by, desk |-> "out", at |-> now + 1]

\* Nothing to do, or an error raised before anything was written.
NothingToDo(w) ==
  LET j == job[w]
      r == Found(w)
  IN  /\ pc[w] = "get"
      /\ \/ r = NoRow /\ (j.kind \in {"remove", "edit", "scan", "code"} \/
                          (j.kind \in {"attend", "confirm"} /\ j.want = "none"))
         \/ r # NoRow /\ (j.kind = "add" \/ (j.kind = "confirm" /\ j.want # "none"))
         \/ j.kind = "edit" /\ r.desk = "in" /\ j.want = "in"
         \/ j.kind = "ask" /\ asks[j.ev][j.who] # {}
      /\ Finish(w)
      /\ UNCHANGED db

\* resolve_attend_event: the member has a row, or gets one without a state.
LoadOrCreate(w) ==
  LET j == job[w]
      r == Found(w)
  IN  /\ \/ pc[w] = "get" /\ j.kind = "attend" /\ j.want # "none"
         \/ pc[w] = "again"
      /\ IF r # NoRow
           THEN /\ row' = [row EXCEPT ![w] = r]
                /\ Goto(w, "state")
                /\ now' = now
           ELSE /\ row' = [row EXCEPT ![w] =
                             NewRow("blank",
                                    IF j.kind = "attend" THEN "user" ELSE "email")]
                /\ Goto(w, "write")
                /\ now' = now + 1
      /\ UNCHANGED <<rows, maxAtt, asks, left, job, cap, cur, del, todo, wl, head>>

\* The confirmation found no row for the address; it looks a second time.
LookAgain(w) ==
  /\ pc[w] = "get"
  /\ job[w].kind = "confirm" /\ job[w].want # "none"
  /\ Found(w) = NoRow
  /\ Goto(w, "again")
  /\ UNCHANGED <<db, local>>

\* resolve_add_email_to_event: a row that is accepted at once.
AddByEmail(w) ==
  LET j == job[w]
      r == NewRow("accept", IF j.who \in Accounts THEN "user" ELSE "email")
  IN  /\ pc[w] = "get"
      /\ j.kind = "add"
      /\ Found(w) = NoRow
      /\ row' = [row EXCEPT ![w] = r]
      /\ Goto(w, SaveLabel(j.ev, r))
      /\ now' = now + 1
      /\ UNCHANGED <<rows, maxAtt, asks, left, job, cap, cur, del, todo, wl, head>>

\* Check-in from the guest list, check-in by QR code, and the QR mailer that
\* stores a code: each changes its own column of a copy of the row.  The code
\* itself is not modelled: any row may have one or may be without.
LoadForEdit(w) ==
  LET j == job[w]
      r == Found(w)
      s == [r EXCEPT !.desk = CASE j.kind = "edit" -> j.want
                                [] j.kind = "scan" -> "in"
                                [] OTHER           -> @,
                     !.at = IF j.kind = "edit" THEN now + 1 ELSE @]
  IN  /\ pc[w] = "get"
      /\ j.kind \in {"edit", "scan", "code"}
      /\ r # NoRow
      /\ ~(j.kind = "edit" /\ r.desk = "in" /\ j.want = "in")
      /\ row' = [row EXCEPT ![w] = s]
      /\ Goto(w, SaveLabel(j.ev, s))
      /\ now' = IF j.kind = "edit" THEN now + 1 ELSE now
      /\ UNCHANGED <<rows, maxAtt, asks, left, job, cap, cur, del, todo, wl, head>>

\* The row to delete is in memory.  resolve_delete_attendee visits the
\* sub-events first; the confirmation with delete=True does not.
LoadForDelete(w) ==
  LET j == job[w]
      r == Found(w)
  IN  /\ pc[w] = "get"
      /\ j.kind = "remove" \/ (j.kind \in {"attend", "confirm"} /\ j.want = "none")
      /\ r # NoRow
      /\ row' = [row EXCEPT ![w] = r]
      /\ del' = [del EXCEPT ![w] = r.id]
      /\ Goto(w, IF j.kind # "confirm" /\ Children[j.ev] # {} THEN "kids" ELSE "del")
      /\ UNCHANGED <<db, job, cap, cur, todo, wl, head>>

(***************************************************************************)
(* The new state is validated and saved.                                   *)
(***************************************************************************)

\* EVENT_INVALID_STATE or EVENT_IS_FULL.  A row created a moment ago stays.
Refuse(w) ==
  LET j == job[w]
  IN  /\ pc[w] = "state"
      /\ \/ j.want = "invalid"
         \/ /\ j.want = "accept"
            /\ j.kind = "confirm" \/ row[w].state # "accept"
            /\ Full(cap[w][j.ev], j.ev)
      /\ Finish(w)
      /\ UNCHANGED db

\* Mutant of SeatIsFree: is_full is not asked.
SeatIsGranted(w) == job[w].kind \in {"attend", "confirm"}

SeatIsFree(w) ==
  LET j == job[w]
  IN  \/ j.want # "accept"
      \/ j.kind = "attend" /\ row[w].state = "accept"
      \/ ~Full(cap[w][j.ev], j.ev)

ChangeState(w) ==
  LET j == job[w]
      r == [row[w] EXCEPT !.state = j.want,
                          !.at = IF j.kind = "attend" THEN now + 1 ELSE @]
  IN  /\ pc[w] = "state"
      /\ j.want # "invalid"
      /\ SeatIsFree(w)
      /\ row' = [row EXCEPT ![w] = r]
      /\ now' = IF j.kind = "attend" THEN now + 1 ELSE now
      /\ Goto(w, SaveLabel(j.ev, r))
      /\ UNCHANGED <<rows, maxAtt, asks, left, job, cap, cur, del, todo, wl, head>>

\* full_clean: another accepted sub-event in the slot raises ValidationError.
Clean(w) ==
  /\ pc[w] = "clean"
  /\ IF Clash(job[w].ev, job[w].who)
       THEN Finish(w) /\ UNCHANGED db
       ELSE Goto(w, "write") /\ UNCHANGED <<db, local>>

\* Mutant of AfterWrite: the waiting list is processed for leavers only.
AfterWriteQuiet(w) ==
  IF job[w].kind \in {"attend", "confirm"} /\ row[w].state = "blank" THEN "state" ELSE "idle"

\* What follows the save of the requester's row.
AfterWrite(w) ==
  LET j == job[w]
  IN  IF j.kind \in {"attend", "confirm"} /\ row[w].state = "blank" THEN "state"
      ELSE IF j.kind \in {"attend", "confirm"} /\ j.want # "accept" THEN "list"
      ELSE "idle"

Write(w) ==
  LET j == job[w]
  IN  /\ pc[w] = "write"
      /\ Saves(j.ev, j.who, row[w])
      /\ rows' = [rows EXCEPT ![j.ev][j.who] = row[w]]
      /\ IF AfterWrite(w) = "idle"
           THEN Finish(w)
           ELSE Goto(w, AfterWrite(w)) /\ UNCHANGED local
      /\ UNCHANGED <<maxAtt, asks, now, left>>

\* The constraints unique_email and unique_user reject a second row.
WriteConflict(w) ==
  /\ pc[w] = "write"
  /\ ~Saves(job[w].ev, job[w].who, row[w])
  /\ Finish(w)
  /\ UNCHANGED db

(***************************************************************************)
(* Deleting a row, in the sub-events first.                                *)
(***************************************************************************)

LoadChildren(w) ==
  LET kids == Children[job[w].ev]
  IN  /\ pc[w] = "kids"
      /\ todo' = [todo EXCEPT ![w] = kids]
      /\ cap'  = [cap EXCEPT ![w] = [e \in Events |->
                                       IF e \in kids THEN maxAtt[e] ELSE @[e]]]
      /\ Goto(w, "child")
      /\ UNCHANGED <<db, job, row, cur, del, wl, head>>

NextChild(w) ==
  /\ pc[w] = "child"
  /\ \E c \in todo[w] :
       LET r == rows[c][job[w].who]
       IN  /\ todo' = [todo EXCEPT ![w] = @ \ {c}]
           /\ IF r = NoRow
                THEN UNCHANGED <<pc, cur, del>>
                ELSE /\ Goto(w, "del")
                     /\ cur' = [cur EXCEPT ![w] = c]
                     /\ del' = [del EXCEPT ![w] = r.id]
  /\ UNCHANGED <<db, job, row, cap, wl, head>>

\* Mutant of ChildrenDone: the loop over the sub-events stops after one.
ChildrenCut(w) ==
  /\ pc[w] = "child"
  /\ cur' = [cur EXCEPT ![w] = job[w].ev]
  /\ del' = [del EXCEPT ![w] = row[w].id]
  /\ Goto(w, "del")
  /\ UNCHANGED <<db, job, row, cap, todo, wl, head>>

ChildrenDone(w) ==
  /\ pc[w] = "child"
  /\ todo[w] = {}
  /\ cur' = [cur EXCEPT ![w] = job[w].ev]
  /\ del' = [del EXCEPT ![w] = row[w].id]
  /\ Goto(w, "del")
  /\ UNCHANGED <<db, job, row, cap, todo, wl, head>>

\* Mutant of DeleteRow: the waiting list is not read.
DeleteRowQuiet(w) ==
  LET e == cur[w]
      p == job[w].who
  IN  /\ pc[w] = "del"
      /\ rows' = IF rows[e][p].id = del[w]
                   THEN [rows EXCEPT ![e][p] = NoRow] ELSE rows
      /\ Goto(w, "seat")
      /\ UNCHANGED <<maxAtt, asks, now, left, job, row, cap, cur, del, todo, wl, head>>

\* EventAttendee.delete(): the row goes, then the waiting list is processed.
\* The confirmation reads the event again for this; the others have it.
DeleteRow(w) ==
  LET e == cur[w]
      p == job[w].who
  IN  /\ pc[w] = "del"
      /\ rows' = IF rows[e][p].id = del[w]
                   THEN [rows EXCEPT ![e][p] = NoRow] ELSE rows
      /\ cap' = IF job[w].kind = "confirm"
                  THEN [cap EXCEPT ![w][e] = maxAtt[e]] ELSE cap
      /\ Goto(w, "list")
      /\ UNCHANGED <<maxAtt, asks, now, left, job, row, cur, del, todo, wl, head>>

(***************************************************************************)
(* Event.process_waitinglist.                                              *)
(***************************************************************************)

\* The queryset is evaluated once: the loop works on copies.
ListWaiting(w) ==
  /\ pc[w] = "list"
  /\ wl' = [wl EXCEPT ![w] = [p \in Emails |->
              IF p \in Waiting(cur[w]) THEN rows[cur[w]][p] ELSE NoRow]]
  /\ Goto(w, "seat")
  /\ UNCHANGED <<db, job, row, cap, cur, del, todo, head>>

\* is_full is asked again for every waiting attendee, oldest first.
Offer(w) ==
  /\ pc[w] = "seat"
  /\ ~Full(cap[w][cur[w]], cur[w])
  /\ \E p \in Emails :
       /\ IsFirst(w, p)
       /\ head' = [head EXCEPT ![w] = p]
       /\ Goto(w, IF SlotMates[cur[w]] # {} THEN "offer" ELSE "promote")
  /\ UNCHANGED <<db, job, row, cap, cur, del, todo, wl>>

\* A clash raises ValidationError out of the loop, and out of the request.
CleanOffer(w) ==
  /\ pc[w] = "offer"
  /\ IF Clash(cur[w], head[w])
       THEN Finish(w) /\ UNCHANGED db
       ELSE Goto(w, "promote") /\ UNCHANGED <<db, local>>

\* Mutant of Promoted: a state that does not exist.
PromotedTypo(w) == [wl[w][head[w]] EXCEPT !.state = "accepted"]

Promoted(w) == [wl[w][head[w]] EXCEPT !.state = "accept"]

\* Mutant of Promote: the loop does not move on.
PromoteAgain(w) ==
  LET e == cur[w]
      p == head[w]
  IN  /\ pc[w] = "promote"
      /\ Saves(e, p, Promoted(w))
      /\ rows' = [rows EXCEPT ![e][p] = Promoted(w)]
      /\ Goto(w, "seat")
      /\ UNCHANGED <<maxAtt, asks, now, left, job, row, cap, cur, del, todo, wl, head>>

Promote(w) ==
  LET e == cur[w]
      p == head[w]
  IN  /\ pc[w] = "promote"
      /\ Saves(e, p, Promoted(w))
      /\ rows' = [rows EXCEPT ![e][p] = Promoted(w)]
      /\ wl' = [wl EXCEPT ![w][p] = NoRow]
      /\ Goto(w, "seat")
      /\ UNCHANGED <<maxAtt, asks, now, left, job, row, cap, cur, del, todo, head>>

PromoteConflict(w) ==
  /\ pc[w] = "promote"
  /\ ~Saves(cur[w], head[w], Promoted(w))
  /\ Finish(w)
  /\ UNCHANGED db

\* The list is exhausted or the event is full: the caller continues.
LoopEnds(w) ==
  LET j == job[w]
  IN  /\ pc[w] = "seat"
      /\ Queue(w) = {} \/ Full(cap[w][cur[w]], cur[w])
      /\ IF cur[w] # j.ev
           THEN Goto(w, "child") /\ UNCHANGED local
         ELSE IF j.kind = "confirm" /\ j.want = "none"
           THEN Goto(w, "forget") /\ UNCHANGED local
         ELSE IF j.kind = "capacity"
           THEN Goto(w, "store") /\ UNCHANGED local
         ELSE Finish(w)
      /\ UNCHANGED db

(***************************************************************************)
(* The remaining statements.                                               *)
(***************************************************************************)

\* attendee_request.delete() after the attendee was deleted.
Forget(w) ==
  /\ pc[w] = "forget"
  /\ asks' = [asks EXCEPT ![job[w].ev][job[w].who] = @ \ {job[w].code}]
  /\ Finish(w)
  /\ UNCHANGED <<rows, maxAtt, now, left>>

StoreCapacity(w) ==
  /\ pc[w] = "store"
  /\ maxAtt' = [maxAtt EXCEPT ![job[w].ev] = cap[w][job[w].ev]]
  /\ Finish(w)
  /\ UNCHANGED <<rows, asks, now, left>>

\* A later field of the form is refused: entity.save() is never reached.
EditRefused(w) ==
  /\ pc[w] = "store"
  /\ Finish(w)
  /\ UNCHANGED db

\* Mutant of FindNoAsk: the lookup of an earlier request is forgotten.
FindAnyAsk(w) ==
  /\ pc[w] = "get"
  /\ job[w].kind = "ask"
  /\ Goto(w, "ask")
  /\ UNCHANGED <<db, local>>

\* resolve_require_confirmation: no request row was found, one is created.
FindNoAsk(w) ==
  /\ pc[w] = "get"
  /\ job[w].kind = "ask"
  /\ asks[job[w].ev][job[w].who] = {}
  /\ Goto(w, "ask")
  /\ UNCHANGED <<db, local>>

CreateAsk(w) ==
  /\ pc[w] = "ask"
  /\ now' = now + 1
  /\ asks' = [asks EXCEPT ![job[w].ev][job[w].who] = @ \cup {now + 1}]
  /\ Finish(w)
  /\ UNCHANGED <<rows, maxAtt, left>>

\* The process is killed between two statements; nothing is rolled back.
Crash(w) ==
  /\ "crash" \in Kinds
  /\ pc[w] # "idle"
  /\ Finish(w)
  /\ UNCHANGED db

-----------------------------------------------------------------------------
Arrive(w) == Request(w) \/ Confirm(w) \/ EditCapacity(w)

Step(w) ==
  \/ NothingToDo(w) \/ LoadOrCreate(w) \/ LookAgain(w) \/ AddByEmail(w)
  \/ LoadForEdit(w) \/ LoadForDelete(w)
  \/ Refuse(w) \/ ChangeState(w) \/ Clean(w) \/ Write(w) \/ WriteConflict(w)
  \/ LoadChildren(w) \/ NextChild(w) \/ ChildrenDone(w) \/ DeleteRow(w)
  \/ ListWaiting(w) \/ Offer(w) \/ CleanOffer(w) \/ Promote(w)
  \/ PromoteConflict(w) \/ LoopEnds(w)
  \/ Forget(w) \/ StoreCapacity(w) \/ EditRefused(w)
  \/ FindNoAsk(w) \/ CreateAsk(w)

Next == \E w \in Workers : Arrive(w) \/ Step(w) \/ Crash(w)

Spec == Init /\ [][Next]_vars

\* A worker that serves a request keeps running; nobody has to send one.
FairSpec == Spec /\ \A w \in Workers : WF_vars(Step(w))
-----------------------------------------------------------------------------
TypeOK ==
  /\ rows \in [Events -> [Emails -> Row]]
  /\ maxAtt \in [Events -> Nat]
  /\ asks \in [Events -> [Emails -> SUBSET Nat]]
  /\ now \in Nat
  /\ left \in Nat
  /\ pc \in [Workers -> Labels]
  /\ job \in [Workers -> Job]
  /\ row \in [Workers -> Row]
  /\ cap \in [Workers -> [Events -> Nat]]
  /\ cur \in [Workers -> Events]
  /\ del \in [Workers -> Nat]
  /\ todo \in [Workers -> SUBSET Events]
  /\ wl \in [Workers -> [Emails -> Row]]
  /\ head \in [Workers -> Emails]

Quiet == \A w \in Workers : pc[w] = "idle"

\* Not an event with sub-events, and not a sub-event with slots, where a
\* clash ends process_waitinglist before the waiters behind it are asked.
Plain(e) == Children[e] = {} /\ SlotMates[e] = {}

\* Whenever no request is being served, somebody on the waiting list of a plain
\* event means that the event is full: every statement sequence that frees a
\* seat or adds a waiter ends in a process_waitinglist that sees both, however
\* the requests of members, guests and organisers interleave.
NoIdleSeat ==
  Quiet => \A e \in Events : Plain(e) /\ Waiting(e) # {} => Full(maxAtt[e], e)

\* is_full and the save that takes the seat are separate statements, so n
\* workers can pass the check for the last seat together.  They cannot do worse
\* than that: an event never holds more than max_attendees + n - 1 accepted
\* attendees, and exactly max_attendees when one worker serves all requests.
OverbookingBound ==
  \A e \in Events :
    maxAtt[e] # 0 => Cardinality(Seated(e)) <= maxAtt[e] + Cardinality(Workers) - 1

\* Requests served one after the other seat the waiting list of a plain event in
\* the order of updated_at: nobody leaves it for a seat, promoted or by asking again, while
\* somebody who was there earlier still waits.
SeatedInOrder ==
  [][\A e \in Events, p, q \in Emails :
       /\ Plain(e) /\ p \in Waiting(e) /\ q \in Waiting(e)
       /\ rows[e][q].at < rows[e][p].at
       /\ rows'[e][p].state = "accept"
       => rows'[e][q].state = "accept"]_vars

\* Requests served one after the other cannot jump the queue: while somebody
\* waits for a plain event, a person who does not wait gets no seat, unless an
\* organiser adds the address by hand.
NoQueueJumping ==
  [][\A e \in Events, p \in Emails :
       /\ Plain(e) /\ Waiting(e) # {} /\ p \notin Waiting(e) \cup Seated(e)
       /\ rows'[e][p].state = "accept"
       => \E w \in Workers : job[w].kind = "add"]_vars

\* clean_event: nobody holds seats in two sub-events that share a slot.
SlotExclusive ==
  \A e \in Events : \A m \in SlotMates[e] : Seated(e) \cap Seated(m) = {}

\* resolve_delete_attendee empties the sub-events before it deletes the row of
\* the main event, so a person who leaves keeps no place in any sub-event.
LeavesSubEventsFirst ==
  \A w \in Workers :
    (pc[w] = "del" /\ cur[w] = job[w].ev /\ job[w].kind # "confirm") =>
      \A c \in Children[cur[w]] : rows[c][job[w].who] = NoRow

\* A visitor holds at most one code per event: EventAttendeeRequest.objects.get
\* in resolve_require_confirmation raises when there are two.
OneCode ==
  \A e \in Events, p \in Emails : Cardinality(asks[e][p]) <= 1

\* A person on the waiting list of an event with a free seat does not stay
\* there: the request that freed the seat, or put the person on the list,
\* goes on to offer it.
SeatOffered ==
  \A e \in Events, p \in Emails :
    (p \in Waiting(e) /\ ~Full(maxAtt[e], e)) ~>
      (p \notin Waiting(e) \/ Full(maxAtt[e], e))

\* Every request is answered: the loops over sub-events and waiting lists end.
RequestsEnd == \A w \in Workers : pc[w] # "idle" ~> pc[w] = "idle"

\* What holds of the rows when requests are served one after the other.
AttendanceSound == TypeOK /\ NoIdleSeat /\ OneCode /\ SlotExclusive /\ LeavesSubEventsFirst
\* What every request brings about in the end, however they interleave.
RequestsServed == SeatOffered /\ RequestsEnd
=============================================================================
