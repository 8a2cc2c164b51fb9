-------------------------- MODULE PublicationProofs --------------------------
(***************************************************************************)
(* Theorems about Publication, for any number of posts, processes, hours   *)
(* and requests.                                                           *)
(***************************************************************************)
EXTENDS Publication, SequenceTheorems, FiniteSetTheorems, TLAPS

CopiesOf == UNION {[D -> Row] : D \in SUBSET Posts}
LoopOf   == [at : JobNames, copies : CopiesOf]
SaveOf   == [at : {"save", "copy", "record"}, on : Posts, row : Row, from : Content,
             began : Hours, rest : {Idle} \cup LoopOf]
States   == {Idle} \cup LoopOf \cup SaveOf

Types ==
  /\ crew \subseteq Workers
  /\ now \in Hours /\ missed \in 0..MaxMissed
  /\ jobs \subseteq {"depublicate", "publish"}
  /\ post \in [Posts -> Row \cup {Unused, Gone}]
  /\ revs \in [Posts -> Seq(Revision)]
  /\ proc \in [Workers -> States]

-----------------------------------------------------------------------------
(***************************************************************************)
(* The dates: every row is in order, the ones in memory too.               *)
(***************************************************************************)
InOrder(row, hour) == row.arch # NoDate /\ row.del # NoDate => row.arch <= row.del \/ row.del < hour
CopiesInOrder(copies, hour) == \A p \in DOMAIN copies : InOrder(copies[p], hour)
StateInOrder(s, hour) ==
  /\ s \in LoopOf => CopiesInOrder(s.copies, hour)
  /\ s \in SaveOf => InOrder(s.row, hour) /\ (s.rest \in LoopOf => CopiesInOrder(s.rest.copies, hour))
PostsInOrder == \A p \in Posts : Alive(p) => InOrder(post[p], now)
AllInOrder == PostsInOrder /\ \A w \in Workers : StateInOrder(proc[w], now)
DateInv == Types /\ AllInOrder

-----------------------------------------------------------------------------
(***************************************************************************)
(* The history, with one process.                                          *)
(***************************************************************************)
Last(p) == revs[p][Len(revs[p])]
Recording(w, p) == proc[w].at = "record" /\ proc[w].on = p
Settled(w, p) == Alive(p) /\ HasRevisions(post[p]) /\ ~Recording(w, p)

\* The last revision is the newest, each starts from the text the one before it
\* ended with, and a post that keeps none has none.
Newest(p) == revs[p] # <<>> => Last(p).at <= now /\ \A i \in DOMAIN revs[p] : revs[p][i].at <= Last(p).at
Chained(p) == \A i \in 1..Len(revs[p]) - 1 : revs[p][i].to.text = revs[p][i + 1].from.text
Bare(p) == ~Alive(p) \/ ~HasRevisions(post[p]) => revs[p] = <<>>

\* The last revision tells the text and the flag of the row, and whether it was
\* published then; it starts from an archived post only if that is archived still
\* or was taken back.
Told(p) ==
  /\ revs[p] # <<>>
  /\ Last(p).to.text = post[p].text
  /\ Last(p).to.status = "archived" <=> post[p].archived
  /\ Last(p).to.status = "published" => Passed(post[p].pub, now)
  /\ Last(p).to.status = "draft" => ~Passed(post[p].pub, Last(p).at)
  /\ Last(p).from.status = "archived" => post[p].archived \/ post[p].arch = NoDate
History(w) == \A p \in Posts : Newest(p) /\ Chained(p) /\ Bare(p) /\ (Settled(w, p) => Told(p))

\* What a process has in memory is what the rows say.
Overdue(p) == Alive(p) /\ ~post[p].archived /\ Passed(post[p].arch, now)
Archiving(loop) ==
  /\ loop.at = "archive"
  /\ \A p \in DOMAIN loop.copies : loop.copies[p] = post[p] /\ Overdue(p)
Noting(s) ==
  /\ s.began <= now /\ \A i \in DOMAIN revs[s.on] : revs[s.on][i].at <= s.began
  /\ s.from.status = "archived" => s.row.archived \/ s.row.arch = NoDate
  /\ s.rest # Idle => Archiving(s.rest) /\ s.on \notin DOMAIN s.rest.copies
  /\ s.at = "save" =>
       /\ s.rest # Idle => Overdue(s.on) /\ s.row = [post[s.on] EXCEPT !.archived = TRUE]
       /\ \/ post[s.on] = Unused
          \/ Alive(s.on) /\ s.row.class = post[s.on].class /\ s.from.text = post[s.on].text
  /\ s.at = "record" =>
       /\ post[s.on] = s.row /\ HasRevisions(s.row)
       /\ revs[s.on] # <<>> => s.from.text = Last(s.on).to.text
Publishing(s) ==
  \A p \in DOMAIN s.copies : s.copies[p] = post[p] /\ Alive(p) /\ HasRevisions(post[p])
Working(w) ==
  LET s == proc[w]
  IN  /\ s \in SaveOf => s.at # "copy" /\ Noting(s)
      /\ s \in LoopOf /\ s.at = "archive" => Archiving(s)
      /\ s \in LoopOf /\ s.at = "publish" => Publishing(s)
      /\ jobs # {} \/ IsJob(s) => missed = 0
      /\ \A v \in Workers \ {w} : proc[v] = Idle

\* The posts the job of this hour has yet to archive.
ToCome(w) ==
  LET s == proc[w]
  IN  CASE s.at = "archive" -> DOMAIN s.copies
        [] s.at = "save" /\ s.rest # Idle -> {s.on} \cup DOMAIN s.rest.copies
        [] s.at = "record" /\ s.rest # Idle -> DOMAIN s.rest.copies
        [] OTHER -> {}

\* Once the job of the hour has run, what is due is archived, and what a request
\* is about to save, too.
Struck == now - missed   \* the hour at which the jobs were dispatched last
ArchivedIfDue(row) == Passed(row.arch, Struck) => row.archived
DueInv(w) ==
  "depublicate" \notin jobs =>
    /\ \A p \in Posts : Alive(p) /\ p \notin ToCome(w) => ArchivedIfDue(post[p])
    /\ proc[w] \in SaveOf => ArchivedIfDue(proc[w].row)

\* A post that the clock alone has published, which no revision tells yet: the job
\* will come to it, or has come, or the hour was missed, or it is to be archived.
Stale(p) == ~post[p].archived /\ Last(p).to.status = "draft" /\ Passed(post[p].pub, now)
Awaited(w, p) ==
  \/ "publish" \in jobs /\ post[p].pub > now - Window
  \/ "publish" \notin jobs /\ post[p].pub > Struck
  \/ proc[w].at = "publish" /\ p \in DOMAIN proc[w].copies
  \/ Passed(post[p].arch, Struck)
StaleInv(w) ==
  MaxMissed < Window => \A p \in Posts : Settled(w, p) /\ Stale(p) => Awaited(w, p)

HistoryInv(w) == History(w) /\ Working(w) /\ DueInv(w) /\ StaleInv(w)
Alone(w) == w \in Workers /\ crew = {w} /\ offer \cap {"crash", "copy"} = {}

-----------------------------------------------------------------------------
(***************************************************************************)
(* What the operators on rows return.                                      *)
(***************************************************************************)
LEMMA HoursAre == Hours \subseteq Int /\ NoDate \notin Hours /\ Keep \notin Dates /\ Dates \subseteq Int
BY PublicationAssumption DEF Hours, NoDate, Keep, Dates

LEMMA RowFields ==
  ASSUME NEW row \in Row
  PROVE  /\ row.class \in Classes /\ row.pub \in Dates /\ row.archived \in BOOLEAN /\ row.arch \in Dates
         /\ row.del \in Dates /\ row.text \in Texts
         /\ row.pub \in Int /\ row.arch \in Int /\ row.del \in Int
BY HoursAre DEF Row

\* A post that is there has a row.
LEMMA AliveRow ==
  ASSUME Types, NEW p \in Posts
  PROVE  /\ Alive(p) <=> post[p] \in Row
         /\ post[p] = Unused => ~Alive(p)
BY DEF Types, Alive, Row, Unused, Gone, Classes

LEMMA SerializedType ==
  ASSUME NEW row \in Row
  PROVE  /\ Serialized(row) \in Content
         /\ Serialized(row).text = row.text
         /\ Serialized(row).status = "archived" <=> row.archived
         /\ Serialized(row).status = "published" <=> ~row.archived /\ Passed(row.pub, now)
         /\ Serialized(row).status = "draft" <=> ~row.archived /\ ~Passed(row.pub, now)
BY RowFields DEF Serialized, Status, Content

LEMMA StatusAtType ==
  ASSUME NEW row, NEW hour
  PROVE  StatusAt(row, hour) \in {"draft", "published", "archived"}
BY DEF StatusAt

LEMMA ChangedType ==
  ASSUME Types, NEW row \in Row, NEW input \in Inputs
  PROVE  LET new == Changed(row, input)
         IN  /\ new \in Row /\ new.class = row.class
             /\ row.archived => new.archived
             /\ (new.arch = row.arch \/ (Passed(new.arch, now) => new.archived))
<1>1. /\ Filled(row.text, input.text) \in Texts
      /\ Filled(row.pub, input.pub) \in Dates
      /\ Filled(row.arch, input.arch) \in Dates
      /\ Filled(row.del, input.del) \in Dates
      /\ input.arch = Keep => Filled(row.arch, input.arch) = row.arch
  BY RowFields, PublicationAssumption DEF Filled
<1> DEFINE arch == Filled(row.arch, input.arch)
           flag == row.archived \/ (input.arch # Keep /\ Passed(arch, now))
<1>2. flag \in BOOLEAN /\ (row.archived => flag) /\ (input.arch # Keep /\ Passed(arch, now) => flag) OBVIOUS
<1>3. Changed(row, input) =
        [class |-> row.class, text |-> Filled(row.text, input.text),
         pub |-> Filled(row.pub, input.pub), arch |-> arch, del |-> Filled(row.del, input.del),
         archived |-> flag]
  BY DEF Changed
<1> HIDE DEF flag, arch
<1>4. Changed(row, input).archived = flag /\ Changed(row, input).arch = arch
      /\ Changed(row, input).class = row.class
  BY <1>3
<1>5. Changed(row, input) \in Row BY <1>1, <1>2, <1>3, RowFields DEF Row, arch
<1> QED BY <1>1, <1>2, <1>4, <1>5 DEF arch

LEMMA ToggledType ==
  ASSUME Types, NEW row \in Row
  PROVE  LET new == Toggled(row)
         IN  /\ new \in Row /\ new.class = row.class /\ new.del = row.del
             /\ new.archived <=> ~row.archived
             /\ new.arch = IF row.archived THEN NoDate ELSE now
<1> DEFINE flag == ~row.archived
           date == IF row.archived THEN NoDate ELSE now
           mid  == [row EXCEPT !.archived = flag]
<1>1. Toggled(row) = [mid EXCEPT !.arch = date] BY Zenon DEF Toggled
<1>2. flag \in BOOLEAN /\ date \in Dates /\ (flag <=> ~row.archived) BY DEF Types, Dates
<1> HIDE DEF flag, date
<1>3. mid \in Row /\ mid.archived = flag /\ mid.class = row.class /\ mid.del = row.del BY <1>2 DEF Row
<1> HIDE DEF mid
<1>4. Toggled(row) \in Row /\ Toggled(row).archived = flag /\ Toggled(row).class = row.class
      /\ Toggled(row).del = row.del /\ Toggled(row).arch = date
  BY <1>1, <1>2, <1>3 DEF Row
<1> QED BY <1>2, <1>4 DEF date

LEMMA FlaggedType ==
  ASSUME NEW row \in Row
  PROVE  LET new == [row EXCEPT !.archived = TRUE]
         IN  /\ new \in Row /\ new.class = row.class /\ new.del = row.del /\ new.archived
             /\ new.arch = row.arch
BY DEF Row

LEMMA NewType ==
  ASSUME Types, NEW class \in Classes
  PROVE  New(class) \in Row /\ New(class).class = class /\ ~New(class).archived /\ New(class).arch = NoDate
BY PublicationAssumption DEF Types, New, Row, Dates

-----------------------------------------------------------------------------
(***************************************************************************)
(* Types and dates, for any number of processes.                           *)
(***************************************************************************)
LEMMA InitDates == Init => DateInv
<1> SUFFICES ASSUME Init PROVE DateInv OBVIOUS
<1>1. Types BY PublicationAssumption DEF Init, Types, States, Hours
<1>2. PostsInOrder BY DEF Init, PostsInOrder, Alive, Unused, Classes
<1>3. \A w \in Workers : StateInOrder(proc[w], now) BY DEF Init, StateInOrder, Idle, LoopOf, SaveOf, JobNames
<1> QED BY <1>1, <1>2, <1>3 DEF DateInv, AllInOrder

\* A step of one process that leaves the rows in order.
LEMMA ProcStep ==
  ASSUME DateInv, NEW w \in Workers, NEW state \in States, proc' = [proc EXCEPT ![w] = state],
         UNCHANGED <<crew, now, missed>>, jobs' \subseteq jobs,
         post' \in [Posts -> Row \cup {Unused, Gone}], revs' \in [Posts -> Seq(Revision)],
         StateInOrder(state, now), PostsInOrder'
  PROVE  DateInv'
BY DEF DateInv, Types, AllInOrder

\* The same of one that touches no row.
LEMMA QuietStep ==
  ASSUME DateInv, NEW w \in Workers, NEW state \in States, proc' = [proc EXCEPT ![w] = state],
         UNCHANGED <<crew, now, missed, post>>, jobs' \subseteq jobs,
         revs' \in [Posts -> Seq(Revision)], StateInOrder(state, now)
  PROVE  DateInv'
BY ProcStep DEF DateInv, Types, AllInOrder, PostsInOrder, Alive

LEMMA Shapes ==
  ASSUME DateInv, NEW w \in Workers
  PROVE  /\ proc[w] \in States /\ StateInOrder(proc[w], now)
         /\ proc[w].at \in {"save", "copy", "record"} <=> proc[w] \in SaveOf
         /\ proc[w].at \in JobNames <=> proc[w] \in LoopOf
         /\ proc[w].at = "idle" <=> proc[w] = Idle
BY DEF DateInv, Types, AllInOrder, States, SaveOf, LoopOf, JobNames, Idle

\* What a request takes on is in order.
LEMMA SavingType ==
  ASSUME DateInv, NEW p \in Posts, NEW row \in Row, NEW from \in Content,
         NEW rest \in {Idle} \cup LoopOf, InOrder(row, now),
         rest \in LoopOf => CopiesInOrder(rest.copies, now)
  PROVE  /\ Saving(p, row, from, rest) \in SaveOf
         /\ StateInOrder(Saving(p, row, from, rest), now)
BY DEF Saving, SaveOf, DateInv, Types, LoopOf, JobNames, StateInOrder

LEMMA TakeStep ==
  ASSUME DateInv, NEW w \in Workers, NEW state \in States, Take(w, state), StateInOrder(state, now),
         UNCHANGED <<crew, offer, now, missed, jobs, post, revs>>
  PROVE  DateInv'
BY QuietStep DEF Take, DateInv, Types

LEMMA NotRefused ==
  ASSUME NEW row \in Row, ~Refused(row)
  PROVE  InOrder(row, now)
BY RowFields DEF Refused, InOrder

LEMMA AddDates ==
  ASSUME DateInv, NEW w \in Workers, NEW class \in Classes, NEW inputs \in SUBSET Inputs,
         Add(w, class, inputs)
  PROVE  DateInv'
<1>1. PICK p \in Posts, input \in inputs :
        LET row == Changed(New(class), input)
        IN  ~Refused(row) /\ Take(w, Saving(p, row, Serialized(row), Idle))
  BY DEF Add
<1> DEFINE row == Changed(New(class), input)
<1>2. row \in Row BY NewType, ChangedType DEF DateInv
<1>3. Saving(p, row, Serialized(row), Idle) \in SaveOf
      /\ StateInOrder(Saving(p, row, Serialized(row), Idle), now)
  BY <1>1, <1>2, NotRefused, SerializedType, SavingType DEF Idle, LoopOf, JobNames
<1> QED BY <1>1, <1>3, TakeStep DEF Add, States

LEMMA EditDates ==
  ASSUME DateInv, NEW w \in Workers, NEW classes, NEW inputs \in SUBSET Inputs, Edit(w, classes, inputs)
  PROVE  DateInv'
<1>1. PICK p \in Posts, input \in inputs :
        /\ Alive(p)
        /\ LET row == Changed(post[p], input)
           IN  ~Refused(row) /\ Take(w, Saving(p, row, Serialized(post[p]), Idle))
  BY DEF Edit
<1> DEFINE row == Changed(post[p], input)
<1>2. row \in Row /\ post[p] \in Row BY <1>1, AliveRow, ChangedType DEF DateInv
<1>3. Saving(p, row, Serialized(post[p]), Idle) \in SaveOf
      /\ StateInOrder(Saving(p, row, Serialized(post[p]), Idle), now)
  BY <1>1, <1>2, NotRefused, SerializedType, SavingType DEF Idle, LoopOf, JobNames
<1> QED BY <1>1, <1>3, TakeStep DEF Edit, States

LEMMA CopyDates ==
  ASSUME DateInv, NEW w \in Workers, CopyPage(w)
  PROVE  DateInv'
<1>1. PICK p \in Posts, q \in Posts :
        /\ Alive(q)
        /\ Take(w, [Saving(p, [post[q] EXCEPT !.pub = now], Serialized(post[q]), Idle) EXCEPT !.at = "copy"])
  BY DEF CopyPage
<1> DEFINE row == [post[q] EXCEPT !.pub = now]
           s == Saving(p, row, Serialized(post[q]), Idle)
<1>2. post[q] \in Row /\ InOrder(post[q], now) BY <1>1, AliveRow DEF DateInv, AllInOrder, PostsInOrder
<1>3. row \in Row /\ row.arch = post[q].arch /\ row.del = post[q].del BY <1>2 DEF Row, DateInv, Types, Dates
<1>4. InOrder(row, now) BY <1>2, <1>3 DEF InOrder
<1>5. s \in SaveOf /\ StateInOrder(s, now) BY <1>2, <1>3, <1>4, SerializedType, SavingType DEF Idle, LoopOf, JobNames
<1> HIDE DEF s
<1>6. [s EXCEPT !.at = "copy"] \in SaveOf /\ StateInOrder([s EXCEPT !.at = "copy"], now)
  BY <1>5 DEF SaveOf, StateInOrder, LoopOf, JobNames
<1> QED BY <1>1, <1>6, TakeStep DEF CopyPage, States, s

LEMMA ToggledDates ==
  ASSUME DateInv, NEW p \in Posts, Alive(p)
  PROVE  /\ post[p] \in Row /\ Toggled(post[p]) \in Row
         /\ Serialized(post[p]) \in Content
         /\ InOrder(Toggled(post[p]), now)
<1>1. post[p] \in Row /\ Toggled(post[p]) \in Row /\ Serialized(post[p]) \in Content
  BY AliveRow, ToggledType, SerializedType DEF DateInv
<1>2. InOrder(Toggled(post[p]), now)
  <2> DEFINE new == Toggled(post[p])
  <2>1. new.del = post[p].del /\ new.arch = IF post[p].archived THEN NoDate ELSE now BY <1>1, ToggledType DEF DateInv
  <2>2. post[p].del \in Int /\ now \in Int BY <1>1, RowFields, HoursAre DEF DateInv, Types
  <2> HIDE DEF new
  <2>3. InOrder(new, now) BY <2>1, <2>2 DEF InOrder
  <2> QED BY <2>3 DEF new
<1> QED BY <1>1, <1>2

LEMMA ArchiveDates ==
  ASSUME DateInv, NEW w \in Workers, ArchiveEntity(w)
  PROVE  DateInv'
<1>1. PICK p \in Posts : Alive(p) /\ Take(w, Saving(p, Toggled(post[p]), Serialized(post[p]), Idle))
  BY DEF ArchiveEntity
<1>2. Saving(p, Toggled(post[p]), Serialized(post[p]), Idle) \in SaveOf
      /\ StateInOrder(Saving(p, Toggled(post[p]), Serialized(post[p]), Idle), now)
  BY <1>1, ToggledDates, SavingType DEF Idle, LoopOf, JobNames
<1> QED BY <1>1, <1>2, TakeStep DEF ArchiveEntity, States

-----------------------------------------------------------------------------
(* The statements that save, and the jobs.                                 *)

LEMMA ErasedDates ==
  ASSUME DateInv, NEW w \in Workers, NEW p \in Posts, NEW state \in States,
         Erased(p), proc' = [proc EXCEPT ![w] = state], StateInOrder(state, now),
         UNCHANGED <<crew, now, missed, jobs>>
  PROVE  DateInv'
<1>1. post' \in [Posts -> Row \cup {Unused, Gone}] /\ revs' \in [Posts -> Seq(Revision)] BY DEF Erased, DateInv, Types
<1>2. PostsInOrder' BY DEF Erased, DateInv, Types, AllInOrder, PostsInOrder, Alive, Gone, Classes
<1> QED BY <1>1, <1>2, ProcStep

LEMMA DeleteDates ==
  ASSUME DateInv, NEW w \in Workers, DeleteEntity(w)
  PROVE  DateInv'
BY Shapes, ErasedDates DEF DeleteEntity, DateInv, Types

\* The part of a job that is left after a save.
LEMMA RestType ==
  ASSUME DateInv, NEW w \in Workers, proc[w] \in SaveOf
  PROVE  LET s == proc[w]
         IN  /\ s.on \in Posts /\ s.row \in Row /\ s.from \in Content /\ s.began \in Hours
             /\ s.rest \in States /\ StateInOrder(s.rest, now)
             /\ InOrder(s.row, now)
BY Shapes DEF SaveOf, Idle, LoopOf, JobNames, StateInOrder, States

LEMMA SaveDates ==
  ASSUME DateInv, NEW w \in Workers, Save(w)
  PROVE  DateInv'
<1> DEFINE s == proc[w]
<1>1. s \in SaveOf BY Shapes DEF Save
<1>2. /\ s.on \in Posts /\ s.row \in Row /\ InOrder(s.row, now)
      /\ s.rest \in States /\ StateInOrder(s.rest, now)
  BY <1>1, RestType
<1>3. [s EXCEPT !.at = "record"] \in States /\ StateInOrder([s EXCEPT !.at = "record"], now)
  BY <1>1, Shapes DEF SaveOf, StateInOrder, LoopOf, JobNames, States
<1>4. PICK state \in States : proc' = [proc EXCEPT ![w] = state] /\ StateInOrder(state, now) BY <1>2, <1>3 DEF Save
<1>5. post' \in [Posts -> Row \cup {Unused, Gone}] BY <1>2 DEF Save, DateInv, Types
<1>6. PostsInOrder' BY <1>2 DEF Save, DateInv, Types, AllInOrder, PostsInOrder, Alive
<1> QED BY <1>4, <1>5, <1>6, ProcStep DEF Save, DateInv, Types

\* A revision more is a history still.
LEMMA NotedType ==
  ASSUME Types, NEW p \in Posts, NEW r \in Revision
  PROVE  /\ Noted(p, r) \in [Posts -> Seq(Revision)]
         /\ Noted(p, r)[p] = Append(revs[p], r)
         /\ \A q \in Posts \ {p} : Noted(p, r)[q] = revs[q]
BY DEF Noted, Types

LEMMA RecordDates ==
  ASSUME DateInv, NEW w \in Workers, Record(w)
  PROVE  DateInv'
<1> DEFINE s == proc[w]
           r == [at |-> s.began, from |-> s.from, to |-> Serialized(s.row)]
<1>1. s \in SaveOf BY Shapes DEF Record
<1>2. /\ s.on \in Posts /\ s.row \in Row /\ s.from \in Content /\ s.began \in Hours
      /\ s.rest \in States /\ StateInOrder(s.rest, now)
  BY <1>1, RestType
<1>3. r \in Revision BY <1>2, SerializedType DEF Revision
<1>4. revs' \in [Posts -> Seq(Revision)] BY <1>2, <1>3, NotedType DEF Record, DateInv, Types
<1>5. Idle \in States /\ StateInOrder(Idle, now) BY DEF States, StateInOrder, Idle, LoopOf, SaveOf, JobNames
<1>6. PICK state \in States : proc' = [proc EXCEPT ![w] = state] /\ StateInOrder(state, now) BY <1>2, <1>5 DEF Record
<1> QED BY <1>4, <1>6, QuietStep DEF Record

LEMMA IdleDates ==
  ASSUME DateInv, NEW w \in Workers, proc' = [proc EXCEPT ![w] = Idle],
         UNCHANGED <<crew, offer, now, missed, jobs, post, revs>>
  PROVE  DateInv'
<1>1. Idle \in States /\ StateInOrder(Idle, now) BY DEF States, StateInOrder, Idle, LoopOf, SaveOf, JobNames
<1> QED BY <1>1, QuietStep DEF DateInv, Types

\* The posts a job loads, and what is left of them after one.
LEMMA LoopType ==
  ASSUME DateInv, NEW due \in SUBSET Posts, \A p \in due : Alive(p), NEW job \in JobNames
  PROVE  /\ Loop(job, Copies(due)) \in LoopOf /\ Loop(job, Copies(due)).at = job
         /\ DOMAIN Loop(job, Copies(due)).copies = due
         /\ \A p \in due : Loop(job, Copies(due)).copies[p] = post[p]
         /\ StateInOrder(Loop(job, Copies(due)), now)
<1>1. Copies(due) \in [due -> Row] /\ \A p \in due : Copies(due)[p] = post[p] BY AliveRow DEF Copies, DateInv
<1>2. Loop(job, Copies(due)) \in LoopOf BY <1>1 DEF Loop, LoopOf, CopiesOf
<1>3. Loop(job, Copies(due)).copies = Copies(due) /\ Loop(job, Copies(due)).at = job BY DEF Loop
<1>4. Loop(job, Copies(due)) \notin SaveOf BY <1>3 DEF SaveOf, JobNames
<1>5. \A p \in due : InOrder(Copies(due)[p], now) BY <1>1 DEF DateInv, AllInOrder, PostsInOrder
<1> QED BY <1>1, <1>2, <1>3, <1>4, <1>5 DEF StateInOrder, CopiesInOrder

LEMMA WithoutType ==
  ASSUME NEW s \in LoopOf, NEW p
  PROVE  /\ Without(s, p) \in LoopOf /\ Without(s, p).at = s.at
         /\ DOMAIN Without(s, p).copies = DOMAIN s.copies \ {p}
         /\ \A q \in DOMAIN s.copies \ {p} : Without(s, p).copies[q] = s.copies[q]
<1>1. s.copies \in CopiesOf /\ s.at \in JobNames BY DEF LoopOf
<1>2. PICK D \in SUBSET Posts : s.copies \in [D -> Row] BY <1>1 DEF CopiesOf
<1> DEFINE some == [q \in DOMAIN s.copies \ {p} |-> s.copies[q]]
<1>3. some \in [D \ {p} -> Row] /\ DOMAIN some = DOMAIN s.copies \ {p}
      /\ \A q \in DOMAIN s.copies \ {p} : some[q] = s.copies[q]
  BY <1>2
<1>4. some \in CopiesOf BY <1>3 DEF CopiesOf
<1>5. Without(s, p) = [s EXCEPT !.copies = some] BY DEF Without
<1> HIDE DEF some
<1>6. Without(s, p) \in LoopOf /\ Without(s, p).at = s.at /\ Without(s, p).copies = some
  BY <1>1, <1>4, <1>5 DEF LoopOf
<1> QED BY <1>3, <1>6

LEMMA WithoutOrder ==
  ASSUME NEW s \in LoopOf, NEW p, StateInOrder(s, now)
  PROVE  CopiesInOrder(Without(s, p).copies, now) /\ StateInOrder(Without(s, p), now)
BY WithoutType DEF StateInOrder, CopiesInOrder, LoopOf, SaveOf, JobNames

LEMMA PickupDates ==
  ASSUME DateInv, NEW w \in Workers, NEW job, NEW state \in States, Pickup(w, job, state),
         StateInOrder(state, now)
  PROVE  DateInv'
BY QuietStep DEF Pickup, DateInv, Types

LEMMA DepublicateDates ==
  ASSUME DateInv, NEW w \in Workers, Depublicate(w)
  PROVE  DateInv'
BY LoopType, PickupDates DEF Depublicate, ToArchive, JobNames, States

LEMMA PublishDates ==
  ASSUME DateInv, NEW w \in Workers, Publish(w)
  PROVE  DateInv'
BY LoopType, PickupDates DEF Publish, Recent, JobNames, States

\* A copy that a job holds, and the same with the flag set.
LEMMA CopyType ==
  ASSUME NEW s \in LoopOf, StateInOrder(s, now), NEW p \in DOMAIN s.copies
  PROVE  /\ p \in Posts /\ s.copies[p] \in Row /\ InOrder(s.copies[p], now)
         /\ InOrder([s.copies[p] EXCEPT !.archived = TRUE], now)
BY FlaggedType DEF LoopOf, CopiesOf, StateInOrder, CopiesInOrder, InOrder

LEMMA ArchiveNextDates ==
  ASSUME DateInv, NEW w \in Workers, ArchiveNext(w)
  PROVE  DateInv'
<1> DEFINE s == proc[w]
<1>1. s \in LoopOf /\ StateInOrder(s, now) BY Shapes DEF ArchiveNext, JobNames
<1>2. PICK p \in DOMAIN s.copies :
        proc' = [proc EXCEPT ![w] = Saving(p, [s.copies[p] EXCEPT !.archived = TRUE],
                                           Serialized(s.copies[p]), Without(s, p))]
  BY DEF ArchiveNext
<1> DEFINE row == [s.copies[p] EXCEPT !.archived = TRUE]
<1>3. p \in Posts /\ s.copies[p] \in Row /\ row \in Row /\ InOrder(row, now) BY <1>1, CopyType, FlaggedType
<1>4. Serialized(s.copies[p]) \in Content BY <1>3, SerializedType
<1>5. Without(s, p) \in LoopOf /\ CopiesInOrder(Without(s, p).copies, now) BY <1>1, WithoutType, WithoutOrder
<1> HIDE DEF row
<1>6. Saving(p, row, Serialized(s.copies[p]), Without(s, p)) \in SaveOf
      /\ StateInOrder(Saving(p, row, Serialized(s.copies[p]), Without(s, p)), now)
  BY <1>3, <1>4, <1>5, SavingType
<1> QED BY <1>2, <1>6, QuietStep DEF ArchiveNext, States, DateInv, Types, row

LEMMA ArchiveDoneDates ==
  ASSUME DateInv, NEW w \in Workers, ArchiveDone(w)
  PROVE  DateInv'
<1>1. Loop("delete", Copies(ToDelete)) \in States /\ StateInOrder(Loop("delete", Copies(ToDelete)), now)
  BY LoopType DEF ToDelete, JobNames, States
<1> QED BY <1>1, QuietStep DEF ArchiveDone, DateInv, Types

LEMMA DeleteNextDates ==
  ASSUME DateInv, NEW w \in Workers, DeleteNext(w)
  PROVE  DateInv'
<1> DEFINE s == proc[w]
<1>1. s \in LoopOf /\ StateInOrder(s, now) BY Shapes DEF DeleteNext, JobNames
<1>2. PICK p \in DOMAIN s.copies :
        \/ proc' = [proc EXCEPT ![w] = Idle] /\ UNCHANGED <<post, revs>>
        \/ proc' = [proc EXCEPT ![w] = Without(s, p)] /\ Erased(p)
  BY DEF DeleteNext
<1>3. p \in Posts /\ Without(s, p) \in States /\ StateInOrder(Without(s, p), now)
  BY <1>1, CopyType, WithoutType, WithoutOrder DEF States
<1>4. CASE proc' = [proc EXCEPT ![w] = Idle] /\ UNCHANGED <<post, revs>> BY <1>4, IdleDates DEF DeleteNext
<1>5. CASE proc' = [proc EXCEPT ![w] = Without(s, p)] /\ Erased(p) BY <1>3, <1>5, ErasedDates DEF DeleteNext
<1> QED BY <1>2, <1>4, <1>5

LEMMA PublishNextDates ==
  ASSUME DateInv, NEW w \in Workers, PublishNext(w)
  PROVE  DateInv'
<1> DEFINE s == proc[w]
<1>1. s \in LoopOf /\ StateInOrder(s, now) BY Shapes DEF PublishNext, JobNames
<1>2. PICK p \in DOMAIN s.copies :
        \/ proc' = [proc EXCEPT ![w] = Idle] /\ UNCHANGED revs
        \/ /\ proc' = [proc EXCEPT ![w] = Without(s, p)]
           /\ \/ UNCHANGED revs
              \/ revs' = Noted(p, [at |-> now,
                                   from |-> [Serialized(s.copies[p]) EXCEPT
                                               !.status = StatusAt(s.copies[p], Latest(p).at)],
                                   to |-> Serialized(s.copies[p])])
  BY DEF PublishNext
<1> DEFINE row == s.copies[p]
           before == StatusAt(row, Latest(p).at)
           r == [at |-> now, from |-> [Serialized(row) EXCEPT !.status = before], to |-> Serialized(row)]
<1>3. p \in Posts /\ row \in Row /\ Without(s, p) \in States /\ StateInOrder(Without(s, p), now)
  BY <1>1, CopyType, WithoutType, WithoutOrder DEF States
<1>4. before \in {"draft", "published", "archived"} BY StatusAtType
<1>5. Serialized(row) \in Content BY <1>3, SerializedType
<1>6. r \in Revision
  <2> HIDE DEF before
  <2> QED BY <1>4, <1>5 DEF Revision, Content, DateInv, Types
<1>7. Noted(p, r) \in [Posts -> Seq(Revision)] BY <1>3, <1>6, NotedType DEF DateInv
<1>8. UNCHANGED revs \/ revs' = Noted(p, r) BY <1>2
<1>9. revs' \in [Posts -> Seq(Revision)] BY <1>7, <1>8 DEF DateInv, Types
<1>10. CASE proc' = [proc EXCEPT ![w] = Idle] /\ UNCHANGED revs BY <1>10, IdleDates DEF PublishNext
<1>11. CASE proc' = [proc EXCEPT ![w] = Without(s, p)]
  <2>1. UNCHANGED <<crew, now, missed, post, jobs>> BY DEF PublishNext
  <2> HIDE DEF s, r
  <2> QED BY <1>3, <1>9, <1>11, <2>1, QuietStep
<1> QED BY <1>2, <1>10, <1>11

\* The clock only makes more deletions past.
LEMMA LaterOrder ==
  ASSUME DateInv, now' \in Hours, now' >= now, missed' \in 0..MaxMissed,
         jobs' \subseteq {"depublicate", "publish"}, UNCHANGED <<crew, post, revs, proc>>
  PROVE  DateInv'
<1>1. Types' BY DEF DateInv, Types
<1>2. ASSUME NEW row \in Row, InOrder(row, now) PROVE InOrder(row, now')
  BY <1>2, RowFields, HoursAre DEF InOrder, DateInv, Types
<1>3. PostsInOrder' BY <1>2, AliveRow DEF PostsInOrder, DateInv, AllInOrder, Alive
<1>4. ASSUME NEW copies \in CopiesOf, CopiesInOrder(copies, now) PROVE CopiesInOrder(copies, now')
  BY <1>2, <1>4 DEF CopiesOf, CopiesInOrder
<1>5. ASSUME NEW w \in Workers PROVE StateInOrder(proc'[w], now')
  BY Shapes, <1>2, <1>4 DEF StateInOrder, LoopOf, SaveOf
<1> QED BY <1>1, <1>3, <1>5 DEF DateInv, AllInOrder

LEMMA BeatDates == DateInv /\ (Beat \/ MissBeat) => DateInv'
<1> SUFFICES ASSUME DateInv, Beat \/ MissBeat PROVE DateInv' OBVIOUS
<1>1. /\ now \in 0..Horizon /\ missed \in 0..MaxMissed /\ Horizon \in Nat /\ MaxMissed \in Nat
  BY PublicationAssumption DEF DateInv, Types, Hours
<1>2. now' \in Hours /\ now' >= now BY <1>1 DEF Beat, MissBeat, Later, Hours
<1>3. missed' \in 0..MaxMissed BY <1>1 DEF Beat, MissBeat
<1>4. jobs' \subseteq {"depublicate", "publish"} BY DEF Beat, MissBeat, DateInv, Types
<1>5. UNCHANGED <<crew, post, revs, proc>> BY DEF Beat, MissBeat
<1> QED BY <1>2, <1>3, <1>4, <1>5, LaterOrder

LEMMA RequestDates ==
  ASSUME DateInv, NEW w \in Workers, Request(w)
  PROVE  DateInv'
<1>1. Undated \in SUBSET Inputs /\ Inputs \in SUBSET Inputs BY DEF Undated
<1>2. CASE AddPost(w)
  <2>1. PICK class \in Classes, inputs \in SUBSET Inputs : Add(w, class, inputs)
    BY <1>1, <1>2
    DEF AddPost, AddBlog, AddNews, AddWiki, AddPage, AddPad, AddDiscussion, AddQuestion, AddTask,
        AddStatusUpdate, AddFolder, AddFile, Classes
  <2> QED BY <2>1, AddDates
<1>3. CASE EditPost(w)
  <2>1. PICK classes \in SUBSET Classes, inputs \in SUBSET Inputs : Edit(w, classes, inputs)
    BY <1>1, <1>3
    DEF EditPost, EditBlog, EditNews, EditWiki, EditPage, EditPad, EditDiscussion, EditQuestion,
        EditTask, EditStatusUpdate, EditFileFolder, Classes
  <2> QED BY <2>1, EditDates
<1> QED BY <1>2, <1>3, CopyDates, ArchiveDates, DeleteDates DEF Request

LEMMA StepDates == DateInv /\ [Next]_vars => DateInv'
<1> SUFFICES ASSUME DateInv, [Next]_vars PROVE DateInv' OBVIOUS
<1>1. CASE UNCHANGED vars BY <1>1, LaterOrder, HoursAre DEF vars, DateInv, Types
<1>2. CASE Beat \/ MissBeat BY <1>2, BeatDates
<1>3. ASSUME NEW w \in Workers, Request(w) PROVE DateInv' BY <1>3, RequestDates
<1>4. ASSUME NEW w \in Workers, Progress(w) PROVE DateInv'
  <2>1. CASE LoopDone(w) BY <2>1, IdleDates DEF LoopDone
  <2> QED
    BY <1>4, <2>1, SaveDates, RecordDates, DepublicateDates, ArchiveNextDates, ArchiveDoneDates,
       DeleteNextDates, PublishDates, PublishNextDates
    DEF Progress
<1>5. ASSUME NEW w \in Workers, Crash(w) PROVE DateInv' BY <1>5, IdleDates DEF Crash
<1> QED BY <1>1, <1>2, <1>3, <1>4, <1>5 DEF Next

LEMMA DatesAlways == Spec => []DateInv
BY InitDates, StepDates, PTL DEF Spec

\* No post is deleted before it is archived, for any number of processes, of
\* which any may die (update_publication_dates, resolve_toggle_is_archived,
\* depublicate_content).
THEOREM DatesStayOrdered == Spec => []DatesOrdered
<1>1. DateInv => DatesOrdered BY DEF DateInv, AllInOrder, PostsInOrder, InOrder, DatesOrdered
<1> QED BY <1>1, DatesAlways, PTL

LEMMA TypesSay == Types => TypeOK
<1> SUFFICES ASSUME Types PROVE TypeOK OBVIOUS
<1>1. ASSUME NEW s \in LoopOf PROVE IsLoop(s) BY DEF LoopOf, CopiesOf, IsLoop
<1>2. ASSUME NEW s \in SaveOf PROVE IsSave(s) BY <1>1 DEF SaveOf, IsSave
<1>3. ASSUME NEW w \in Workers PROVE proc[w] = Idle \/ IsLoop(proc[w]) \/ IsSave(proc[w])
  BY <1>1, <1>2 DEF Types, States
<1>4. ASSUME NEW p \in Posts, NEW i \in DOMAIN revs[p] PROVE revs[p][i] \in Revision BY DEF Types
<1> QED BY <1>3, <1>4 DEF Types, TypeOK

\* Every variable has its type; a process holds rows, not what is left of them.
THEOREM TypeCorrect == Spec => []TypeOK
<1>1. DateInv => TypeOK BY TypesSay DEF DateInv
<1> QED BY <1>1, DatesAlways, PTL

-----------------------------------------------------------------------------
(***************************************************************************)
(* The history of a post, when one process does everything.                *)
(***************************************************************************)
HInv(w) == DateInv /\ Alone(w) /\ HistoryInv(w)

LEMMA Clock ==
  ASSUME DateInv
  PROVE  /\ now \in Int /\ missed \in Int /\ missed >= 0 /\ missed <= MaxMissed /\ Struck \in Int
         /\ Struck <= now /\ (missed = 0 => Struck = now)
         /\ MaxMissed \in Int /\ Window \in Int /\ Window >= 1
BY PublicationAssumption DEF DateInv, Types, Hours, Struck

LEMMA IdleShape ==
  /\ Idle \in States /\ Idle \notin SaveOf /\ Idle \notin LoopOf /\ Idle.at = "idle" /\ ~IsJob(Idle)
BY DEF States, Idle, SaveOf, LoopOf, JobNames, IsJob

LEMMA Apart ==
  /\ \A s \in SaveOf : s \notin LoopOf /\ s.at \in {"save", "copy", "record"} /\ s.at \notin JobNames
                       /\ s # Idle
  /\ \A s \in LoopOf : s \notin SaveOf /\ s.at \in JobNames /\ s # Idle
                       /\ s.at \notin {"save", "copy", "record"}
BY DEF SaveOf, LoopOf, JobNames, Idle

\* Nobody but w moves.
LEMMA Moved ==
  ASSUME NEW w, HInv(w), NEW v \in Workers, Request(v) \/ Progress(v) \/ Crash(v)
  PROVE  v = w /\ ~Crash(v) /\ ~CopyPage(v)
<1>1. v \in crew \/ proc[v] # Idle
  BY IdleShape
  DEF Request, AddPost, EditPost, AddBlog, AddNews, AddWiki, AddPage, AddPad, AddDiscussion,
      AddQuestion, AddTask, AddStatusUpdate, AddFolder, AddFile, EditBlog, EditNews, EditWiki,
      EditPage, EditPad, EditDiscussion, EditQuestion, EditTask, EditStatusUpdate, EditFileFolder,
      Add, Edit, CopyPage, ArchiveEntity, DeleteEntity, Free, Progress, Save, Record, Depublicate,
      Publish, Pickup, ArchiveNext, ArchiveDone, DeleteNext, PublishNext, LoopDone, Crash, Idle
<1>2. v = w BY <1>1 DEF HInv, Alone, HistoryInv, Working
<1>3. ~Crash(v) /\ ~CopyPage(v) BY DEF HInv, Alone, Crash, CopyPage, Free
<1> QED BY <1>2, <1>3

\* What a step of w that only takes something up leaves true.
LEMMA TakenUp ==
  ASSUME NEW w, HInv(w), NEW t \in States, proc' = [proc EXCEPT ![w] = t],
         UNCHANGED <<crew, offer, now, missed, post, revs>>, jobs' \subseteq jobs,
         proc[w].at # "record", t.at # "record",
         t \in SaveOf => t.at # "copy" /\ Noting(t),
         t \in LoopOf /\ t.at = "archive" => Archiving(t),
         t \in LoopOf /\ t.at = "publish" => Publishing(t),
         IsJob(t) => missed = 0
  PROVE  Alone(w)' /\ History(w)' /\ Working(w)'
<1>1. w \in Workers /\ proc'[w] = t /\ \A v \in Workers \ {w} : proc'[v] = proc[v] BY DEF HInv, Alone, DateInv, Types
<1>2. Alone(w)' BY DEF HInv, Alone
<1>3. ASSUME NEW p \in Posts
      PROVE  (Newest(p) /\ Chained(p) /\ Bare(p) /\ (Settled(w, p) => Told(p)))'
  <2>1. Newest(p)' /\ Chained(p)' /\ Bare(p)' BY DEF HInv, HistoryInv, History, Newest, Chained, Bare, Last, Alive
  <2>2. ASSUME Settled(w, p)' PROVE Told(p)'
    <3>1. Settled(w, p) BY <2>2 DEF Settled, Recording, Alive
    <3> QED BY <3>1 DEF HInv, HistoryInv, History, Told, Last
  <2> QED BY <2>1, <2>2
<1>4. Working(w)'
  <2>1. t \in SaveOf => t.at # "copy" /\ Noting(t)' BY DEF Noting, Archiving, Overdue, Alive, Last
  <2>2. t \in LoopOf /\ t.at = "archive" => Archiving(t)' BY DEF Archiving, Overdue, Alive
  <2>3. t \in LoopOf /\ t.at = "publish" => Publishing(t)' BY DEF Publishing, Alive
  <2>4. jobs' # {} \/ IsJob(t) => missed' = 0 BY DEF HInv, HistoryInv, Working
  <2>5. \A v \in Workers \ {w} : proc'[v] = Idle BY <1>1 DEF HInv, HistoryInv, Working
  <2> QED BY <1>1, <2>1, <2>2, <2>3, <2>4, <2>5 DEF Working
<1> QED BY <1>2, <1>3, <1>4 DEF History

LEMMA StaleStays ==
  ASSUME NEW w, HInv(w), UNCHANGED <<now, missed, post, revs>>,
         "publish" \in jobs' <=> "publish" \in jobs, proc[w].at # "record",
         proc[w].at = "publish" => DOMAIN proc[w].copies = {}
  PROVE  StaleInv(w)'
<1> SUFFICES ASSUME MaxMissed < Window, NEW p \in Posts, Settled(w, p)', Stale(p)'
             PROVE  Awaited(w, p)'
  BY DEF StaleInv
<1>1. Settled(w, p) /\ Stale(p) BY DEF Settled, Recording, Stale, Alive, Last
<1>2. Awaited(w, p) BY <1>1 DEF HInv, HistoryInv, StaleInv
<1> QED BY <1>2 DEF Awaited, Struck

LEMMA RevisionsAre ==
  ASSUME Types, NEW p \in Posts
  PROVE  /\ revs[p] \in Seq(Revision) /\ Len(revs[p]) \in Nat /\ DOMAIN revs[p] = 1..Len(revs[p])
         /\ \A i \in DOMAIN revs[p] : revs[p][i] \in Revision /\ revs[p][i].at \in Int
         /\ revs[p] # <<>> => Len(revs[p]) \in DOMAIN revs[p] /\ Last(p) \in Revision
<1>1. revs[p] \in Seq(Revision) BY DEF Types
<1>2. \A i \in DOMAIN revs[p] : revs[p][i] \in Revision BY <1>1
<1>3. \A r \in Revision : r.at \in Int BY HoursAre DEF Revision
<1>4. revs[p] # <<>> => Len(revs[p]) \in DOMAIN revs[p] BY <1>1
<1> QED BY <1>1, <1>2, <1>3, <1>4 DEF Last

\* No revision is of the future.
LEMMA Past ==
  ASSUME NEW w, HInv(w), NEW p \in Posts
  PROVE  \A i \in DOMAIN revs[p] : revs[p][i].at <= now
<1>1. Newest(p) BY DEF HInv, HistoryInv, History
<1>2. /\ \A i \in DOMAIN revs[p] : revs[p][i].at \in Int
      /\ revs[p] # <<>> => Last(p).at \in Int
      /\ now \in Int
  BY RevisionsAre, Clock DEF HInv, DateInv, Last
<1>3. \A i \in DOMAIN revs[p] : revs[p] # <<>> BY RevisionsAre DEF HInv, DateInv
<1> QED BY <1>1, <1>2, <1>3 DEF Newest

\* A process that does nothing has no post to come to.
LEMMA NothingToCome ==
  ASSUME NEW w, w \in Workers, proc[w] = Idle
  PROVE  ToCome(w) = {}
BY IdleShape DEF ToCome

\* A request of the process that served nothing before.
LEMMA TakenOn ==
  ASSUME NEW w, HInv(w), proc[w] = Idle, NEW p \in Posts, NEW row \in Row, NEW from \in Content,
         Take(w, Saving(p, row, from, Idle)), Saving(p, row, from, Idle) \in SaveOf,
         UNCHANGED <<crew, offer, now, missed, jobs, post, revs>>,
         from.status = "archived" => row.archived \/ row.arch = NoDate,
         post[p] = Unused \/ (Alive(p) /\ row.class = post[p].class /\ from.text = post[p].text),
         "depublicate" \notin jobs => ArchivedIfDue(row)
  PROVE  Alone(w)' /\ HistoryInv(w)'
<1> DEFINE t == Saving(p, row, from, Idle)
<1>1. /\ t.at = "save" /\ t.on = p /\ t.row = row /\ t.from = from /\ t.began = now /\ t.rest = Idle
      /\ t \in States
  BY DEF Saving, States
<1>2. \A i \in DOMAIN revs[p] : revs[p][i].at <= now BY Past
<1>3. t \in SaveOf /\ t \notin LoopOf /\ ~IsJob(t) BY <1>1, Apart DEF IsJob, JobNames
<1> HIDE DEF t
<1>4. now <= now BY Clock DEF HInv
<1>5. Noting(t) BY <1>1, <1>2, <1>4 DEF Noting
<1>6. proc' = [proc EXCEPT ![w] = t] BY DEF Take, t
<1>7. Alone(w)' /\ History(w)' /\ Working(w)' BY <1>1, <1>3, <1>5, <1>6, TakenUp, IdleShape
<1>8. proc'[w] = t /\ w \in Workers BY <1>6 DEF HInv, Alone, DateInv, Types
<1>9. DueInv(w)'
  <2>1. ToCome(w) = {} BY <1>8, NothingToCome
  <2>2. "depublicate" \notin jobs => \A q \in Posts : Alive(q) => ArchivedIfDue(post[q])
    BY <2>1 DEF HInv, HistoryInv, DueInv
  <2>3. ArchivedIfDue(row) => ArchivedIfDue(proc[w].row)' BY <1>1, <1>8 DEF ArchivedIfDue, Struck, Passed
  <2>4. \A q \in Posts : ArchivedIfDue(post[q]) => ArchivedIfDue(post[q])' BY DEF ArchivedIfDue, Struck, Passed
  <2> QED BY <2>2, <2>3, <2>4 DEF DueInv, Alive
<1>10. StaleInv(w)' BY StaleStays, IdleShape
<1> QED BY <1>7, <1>9, <1>10 DEF HistoryInv

\* Once the flag is set where the date has passed, it is where the jobs last ran.
LEMMA DueRow ==
  ASSUME DateInv, NEW row \in Row, Passed(row.arch, now) => row.archived
  PROVE  ArchivedIfDue(row)
BY Clock, RowFields DEF ArchivedIfDue, Passed

LEMMA AddHistory ==
  ASSUME NEW w, HInv(w), NEW class \in Classes, NEW inputs \in SUBSET Inputs, Add(w, class, inputs)
  PROVE  Alone(w)' /\ HistoryInv(w)'
<1>1. PICK p \in Posts, input \in inputs :
        LET row == Changed(New(class), input)
        IN  IsNext(p) /\ ~Refused(row) /\ Take(w, Saving(p, row, Serialized(row), Idle))
  BY DEF Add
<1> DEFINE row == Changed(New(class), input)
<1>2. row \in Row /\ (Passed(row.arch, now) => row.archived)
  BY NewType, ChangedType DEF HInv, DateInv, Passed
<1>3. Serialized(row) \in Content /\ (Serialized(row).status = "archived" => row.archived) BY <1>2, SerializedType
<1>4. Saving(p, row, Serialized(row), Idle) \in SaveOf
  BY <1>1, <1>2, <1>3, NotRefused, SavingType DEF HInv, Idle, LoopOf, JobNames
<1>5. post[p] = Unused /\ proc[w] = Idle BY <1>1 DEF IsNext, Unclaimed, Add, Free
<1>6. ArchivedIfDue(row) BY <1>2, DueRow DEF HInv
<1> HIDE DEF row
<1>7. Take(w, Saving(p, row, Serialized(row), Idle)) BY <1>1 DEF row
<1> QED BY <1>2, <1>3, <1>4, <1>5, <1>6, <1>7, TakenOn DEF Add

\* What is due is archived, when the process does nothing and the job has run.
LEMMA IdleDue ==
  ASSUME NEW w, HInv(w), proc[w] = Idle, NEW p \in Posts, Alive(p), "depublicate" \notin jobs
  PROVE  ArchivedIfDue(post[p])
BY NothingToCome DEF HInv, Alone, HistoryInv, DueInv

LEMMA EditHistory ==
  ASSUME NEW w, HInv(w), NEW classes, NEW inputs \in SUBSET Inputs, Edit(w, classes, inputs)
  PROVE  Alone(w)' /\ HistoryInv(w)'
<1>1. PICK p \in Posts, input \in inputs :
        /\ Alive(p)
        /\ LET row == Changed(post[p], input)
           IN  ~Refused(row) /\ Take(w, Saving(p, row, Serialized(post[p]), Idle))
  BY DEF Edit
<1> DEFINE row == Changed(post[p], input)
<1>2. post[p] \in Row /\ proc[w] = Idle BY <1>1, AliveRow DEF HInv, DateInv, Edit, Free
<1>3. /\ row \in Row /\ row.class = post[p].class /\ (post[p].archived => row.archived)
      /\ row.arch = post[p].arch \/ (Passed(row.arch, now) => row.archived)
  BY <1>2, ChangedType DEF HInv, DateInv
<1>4. /\ Serialized(post[p]) \in Content /\ Serialized(post[p]).text = post[p].text
      /\ Serialized(post[p]).status = "archived" => post[p].archived
  BY <1>2, SerializedType
<1>5. Saving(p, row, Serialized(post[p]), Idle) \in SaveOf
  BY <1>1, <1>3, <1>4, NotRefused, SavingType DEF HInv, Idle, LoopOf, JobNames
<1>6. "depublicate" \notin jobs => ArchivedIfDue(row)
  <2>1. CASE Passed(row.arch, now) => row.archived BY <1>3, <2>1, DueRow DEF HInv
  <2>2. CASE row.arch = post[p].arch
    <3> HIDE DEF row
    <3> QED BY <1>1, <1>2, <1>3, <2>2, IdleDue DEF ArchivedIfDue
  <2> QED BY <1>3, <2>1, <2>2
<1> HIDE DEF row
<1>7. Take(w, Saving(p, row, Serialized(post[p]), Idle)) BY <1>1 DEF row
<1> QED BY <1>1, <1>2, <1>3, <1>4, <1>5, <1>6, <1>7, TakenOn DEF Edit

LEMMA ArchiveHistory ==
  ASSUME NEW w, HInv(w), ArchiveEntity(w)
  PROVE  Alone(w)' /\ HistoryInv(w)'
<1>1. PICK p \in Posts : Alive(p) /\ Take(w, Saving(p, Toggled(post[p]), Serialized(post[p]), Idle))
  BY DEF ArchiveEntity
<1> DEFINE row == Toggled(post[p])
<1>2. post[p] \in Row /\ row \in Row /\ Serialized(post[p]) \in Content /\ InOrder(row, now)
      /\ proc[w] = Idle
  BY <1>1, ToggledDates DEF HInv, ArchiveEntity, Free
<1>3. /\ row.class = post[p].class /\ (row.archived <=> ~post[p].archived)
      /\ row.arch = IF post[p].archived THEN NoDate ELSE now
  BY <1>2, ToggledType DEF HInv, DateInv
<1>4. /\ Serialized(post[p]).text = post[p].text
      /\ Serialized(post[p]).status = "archived" => post[p].archived
  BY <1>2, SerializedType
<1>5. Saving(p, row, Serialized(post[p]), Idle) \in SaveOf BY <1>2, SavingType DEF HInv, Idle, LoopOf, JobNames
<1> HIDE DEF row
<1>6. ArchivedIfDue(row) BY <1>3 DEF ArchivedIfDue, Passed
<1>7. Take(w, Saving(p, row, Serialized(post[p]), Idle)) BY <1>1 DEF row
<1> QED BY <1>1, <1>2, <1>3, <1>4, <1>5, <1>6, <1>7, TakenOn DEF ArchiveEntity

\* A post that is gone has no history.
LEMMA GoneHistory ==
  ASSUME NEW w, HInv(w), NEW p \in Posts, Erased(p), UNCHANGED now, proc[w].at # "record",
         proc'[w].at # "record"
  PROVE  History(w)' /\ \A q \in Posts : Alive(q)' => q # p /\ Alive(q) /\ post'[q] = post[q]
<1>1. post' = [post EXCEPT ![p] = Gone] /\ revs' = [revs EXCEPT ![p] = <<>>]
      /\ DOMAIN post = Posts /\ DOMAIN revs = Posts
  BY DEF Erased, HInv, DateInv, Types
<1>2. post'[p] = Gone /\ revs'[p] = <<>> /\ ~Alive(p)' BY <1>1 DEF Alive, Gone, Classes
<1>3. ASSUME NEW q \in Posts \ {p} PROVE post'[q] = post[q] /\ revs'[q] = revs[q] BY <1>1
<1>4. ASSUME NEW q \in Posts
      PROVE  (Newest(q) /\ Chained(q) /\ Bare(q) /\ (Settled(w, q) => Told(q)))'
  <2>1. CASE q = p
    BY <1>2, <2>1 DEF Newest, Bare, Settled, Chained
  <2>2. CASE q # p
    <3>1. post'[q] = post[q] /\ revs'[q] = revs[q] BY <1>3, <2>2
    <3>2. Newest(q)' /\ Chained(q)' /\ Bare(q)'
      BY <3>1 DEF HInv, HistoryInv, History, Newest, Chained, Bare, Last, Alive
    <3>3. ASSUME Settled(w, q)' PROVE Told(q)'
      <4>1. Settled(w, q) BY <3>1, <3>3 DEF Settled, Recording, Alive
      <4> QED BY <3>1, <4>1 DEF HInv, HistoryInv, History, Told, Last
    <3> QED BY <3>2, <3>3
  <2> QED BY <2>1, <2>2
<1> QED BY <1>2, <1>3, <1>4 DEF History, Alive

LEMMA DeleteHistory ==
  ASSUME NEW w, HInv(w), DeleteEntity(w)
  PROVE  Alone(w)' /\ HistoryInv(w)'
<1>1. PICK p \in Posts : Erased(p) BY DEF DeleteEntity
<1>2. UNCHANGED <<crew, offer, now, missed, jobs, proc>> /\ proc[w] = Idle BY DEF DeleteEntity, Free
<1>3. History(w)' /\ \A q \in Posts : Alive(q)' => q # p /\ Alive(q) /\ post'[q] = post[q]
  BY <1>1, <1>2, GoneHistory, IdleShape
<1>4. Alone(w)' BY <1>2 DEF HInv, Alone
<1>5. Working(w)' BY <1>2, IdleShape DEF HInv, HistoryInv, Working
<1>6. DueInv(w)'
  <2>1. ASSUME "depublicate" \notin jobs, NEW q \in Posts, Alive(q)' PROVE ArchivedIfDue(post[q])'
    BY <1>2, <1>3, <2>1, IdleDue DEF ArchivedIfDue, Struck, Passed
  <2> QED BY <1>2, <2>1, IdleShape DEF DueInv
<1>7. StaleInv(w)'
  <2> SUFFICES ASSUME MaxMissed < Window, NEW q \in Posts, Settled(w, q)', Stale(q)'
               PROVE  Awaited(w, q)'
    BY DEF StaleInv
  <2>1. q # p /\ post'[q] = post[q] /\ revs'[q] = revs[q] /\ Alive(q)
    BY <1>1, <1>3 DEF Settled, Erased, HInv, DateInv, Types
  <2>2. Settled(w, q) /\ Stale(q) BY <1>2, <2>1 DEF Settled, Recording, Stale, Last, Alive
  <2>3. Awaited(w, q) BY <2>2 DEF HInv, HistoryInv, StaleInv
  <2> QED BY <1>2, <2>1, <2>3 DEF Awaited, Struck
<1> QED BY <1>3, <1>4, <1>5, <1>6, <1>7 DEF HistoryInv

\* A process that is saving: what it holds.
LEMMA SavingNow ==
  ASSUME NEW w, HInv(w), NEW s \in SaveOf, proc[w] = s
  PROVE  /\ w \in Workers /\ s.at \in {"save", "record"} /\ Noting(s)
         /\ s.on \in Posts /\ s.row \in Row /\ s.from \in Content /\ s.began \in Hours
         /\ s.began \in Int /\ s.rest \in {Idle} \cup LoopOf /\ s.rest \in States
         /\ IsJob(s) <=> s.rest # Idle
         /\ IsJob(s.rest) <=> s.rest # Idle
         /\ s.rest # Idle => s.rest \in LoopOf /\ s.rest.at = "archive" /\ missed = 0
<1>1. w \in Workers /\ s.at # "copy" /\ Noting(s) /\ (IsJob(s) => missed = 0) BY DEF HInv, Alone, HistoryInv, Working
<1>2. s.at \in {"save", "record"} /\ s.at \notin JobNames BY <1>1, Apart
<1>3. /\ s.on \in Posts /\ s.row \in Row /\ s.from \in Content /\ s.began \in Hours
      /\ s.rest \in {Idle} \cup LoopOf
  BY DEF SaveOf
<1>4. s.began \in Int BY <1>3, HoursAre
<1>5. IsJob(s) <=> s.rest # Idle BY <1>2 DEF IsJob
<1>6. s.rest # Idle => s.rest \in LoopOf /\ s.rest.at = "archive" /\ IsJob(s.rest)
  BY <1>1, <1>3 DEF Noting, Archiving, IsJob, JobNames
<1> QED BY <1>1, <1>2, <1>3, <1>4, <1>5, <1>6, IdleShape DEF States

LEMMA SaveHistory ==
  ASSUME NEW w, HInv(w), Save(w)
  PROVE  Alone(w)' /\ HistoryInv(w)'
<1>1. PICK s \in SaveOf : proc[w] = s BY Shapes DEF Save, HInv, Alone
<1>2. /\ w \in Workers /\ s.at = "save" /\ Noting(s)
      /\ s.on \in Posts /\ s.row \in Row /\ s.rest \in {Idle} \cup LoopOf /\ s.rest \in States
      /\ IsJob(s) <=> s.rest # Idle
      /\ IsJob(s.rest) <=> s.rest # Idle
      /\ s.rest # Idle => s.rest \in LoopOf /\ s.rest.at = "archive" /\ missed = 0
  BY <1>1, SavingNow DEF Save
<1>3. UNCHANGED <<crew, offer, now, missed, jobs, revs>> BY DEF Save
<1>4. /\ post'[s.on] = s.row
      /\ \A q \in Posts \ {s.on} : post'[q] = post[q]
  BY <1>1, <1>2 DEF Save, HInv, DateInv, Types
<1>5. PICK t \in States :
        /\ proc' = [proc EXCEPT ![w] = t]
        /\ t = IF HasRevisions(s.row) THEN [s EXCEPT !.at = "record"] ELSE s.rest
  BY <1>1, <1>2 DEF SaveOf, Save, States
<1>6. proc'[w] = t /\ \A v \in Workers \ {w} : proc'[v] = Idle
  BY <1>2, <1>5 DEF HInv, DateInv, Types, HistoryInv, Working
<1>7. HasRevisions(s.row) =>
        /\ t \in SaveOf /\ t \notin LoopOf /\ t.at = "record" /\ t.on = s.on /\ t.row = s.row
        /\ t.from = s.from /\ t.began = s.began /\ t.rest = s.rest
        /\ IsJob(t) <=> s.rest # Idle
  BY <1>5, Apart DEF SaveOf, IsJob, JobNames
<1>8. ~HasRevisions(s.row) => t = s.rest /\ t \notin SaveOf /\ (t \in LoopOf => t.at = "archive")
  BY <1>2, <1>5, Apart, IdleShape
<1>9. Alive(s.on)' /\ (HasRevisions(post[s.on])' <=> HasRevisions(s.row))
  BY <1>2, <1>4, RowFields DEF Alive, HasRevisions
<1>10. post[s.on] = Unused \/ (Alive(s.on) /\ s.row.class = post[s.on].class /\ s.from.text = post[s.on].text)
  BY <1>2 DEF Noting
\* The post that is saved keeps revisions before, or was not there.
<1>11. revs[s.on] # <<>> =>
         HasRevisions(s.row) /\ Settled(w, s.on) /\ s.from.text = Last(s.on).to.text
  <2>1. revs[s.on] # <<>> => Alive(s.on) /\ HasRevisions(post[s.on]) BY <1>2 DEF HInv, HistoryInv, History, Bare
  <2>2. post[s.on] = Unused => ~Alive(s.on) BY <1>2, AliveRow DEF HInv, DateInv
  <2>3. ~Recording(w, s.on) BY <1>1, <1>2 DEF Recording
  <2>4. revs[s.on] # <<>> => HasRevisions(s.row) /\ Settled(w, s.on)
    BY <1>10, <2>1, <2>2, <2>3 DEF HasRevisions, Settled
  <2>5. Settled(w, s.on) => Told(s.on) BY <1>2 DEF HInv, HistoryInv, History
  <2> QED BY <1>10, <2>1, <2>2, <2>4, <2>5 DEF Told
<1>12. ASSUME NEW q \in Posts \ {s.on}
       PROVE  post'[q] = post[q] /\ (Alive(q)' <=> Alive(q)) /\ (Settled(w, q)' => Settled(w, q))
  <2>1. ~Recording(w, q) BY <1>1, <1>2 DEF Recording
  <2> QED BY <1>4, <2>1 DEF Settled, Alive
<1>13. ~Settled(w, s.on)' BY <1>4, <1>6, <1>7, <1>9 DEF Settled, Recording
<1>14. Alone(w)' BY <1>3 DEF HInv, Alone
<1>15. History(w)'
  <2>1. ASSUME NEW q \in Posts
        PROVE  (Newest(q) /\ Chained(q) /\ Bare(q) /\ (Settled(w, q) => Told(q)))'
    <3>1. Newest(q)' /\ Chained(q)' BY <1>3 DEF HInv, HistoryInv, History, Newest, Chained, Last
    <3>2. CASE q = s.on BY <1>3, <1>9, <1>11, <1>13, <3>1, <3>2 DEF Bare
    <3>3. CASE q # s.on
      <4>1. Bare(q)' BY <1>3, <1>12, <3>3 DEF HInv, HistoryInv, History, Bare
      <4>2. ASSUME Settled(w, q)' PROVE Told(q)'
        <5>1. Told(q) /\ post'[q] = post[q] BY <1>12, <3>3, <4>2 DEF HInv, HistoryInv, History
        <5> QED BY <1>3, <5>1 DEF Told, Last
      <4> QED BY <3>1, <4>1, <4>2
    <3> QED BY <3>2, <3>3
  <2> QED BY <2>1 DEF History
<1>16. s.rest # Idle => Archiving(s.rest)'
  <2> SUFFICES ASSUME s.rest # Idle PROVE Archiving(s.rest)' OBVIOUS
  <2>1. Archiving(s.rest) /\ s.on \notin DOMAIN s.rest.copies BY <1>2 DEF Noting
  <2>2. DOMAIN s.rest.copies \subseteq Posts BY <1>2 DEF LoopOf, CopiesOf
  <2> QED BY <1>3, <1>12, <2>1, <2>2 DEF Archiving, Overdue
<1>17. Working(w)'
  <2>1. HasRevisions(s.row) => Noting(t)'
    <3> SUFFICES ASSUME HasRevisions(s.row) PROVE Noting(t)' OBVIOUS
    <3>1. /\ s.began <= now /\ \A i \in DOMAIN revs[s.on] : revs[s.on][i].at <= s.began
          /\ s.from.status = "archived" => s.row.archived \/ s.row.arch = NoDate
          /\ s.rest # Idle => s.on \notin DOMAIN s.rest.copies
      BY <1>2 DEF Noting
    <3> QED BY <1>3, <1>4, <1>7, <1>11, <1>16, <3>1 DEF Noting, Last
  <2>2. ~HasRevisions(s.row) /\ t \in LoopOf => Archiving(t)' BY <1>2, <1>8, <1>16, IdleShape
  <2>3. jobs' # {} \/ IsJob(t) => missed' = 0 BY <1>2, <1>3, <1>7, <1>8 DEF HInv, HistoryInv, Working
  <2>4. t \in SaveOf => t.at # "copy" /\ Noting(t)' BY <1>7, <1>8, <2>1
  <2>5. t \in LoopOf => t.at = "archive" /\ Archiving(t)' BY <1>7, <1>8, <2>2
  <2> QED BY <1>6, <2>3, <2>4, <2>5 DEF Working
<1>18. DueInv(w)'
  <2> SUFFICES ASSUME "depublicate" \notin jobs PROVE DueInv(w)' BY <1>3 DEF DueInv
  <2>1. /\ \A q \in Posts : Alive(q) /\ q \notin ToCome(w) => ArchivedIfDue(post[q])
        /\ ArchivedIfDue(s.row)
    BY <1>1 DEF HInv, HistoryInv, DueInv
  <2>2. ToCome(w) \subseteq {s.on} \cup ToCome(w)'
    BY <1>1, <1>2, <1>6, <1>7, <1>8 DEF ToCome
  <2>3. ASSUME NEW row, ArchivedIfDue(row) PROVE ArchivedIfDue(row)' BY <1>3, <2>3 DEF ArchivedIfDue, Struck, Passed
  <2>4. ASSUME NEW q \in Posts, Alive(q)', q \notin ToCome(w)' PROVE ArchivedIfDue(post[q])'
    <3>1. ArchivedIfDue(post'[q])
      BY <1>4, <2>1, <1>12, <2>2, <2>4
    <3> QED BY <1>3, <3>1 DEF ArchivedIfDue, Struck, Passed
  <2>5. proc'[w] \in SaveOf => ArchivedIfDue(proc[w].row)'
    <3>1. proc'[w] \in SaveOf => proc'[w].row = s.row BY <1>6, <1>7, <1>8
    <3> QED BY <1>3, <2>1, <3>1 DEF ArchivedIfDue, Struck, Passed
  <2> QED BY <2>4, <2>5 DEF DueInv
<1>19. StaleInv(w)'
  <2> SUFFICES ASSUME MaxMissed < Window, NEW q \in Posts, Settled(w, q)', Stale(q)'
               PROVE  Awaited(w, q)'
    BY DEF StaleInv
  <2>1. q # s.on BY <1>13
  <2>2. post'[q] = post[q] /\ Settled(w, q) BY <1>12, <2>1
  <2>3. Stale(q) BY <1>3, <2>2 DEF Stale, Last
  <2>4. Awaited(w, q) BY <2>2, <2>3 DEF HInv, HistoryInv, StaleInv
  <2> QED BY <1>1, <1>2, <1>3, <2>2, <2>4 DEF Awaited, Struck
<1> QED BY <1>14, <1>15, <1>17, <1>18, <1>19 DEF HistoryInv

\* A revision that is put at the end of a history.
LEMMA Added ==
  ASSUME NEW w, HInv(w), NEW p \in Posts, NEW r \in Revision, revs' = Noted(p, r), UNCHANGED now,
         r.at <= now, \A i \in DOMAIN revs[p] : revs[p][i].at <= r.at,
         revs[p] # <<>> => Last(p).to.text = r.from.text
  PROVE  /\ Newest(p)' /\ Chained(p)' /\ revs'[p] # <<>> /\ Last(p)' = r
         /\ \A q \in Posts \ {p} : revs'[q] = revs[q]
<1>1. /\ revs[p] \in Seq(Revision) /\ Len(revs[p]) \in Nat /\ revs'[p] = Append(revs[p], r)
      /\ DOMAIN revs[p] = 1..Len(revs[p]) /\ \A q \in Posts \ {p} : revs'[q] = revs[q]
  BY RevisionsAre, NotedType DEF HInv, DateInv
<1>2. /\ Len(revs'[p]) = Len(revs[p]) + 1 /\ DOMAIN revs'[p] = 1..Len(revs[p]) + 1
      /\ revs'[p][Len(revs[p]) + 1] = r
      /\ \A i \in 1..Len(revs[p]) : revs'[p][i] = revs[p][i]
  BY <1>1
<1>3. revs'[p] # <<>> /\ Last(p)' = r BY <1>1, <1>2 DEF Last
<1>4. Newest(p)'
  <2>1. r.at \in Int BY HoursAre DEF Revision
  <2>2. \A i \in DOMAIN revs'[p] : i \in 1..Len(revs[p]) \/ i = Len(revs[p]) + 1 BY <1>1, <1>2
  <2>3. \A i \in DOMAIN revs'[p] : revs'[p][i].at <= r.at BY <1>1, <1>2, <2>1, <2>2
  <2> QED BY <1>3, <2>3 DEF Newest
<1>5. Chained(p)'
  BY <1>1, <1>2 DEF Chained, Last, HInv, HistoryInv, History
<1> QED BY <1>1, <1>3, <1>4, <1>5

\* What the others' histories say when one post got a revision.
LEMMA OthersStay ==
  ASSUME NEW w, HInv(w), NEW p \in Posts, \A q \in Posts \ {p} : revs'[q] = revs[q],
         UNCHANGED <<now, post>>, NEW q \in Posts \ {p}, Settled(w, q)' => Settled(w, q)
  PROVE  (Newest(q) /\ Chained(q) /\ Bare(q) /\ (Settled(w, q) => Told(q)))'
<1>1. revs'[q] = revs[q] OBVIOUS
<1>2. Newest(q)' /\ Chained(q)' /\ Bare(q)' BY <1>1 DEF HInv, HistoryInv, History, Newest, Chained, Bare, Last, Alive
<1>3. ASSUME Settled(w, q)' PROVE Told(q)' BY <1>1, <1>3 DEF HInv, HistoryInv, History, Told, Last
<1> QED BY <1>2, <1>3

LEMMA RecordHistory ==
  ASSUME NEW w, HInv(w), Record(w)
  PROVE  Alone(w)' /\ HistoryInv(w)'
<1>1. PICK s \in SaveOf : proc[w] = s BY Shapes DEF Record, HInv, Alone
<1>2. /\ w \in Workers /\ s.at = "record" /\ Noting(s)
      /\ s.on \in Posts /\ s.row \in Row /\ s.from \in Content /\ s.began \in Hours
      /\ s.began \in Int /\ s.rest \in {Idle} \cup LoopOf /\ s.rest \in States
      /\ IsJob(s) <=> s.rest # Idle
      /\ IsJob(s.rest) <=> s.rest # Idle
      /\ s.rest # Idle => s.rest \in LoopOf /\ s.rest.at = "archive" /\ missed = 0
  BY <1>1, SavingNow DEF Record
<1>3. /\ UNCHANGED <<crew, offer, now, missed, jobs, post>> BY DEF Record
<1>4. /\ post[s.on] = s.row /\ HasRevisions(s.row) /\ Alive(s.on)
      /\ s.began <= now /\ \A i \in DOMAIN revs[s.on] : revs[s.on][i].at <= s.began
      /\ revs[s.on] # <<>> => Last(s.on).to.text = s.from.text
      /\ s.from.status = "archived" => s.row.archived \/ s.row.arch = NoDate
  BY <1>2, RowFields DEF Noting, Alive
<1>5. PICK to \in Content : to = Serialized(s.row) BY <1>2, SerializedType
<1>6. PICK r \in Revision : r = [at |-> s.began, from |-> s.from, to |-> to] BY <1>2, <1>5 DEF Revision
<1>7. revs' = Noted(s.on, r) /\ proc' = [proc EXCEPT ![w] = s.rest] BY <1>1, <1>4, <1>5, <1>6 DEF Record
<1>8. proc'[w] = s.rest /\ \A v \in Workers \ {w} : proc'[v] = Idle
  BY <1>2, <1>7 DEF HInv, DateInv, Types, HistoryInv, Working
<1>9. /\ Newest(s.on)' /\ Chained(s.on)' /\ revs'[s.on] # <<>> /\ Last(s.on)' = r
      /\ \A q \in Posts \ {s.on} : revs'[q] = revs[q]
  BY <1>2, <1>3, <1>4, <1>6, <1>7, Added
<1>10. /\ to.text = s.row.text
       /\ to.status = "archived" <=> s.row.archived
       /\ to.status = "published" <=> ~s.row.archived /\ Passed(s.row.pub, now)
       /\ to.status = "draft" <=> ~s.row.archived /\ ~Passed(s.row.pub, now)
  BY <1>2, <1>5, SerializedType
<1>11. proc'[w].at # "record" BY <1>2, <1>8, IdleShape
<1>12. ASSUME NEW q \in Posts \ {s.on} PROVE Settled(w, q)' => Settled(w, q)
  BY <1>1, <1>3 DEF Settled, Recording, Alive
<1>13. Alone(w)' BY <1>3 DEF HInv, Alone
<1>14. History(w)'
  <2>1. Bare(s.on)' BY <1>3, <1>4 DEF Bare, Alive
  <2>2. Told(s.on)'
    <3>1. /\ post'[s.on] = s.row /\ Last(s.on)'.to = to /\ Last(s.on)'.from = s.from
          /\ Last(s.on)'.at = s.began /\ now' = now
      BY <1>3, <1>4, <1>6, <1>9
    <3>2. to.status = "draft" => ~Passed(s.row.pub, s.began) BY <1>2, <1>4, <1>10, RowFields, Clock DEF Passed, HInv
    <3> QED BY <1>4, <1>9, <1>10, <3>1, <3>2 DEF Told
  <2>3. ASSUME NEW q \in Posts
        PROVE  (Newest(q) /\ Chained(q) /\ Bare(q) /\ (Settled(w, q) => Told(q)))'
    BY <1>9, <2>1, <2>2, <1>2, <1>3, <1>12, OthersStay
  <2> QED BY <2>3 DEF History
<1>15. Working(w)'
  <2>1. s.rest # Idle => Archiving(s.rest)' BY <1>2, <1>3 DEF Noting, Archiving, Overdue, Alive
  <2>2. jobs' # {} \/ IsJob(s.rest) => missed' = 0 BY <1>2, <1>3 DEF HInv, HistoryInv, Working
  <2> QED BY <1>2, <1>8, <2>1, <2>2, Apart, IdleShape DEF Working
<1>16. DueInv(w)'
  <2> SUFFICES ASSUME "depublicate" \notin jobs PROVE DueInv(w)' BY <1>3 DEF DueInv
  <2>1. \A q \in Posts : Alive(q) /\ q \notin ToCome(w) => ArchivedIfDue(post[q]) BY DEF HInv, HistoryInv, DueInv
  <2>2. ToCome(w)' = ToCome(w)
    BY <1>1, <1>2, <1>8, IdleShape DEF ToCome
  <2>3. proc'[w] \notin SaveOf BY <1>2, <1>8, Apart, IdleShape
  <2> QED BY <1>3, <2>1, <2>2, <2>3 DEF DueInv, ArchivedIfDue, Struck, Passed, Alive
<1>17. StaleInv(w)'
  <2> SUFFICES ASSUME MaxMissed < Window, NEW q \in Posts, Settled(w, q)', Stale(q)'
               PROVE  Awaited(w, q)'
    BY DEF StaleInv
  <2>1. q # s.on BY <1>3, <1>4, <1>6, <1>9, <1>10 DEF Stale
  <2>2. Settled(w, q) /\ Stale(q) BY <1>3, <1>9, <1>12, <2>1 DEF Stale, Last
  <2>3. Awaited(w, q) BY <2>2 DEF HInv, HistoryInv, StaleInv
  <2> QED BY <1>1, <1>2, <1>3, <2>3 DEF Awaited, Struck
<1> QED BY <1>13, <1>14, <1>15, <1>16, <1>17 DEF HistoryInv

-----------------------------------------------------------------------------
(* The jobs. *)

\* What a row is due for does not depend on who holds it.
LEMMA DueStays ==
  ASSUME NEW w, HInv(w), UNCHANGED <<now, missed, post>>, "depublicate" \in jobs' <=> "depublicate" \in jobs,
         ToCome(w) \subseteq ToCome(w)', proc'[w] \in SaveOf => ArchivedIfDue(proc'[w].row)
  PROVE  DueInv(w)'
BY DEF DueInv, HInv, HistoryInv, Alive, ArchivedIfDue, Struck, Passed

LEMMA DepublicateHistory ==
  ASSUME NEW w, HInv(w), Depublicate(w)
  PROVE  Alone(w)' /\ HistoryInv(w)'
<1>1. /\ w \in Workers /\ proc[w] = Idle /\ "depublicate" \in jobs /\ jobs' = jobs \ {"depublicate"}
      /\ UNCHANGED <<crew, offer, now, missed, post, revs>>
      /\ missed = 0
  BY DEF Depublicate, Pickup, HInv, Alone, HistoryInv, Working
<1>2. PICK t \in LoopOf : t = Loop("archive", Copies(ToArchive)) BY LoopType DEF ToArchive, JobNames, HInv
<1>3. /\ t.at = "archive" /\ DOMAIN t.copies = ToArchive
      /\ \A p \in ToArchive : t.copies[p] = post[p]
  BY <1>2, LoopType DEF ToArchive, JobNames, HInv
<1>4. proc' = [proc EXCEPT ![w] = t] /\ t \in States /\ t \notin SaveOf BY <1>2, Apart DEF Depublicate, Pickup, States
<1>5. Archiving(t) BY <1>3 DEF Archiving, ToArchive, Overdue
<1>6. Alone(w)' /\ History(w)' /\ Working(w)' BY <1>1, <1>3, <1>4, <1>5, TakenUp, IdleShape
<1>7. proc'[w] = t BY <1>1, <1>4 DEF HInv, DateInv, Types
<1>8. DueInv(w)'
  <2>1. ToCome(w)' = ToArchive BY <1>3, <1>7 DEF ToCome
  <2>2. ASSUME NEW q \in Posts, Alive(q), q \notin ToArchive PROVE ArchivedIfDue(post[q])
    BY <1>1, <2>2, Clock DEF ToArchive, ArchivedIfDue, HInv
  <2>3. \A q \in Posts : Alive(q)' /\ q \notin ToCome(w)' => ArchivedIfDue(post[q])'
    BY <1>1, <2>1, <2>2 DEF Alive, ArchivedIfDue, Struck, Passed
  <2> QED BY <1>4, <1>7, <2>3 DEF DueInv
<1>9. StaleInv(w)' BY <1>1, StaleStays, IdleShape
<1> QED BY <1>6, <1>8, <1>9 DEF HistoryInv

\* A process in the middle of a job.
LEMMA LoopNow ==
  ASSUME NEW w, HInv(w), NEW s \in LoopOf, proc[w] = s
  PROVE  /\ w \in Workers /\ missed = 0 /\ IsJob(s) /\ s \in States /\ s.at \in JobNames
         /\ s.at # "record" /\ DOMAIN s.copies \subseteq Posts
         /\ \A p \in DOMAIN s.copies : s.copies[p] \in Row
         /\ s.at = "archive" => Archiving(s)
         /\ s.at = "publish" => Publishing(s)
<1>1. s.at \in JobNames /\ IsJob(s) /\ s.at # "record" BY Apart DEF IsJob
<1>2. DOMAIN s.copies \subseteq Posts /\ \A p \in DOMAIN s.copies : s.copies[p] \in Row BY DEF LoopOf, CopiesOf
<1> QED BY <1>1, <1>2 DEF HInv, Alone, HistoryInv, Working, States

LEMMA ArchiveNextHistory ==
  ASSUME NEW w, HInv(w), ArchiveNext(w)
  PROVE  Alone(w)' /\ HistoryInv(w)'
<1>1. PICK s \in LoopOf : proc[w] = s BY Shapes DEF ArchiveNext, JobNames, HInv, Alone
<1>2. /\ w \in Workers /\ missed = 0 /\ s.at = "archive" /\ Archiving(s) /\ DOMAIN s.copies \subseteq Posts
      /\ \A p \in DOMAIN s.copies : s.copies[p] \in Row
  BY <1>1, LoopNow DEF ArchiveNext
<1>3. UNCHANGED <<crew, offer, now, missed, jobs, post, revs>> BY DEF ArchiveNext
<1>4. PICK p \in DOMAIN s.copies :
        proc' = [proc EXCEPT ![w] = Saving(p, [s.copies[p] EXCEPT !.archived = TRUE],
                                           Serialized(s.copies[p]), Without(s, p))]
  BY <1>1 DEF ArchiveNext
<1>5. s.copies[p] = post[p] /\ Overdue(p) /\ p \in Posts /\ post[p] \in Row BY <1>2 DEF Archiving
<1>6. PICK rest \in LoopOf : rest = Without(s, p) BY WithoutType
<1>7. /\ rest.at = "archive" /\ DOMAIN rest.copies = DOMAIN s.copies \ {p}
      /\ \A q \in DOMAIN s.copies \ {p} : rest.copies[q] = s.copies[q]
  BY <1>2, <1>6, WithoutType
<1>8. PICK row \in Row : row = [post[p] EXCEPT !.archived = TRUE] BY <1>5, FlaggedType
<1>9. row.archived /\ row.class = post[p].class BY <1>5, <1>8, FlaggedType
<1>10. PICK from \in Content : from = Serialized(post[p]) BY <1>5, SerializedType
<1>11. from.text = post[p].text /\ from.status # "archived" BY <1>5, <1>10, SerializedType DEF Overdue
<1>12. PICK t \in SaveOf : t = Saving(p, row, from, rest) BY <1>5 DEF Saving, SaveOf, HInv, DateInv, Types
<1>13. /\ t.at = "save" /\ t.on = p /\ t.row = row /\ t.from = from /\ t.began = now /\ t.rest = rest
  BY <1>12 DEF Saving
<1>14. proc' = [proc EXCEPT ![w] = t] /\ t \in States /\ t \notin LoopOf /\ rest # Idle
  BY <1>4, <1>5, <1>6, <1>8, <1>10, <1>12, Apart DEF States
<1>15. Noting(t)
  <2>1. now <= now /\ \A i \in DOMAIN revs[p] : revs[p][i].at <= now BY <1>5, Past, Clock DEF HInv
  <2>2. Archiving(rest) BY <1>2, <1>7 DEF Archiving
  <2> QED BY <1>5, <1>7, <1>8, <1>9, <1>11, <1>13, <2>1, <2>2 DEF Noting, Overdue
<1>16. Alone(w)' /\ History(w)' /\ Working(w)' BY <1>1, <1>2, <1>3, <1>13, <1>14, <1>15, TakenUp
<1>17. proc'[w] = t BY <1>2, <1>14 DEF HInv, DateInv, Types
<1>18. DueInv(w)'
  <2>1. ToCome(w) = DOMAIN s.copies BY <1>1, <1>2 DEF ToCome
  <2>2. ToCome(w)' = {p} \cup DOMAIN rest.copies BY <1>13, <1>14, <1>17 DEF ToCome
  <2>3. ArchivedIfDue(proc'[w].row) BY <1>9, <1>13, <1>17 DEF ArchivedIfDue
  <2> QED BY <1>3, <1>7, <2>1, <2>2, <2>3, DueStays
<1>19. StaleInv(w)' BY <1>1, <1>2, <1>3, StaleStays
<1> QED BY <1>16, <1>18, <1>19 DEF HistoryInv

LEMMA ArchiveDoneHistory ==
  ASSUME NEW w, HInv(w), ArchiveDone(w)
  PROVE  Alone(w)' /\ HistoryInv(w)'
<1>1. PICK s \in LoopOf : proc[w] = s BY Shapes DEF ArchiveDone, JobNames, HInv, Alone
<1>2. w \in Workers /\ missed = 0 /\ s.at = "archive" /\ DOMAIN s.copies = {} BY <1>1, LoopNow DEF ArchiveDone
<1>3. UNCHANGED <<crew, offer, now, missed, jobs, post, revs>> BY DEF ArchiveDone
<1>4. PICK t \in LoopOf : t = Loop("delete", Copies(ToDelete)) /\ t.at = "delete"
  BY LoopType DEF ToDelete, JobNames, HInv
<1>5. proc' = [proc EXCEPT ![w] = t] /\ t \in States /\ t \notin SaveOf BY <1>4, Apart DEF ArchiveDone, States
<1>6. Alone(w)' /\ History(w)' /\ Working(w)' BY <1>1, <1>2, <1>3, <1>4, <1>5, TakenUp
<1>7. proc'[w] = t BY <1>2, <1>5 DEF HInv, DateInv, Types
<1>8. ToCome(w) = {} BY <1>1, <1>2 DEF ToCome
<1>9. DueInv(w)' BY <1>3, <1>5, <1>7, <1>8, DueStays
<1>10. StaleInv(w)' BY <1>1, <1>2, <1>3, StaleStays
<1> QED BY <1>6, <1>9, <1>10 DEF HistoryInv

\* A step after which the process does nothing, or goes on with a job that has
\* nothing to archive.
LEMMA EndsHistory ==
  ASSUME NEW w, HInv(w), NEW s \in LoopOf, proc[w] = s, s.at # "archive", s.at = "publish" => DOMAIN s.copies = {},
         proc' = [proc EXCEPT ![w] = Idle], UNCHANGED <<crew, offer, now, missed, jobs, post, revs>>
  PROVE  Alone(w)' /\ HistoryInv(w)'
<1>1. w \in Workers /\ s.at \in {"delete", "publish"} /\ s.at # "record" BY LoopNow DEF JobNames
<1>2. Alone(w)' /\ History(w)' /\ Working(w)' BY <1>1, TakenUp, IdleShape
<1>3. proc'[w] = Idle BY <1>1 DEF HInv, DateInv, Types
<1>4. ToCome(w) = {} BY <1>1 DEF ToCome
<1>5. DueInv(w)' BY <1>3, <1>4, DueStays, IdleShape
<1>6. StaleInv(w)' BY <1>1, StaleStays
<1> QED BY <1>2, <1>5, <1>6 DEF HistoryInv

LEMMA LoopDoneHistory ==
  ASSUME NEW w, HInv(w), LoopDone(w)
  PROVE  Alone(w)' /\ HistoryInv(w)'
BY Shapes, EndsHistory DEF LoopDone, JobNames, HInv, Alone

LEMMA DeleteNextHistory ==
  ASSUME NEW w, HInv(w), DeleteNext(w)
  PROVE  Alone(w)' /\ HistoryInv(w)'
<1>1. PICK s \in LoopOf : proc[w] = s BY Shapes DEF DeleteNext, JobNames, HInv, Alone
<1>2. w \in Workers /\ missed = 0 /\ s.at = "delete" /\ DOMAIN s.copies \subseteq Posts
  BY <1>1, LoopNow DEF DeleteNext
<1>3. UNCHANGED <<crew, offer, now, missed, jobs>> BY DEF DeleteNext
<1>4. PICK p \in DOMAIN s.copies :
        \/ proc' = [proc EXCEPT ![w] = Idle] /\ UNCHANGED <<post, revs>>
        \/ proc' = [proc EXCEPT ![w] = Without(s, p)] /\ Erased(p)
  BY <1>1 DEF DeleteNext
<1>5. CASE proc' = [proc EXCEPT ![w] = Idle] /\ UNCHANGED <<post, revs>> BY <1>1, <1>2, <1>3, <1>5, EndsHistory
<1>6. CASE proc' = [proc EXCEPT ![w] = Without(s, p)] /\ Erased(p)
  <2>1. PICK t \in LoopOf : t = Without(s, p) /\ t.at = "delete" BY <1>2, WithoutType
  <2>2. proc'[w] = t /\ \A v \in Workers \ {w} : proc'[v] = Idle
    BY <1>2, <1>6, <2>1 DEF HInv, DateInv, Types, HistoryInv, Working
  <2>3. t \notin SaveOf /\ t.at # "record" BY <2>1, Apart
  <2>4. History(w)' /\ \A q \in Posts : Alive(q)' => q # p /\ Alive(q) /\ post'[q] = post[q]
    BY <1>1, <1>2, <1>3, <1>6, <2>1, <2>2, GoneHistory
  <2>5. Alone(w)' BY <1>3 DEF HInv, Alone
  <2>6. Working(w)' BY <1>2, <1>3, <2>1, <2>2, <2>3 DEF Working
  <2>7. DueInv(w)'
    <3> SUFFICES ASSUME "depublicate" \notin jobs PROVE DueInv(w)' BY <1>3 DEF DueInv
    <3>1. ToCome(w) = {} BY <1>1, <1>2 DEF ToCome
    <3>2. \A q \in Posts : Alive(q) => ArchivedIfDue(post[q]) BY <3>1 DEF HInv, HistoryInv, DueInv
    <3>3. \A q \in Posts : Alive(q)' => ArchivedIfDue(post[q])' BY <1>3, <2>4, <3>2 DEF ArchivedIfDue, Struck, Passed
    <3> QED BY <2>2, <2>3, <3>3 DEF DueInv
  <2>8. StaleInv(w)'
    <3> SUFFICES ASSUME MaxMissed < Window, NEW q \in Posts, Settled(w, q)', Stale(q)'
                 PROVE  Awaited(w, q)'
      BY DEF StaleInv
    <3>1. q # p /\ post'[q] = post[q] /\ revs'[q] = revs[q] /\ Alive(q)
      BY <1>6, <2>4 DEF Settled, Erased, HInv, DateInv, Types
    <3>2. Settled(w, q) /\ Stale(q) BY <1>1, <1>2, <1>3, <3>1 DEF Settled, Recording, Stale, Last, Alive
    <3>3. Awaited(w, q) BY <3>2 DEF HInv, HistoryInv, StaleInv
    <3> QED BY <1>1, <1>2, <1>3, <3>1, <3>3 DEF Awaited, Struck
  <2> QED BY <2>4, <2>5, <2>6, <2>7, <2>8 DEF HistoryInv
<1> QED BY <1>4, <1>5, <1>6

LEMMA PublishHistory ==
  ASSUME NEW w, HInv(w), Publish(w)
  PROVE  Alone(w)' /\ HistoryInv(w)'
<1>1. /\ w \in Workers /\ proc[w] = Idle /\ "publish" \in jobs /\ jobs' = jobs \ {"publish"}
      /\ UNCHANGED <<crew, offer, now, missed, post, revs>>
      /\ missed = 0
  BY DEF Publish, Pickup, HInv, Alone, HistoryInv, Working
<1>2. PICK t \in LoopOf : t = Loop("publish", Copies(Recent)) BY LoopType DEF Recent, JobNames, HInv
<1>3. /\ t.at = "publish" /\ DOMAIN t.copies = Recent
      /\ \A p \in Recent : t.copies[p] = post[p]
  BY <1>2, LoopType DEF Recent, JobNames, HInv
<1>4. proc' = [proc EXCEPT ![w] = t] /\ t \in States /\ t \notin SaveOf BY <1>2, Apart DEF Publish, Pickup, States
<1>5. Publishing(t) BY <1>3 DEF Publishing, Recent
<1>6. Alone(w)' /\ History(w)' /\ Working(w)' BY <1>1, <1>3, <1>4, <1>5, TakenUp, IdleShape
<1>7. proc'[w] = t BY <1>1, <1>4 DEF HInv, DateInv, Types
<1>8. ToCome(w) = {} BY <1>1, NothingToCome
<1>9. DueInv(w)' BY <1>1, <1>4, <1>7, <1>8, DueStays
<1>10. StaleInv(w)'
  <2> SUFFICES ASSUME MaxMissed < Window, NEW q \in Posts, Settled(w, q)', Stale(q)'
               PROVE  Awaited(w, q)'
    BY DEF StaleInv
  <2>1. Settled(w, q) /\ Stale(q) BY <1>1, IdleShape DEF Settled, Recording, Stale, Alive, Last
  <2>2. Awaited(w, q) BY <2>1 DEF HInv, HistoryInv, StaleInv
  <2>3. CASE post[q].pub > now - Window
    <3>1. q \in Recent BY <2>1, <2>3 DEF Settled, Stale, Passed, Recent
    <3> QED BY <1>3, <1>7, <3>1 DEF Awaited
  <2>4. CASE Passed(post[q].arch, Struck) BY <1>1, <2>4 DEF Awaited, Struck, Passed
  <2> QED BY <1>1, <2>2, <2>3, <2>4, IdleShape DEF Awaited
<1> QED BY <1>6, <1>9, <1>10 DEF HistoryInv

\* The newest revision is the last.
LEMMA LatestIsLast ==
  ASSUME NEW w, HInv(w), NEW p \in Posts, revs[p] # <<>>
  PROVE  Latest(p) = Last(p)
<1>1. /\ Newest(p) /\ Len(revs[p]) \in DOMAIN revs[p] /\ DOMAIN revs[p] = 1..Len(revs[p])
      /\ Len(revs[p]) \in Nat /\ \A i \in DOMAIN revs[p] : revs[p][i].at \in Int
  BY RevisionsAre DEF HInv, HistoryInv, History, DateInv
<1> DEFINE times == {revs[p][i].at : i \in DOMAIN revs[p]}
           newest == CHOOSE r \in times : \A i \in DOMAIN revs[p] : revs[p][i].at <= r
           index == CHOOSE i \in DOMAIN revs[p] :
                      /\ revs[p][i].at = newest
                      /\ \A j \in DOMAIN revs[p] : revs[p][j].at = newest => j <= i
<1>2. newest = Last(p).at
  <2>1. Last(p).at \in times /\ \A i \in DOMAIN revs[p] : revs[p][i].at <= Last(p).at BY <1>1 DEF Newest, Last
  <2>2. newest \in times /\ \A i \in DOMAIN revs[p] : revs[p][i].at <= newest BY <2>1
  <2>3. newest \in Int /\ Last(p).at \in Int BY <1>1, <2>1, <2>2
  <2>4. Last(p).at <= newest /\ newest <= Last(p).at BY <2>1, <2>2
  <2> HIDE DEF newest
  <2> QED BY <2>3, <2>4
<1>3. index = Len(revs[p])
  <2> HIDE DEF newest
  <2>1. /\ revs[p][Len(revs[p])].at = newest
        /\ \A j \in DOMAIN revs[p] : revs[p][j].at = newest => j <= Len(revs[p])
    BY <1>1, <1>2 DEF Last
  <2>2. /\ index \in DOMAIN revs[p]
        /\ \A j \in DOMAIN revs[p] : revs[p][j].at = newest => j <= index
    BY <1>1, <2>1
  <2>3. Len(revs[p]) <= index /\ index <= Len(revs[p]) /\ index \in Int BY <1>1, <2>1, <2>2
  <2> HIDE DEF index
  <2> QED BY <1>1, <2>3
<1>4. Latest(p) = revs[p][index] BY Zenon DEF Latest
<1> QED BY <1>3, <1>4 DEF Last

\* What the dates of a row said at the last revision and say now.
LEMMA StatusThen ==
  ASSUME DateInv, NEW row \in Row, NEW hour \in Int, hour <= now
  PROVE  /\ StatusAt(row, hour) = "archived" => StatusAt(row, now) = "archived"
         /\ StatusAt(row, hour) = "archived" => Passed(row.arch, now)
         /\ StatusAt(row, now) = "archived" => Passed(row.arch, now)
         /\ ~Passed(row.pub, hour) /\ Passed(row.pub, now) /\ StatusAt(row, hour) = StatusAt(row, now)
              => Passed(row.arch, now)
BY Clock, RowFields DEF StatusAt, Passed

LEMMA PublishNextHistory ==
  ASSUME NEW w, HInv(w), PublishNext(w)
  PROVE  Alone(w)' /\ HistoryInv(w)'
<1>1. PICK s \in LoopOf : proc[w] = s BY Shapes DEF PublishNext, JobNames, HInv, Alone
<1>2. /\ w \in Workers /\ missed = 0 /\ s.at = "publish" /\ Publishing(s) /\ DOMAIN s.copies \subseteq Posts
      /\ \A q \in DOMAIN s.copies : s.copies[q] \in Row
  BY <1>1, LoopNow DEF PublishNext
<1>3. UNCHANGED <<crew, offer, now, missed, jobs, post>> BY DEF PublishNext
<1>4. ASSUME NEW q \in DOMAIN s.copies
      PROVE  /\ s.copies[q] = post[q] /\ q \in Posts /\ post[q] \in Row
             /\ Alive(q) /\ HasRevisions(post[q]) /\ revs[q] # <<>> /\ Settled(w, q) /\ Told(q)
  <2>1. s.copies[q] = post[q] /\ q \in Posts /\ Alive(q) /\ HasRevisions(post[q]) BY <1>2 DEF Publishing
  <2>2. Settled(w, q) BY <1>1, <1>2, <2>1 DEF Settled, Recording
  <2>3. Told(q) /\ revs[q] # <<>> BY <2>1, <2>2 DEF HInv, HistoryInv, History, Told
  <2> QED BY <1>2, <2>1, <2>2, <2>3
<1>5. PICK p \in DOMAIN s.copies :
        /\ proc' = [proc EXCEPT ![w] = Without(s, p)]
        /\ revs' = IF StatusAt(s.copies[p], Latest(p).at) = StatusAt(s.copies[p], now) THEN revs
                   ELSE Noted(p, [at |-> now,
                                  from |-> [Serialized(s.copies[p]) EXCEPT
                                              !.status = StatusAt(s.copies[p], Latest(p).at)],
                                  to |-> Serialized(s.copies[p])])
  BY <1>1, <1>4 DEF PublishNext
<1>6. /\ p \in Posts /\ s.copies[p] = post[p] /\ post[p] \in Row /\ Alive(p)
      /\ HasRevisions(post[p]) /\ revs[p] # <<>> /\ Settled(w, p) /\ Told(p)
  BY <1>4
<1>7. PICK row \in Row : row = post[p] BY <1>6
<1>8. PICK to \in Content : to = Serialized(row) BY <1>7, SerializedType
<1>9. /\ to.text = row.text
      /\ to.status = "archived" <=> row.archived
      /\ to.status = "published" <=> ~row.archived /\ Passed(row.pub, now)
      /\ to.status = "draft" <=> ~row.archived /\ ~Passed(row.pub, now)
  BY <1>8, SerializedType
<1>10. PICK hour \in Int : hour = Last(p).at /\ hour <= now
  <2>1. Last(p).at \in Int BY <1>6, RevisionsAre DEF HInv, DateInv, Last
  <2>2. Last(p).at <= now BY <1>6 DEF HInv, HistoryInv, History, Newest
  <2> QED BY <2>1, <2>2
<1>11. PICK before \in {"draft", "published", "archived"} : before = StatusAt(row, hour) BY StatusAtType
<1>12. PICK from \in Content : from = [to EXCEPT !.status = before] BY DEF Content
<1>13. from.text = row.text /\ from.status = before BY <1>9, <1>12 DEF Content
<1>14. PICK r \in Revision : r = [at |-> now, from |-> from, to |-> to] BY DEF Revision, HInv, DateInv, Types
<1>15. revs' = IF before = StatusAt(row, now) THEN revs ELSE Noted(p, r)
  BY <1>5, <1>6, <1>7, <1>8, <1>10, <1>11, <1>12, <1>14, LatestIsLast
<1>16. PICK t \in LoopOf : t = Without(s, p) BY WithoutType
<1>17. /\ t.at = "publish" /\ DOMAIN t.copies = DOMAIN s.copies \ {p}
       /\ \A q \in DOMAIN s.copies \ {p} : t.copies[q] = s.copies[q]
  BY <1>2, <1>16, WithoutType
<1>18. t \notin SaveOf /\ t.at # "record" BY Apart
<1>19. proc'[w] = t /\ \A v \in Workers \ {w} : proc'[v] = Idle
  BY <1>2, <1>5, <1>16 DEF HInv, DateInv, Types, HistoryInv, Working
<1>20. Alone(w)' BY <1>3 DEF HInv, Alone
<1>21. Working(w)'
  <2>1. Publishing(t)' BY <1>2, <1>3, <1>17 DEF Publishing, Alive
  <2> QED BY <1>2, <1>3, <1>17, <1>18, <1>19, <2>1 DEF Working
<1>22. DueInv(w)'
  <2>1. ToCome(w) = {} BY <1>1, <1>2 DEF ToCome
  <2> QED BY <1>3, <1>18, <1>19, <2>1, DueStays
<1>23. ASSUME NEW q \in Posts PROVE Settled(w, q)' => Settled(w, q) BY <1>1, <1>2, <1>3 DEF Settled, Recording, Alive
<1>24. \A q \in Posts \ {p} : revs'[q] = revs[q] BY <1>6, <1>15, NotedType DEF HInv, DateInv
\* It is published now and was not when the last revision was made.
<1>25. ASSUME before # StatusAt(row, now)
       PROVE  /\ Newest(p)' /\ Chained(p)' /\ revs'[p] # <<>> /\ Last(p)' = r
              /\ before # "archived"
  <2>1. revs' = Noted(p, r) BY <1>15, <1>25
  <2>2. r.at <= now /\ \A i \in DOMAIN revs[p] : revs[p][i].at <= r.at BY <1>6, <1>14, Past, Clock DEF HInv
  <2>3. Last(p).to.text = r.from.text BY <1>6, <1>7, <1>13, <1>14 DEF Told
  <2>4. before # "archived" BY <1>10, <1>11, <1>25, StatusThen DEF HInv
  <2> QED BY <1>3, <1>6, <2>1, <2>2, <2>3, <2>4, Added
<1>26. History(w)'
  <2>1. ASSUME NEW q \in Posts
        PROVE  (Newest(q) /\ Chained(q) /\ Bare(q) /\ (Settled(w, q) => Told(q)))'
    <3>1. CASE q # p BY <1>3, <1>6, <1>23, <1>24, <3>1, OthersStay
    <3>2. CASE q = p /\ before # StatusAt(row, now)
      <4>1. Bare(p)' BY <1>3, <1>6 DEF Bare, Alive
      <4>2. Told(p)'
        <5>1. /\ post'[p] = row /\ Last(p)'.to = to /\ Last(p)'.from = from /\ Last(p)'.at = now
              /\ now' = now
          BY <1>3, <1>7, <1>14, <1>25, <3>2
        <5> QED BY <1>9, <1>13, <1>25, <3>2, <5>1 DEF Told
      <4> QED BY <1>25, <3>2, <4>1, <4>2
    <3>3. CASE q = p /\ before = StatusAt(row, now)
      <4>1. revs' = revs BY <1>15, <3>3
      <4>2. Newest(q)' /\ Chained(q)' /\ Bare(q)'
        BY <1>3, <4>1 DEF HInv, HistoryInv, History, Newest, Chained, Bare, Last, Alive
      <4>3. Told(q)' BY <1>3, <1>6, <3>3, <4>1 DEF Told, Last
      <4> QED BY <4>2, <4>3
    <3> QED BY <3>1, <3>2, <3>3
  <2> QED BY <2>1 DEF History
<1>27. StaleInv(w)'
  <2> SUFFICES ASSUME MaxMissed < Window, NEW q \in Posts, Settled(w, q)', Stale(q)'
               PROVE  Awaited(w, q)'
    BY DEF StaleInv
  <2>1. CASE q # p
    <3>1. Settled(w, q) /\ Stale(q) BY <1>3, <1>23, <1>24, <2>1 DEF Stale, Last
    <3>2. Awaited(w, q) BY <3>1 DEF HInv, HistoryInv, StaleInv
    <3> QED BY <1>1, <1>3, <1>17, <1>19, <2>1, <3>2 DEF Awaited, Struck
  <2>2. CASE q = p
    <3>1. before = StatusAt(row, now)
      BY <1>3, <1>7, <1>25, <1>9, <1>14, <2>2 DEF Stale
    <3>2. Last(p)' = Last(p) /\ post'[p] = row /\ now' = now BY <1>3, <1>7, <1>15, <3>1 DEF Last
    <3>3. Passed(row.pub, now) /\ ~Passed(row.pub, hour) BY <1>6, <1>7, <1>10, <2>2, <3>2 DEF Stale, Told
    <3>4. Passed(row.arch, now) BY <1>10, <1>11, <3>1, <3>3, StatusThen DEF HInv
    <3>5. Struck' = now BY <1>2, <1>3, Clock DEF Struck, HInv
    <3> QED BY <2>2, <3>2, <3>4, <3>5 DEF Awaited
  <2> QED BY <2>1, <2>2
<1> QED BY <1>20, <1>21, <1>22, <1>26, <1>27 DEF HistoryInv

-----------------------------------------------------------------------------
(* The clock. *)

LEMMA ClockHistory ==
  ASSUME NEW w, HInv(w), Beat \/ MissBeat
  PROVE  Alone(w)' /\ HistoryInv(w)'
<1>1. /\ jobs = {} /\ ~IsJob(proc[w]) /\ w \in Workers /\ UNCHANGED <<crew, offer, post, revs, proc>>
      /\ proc[w] \in States
  BY DEF Beat, MissBeat, Quiet, HInv, Alone, DateInv, Types
<1>2. now \in Int /\ now' \in Int /\ now <= now' /\ now' <= now + 1
      /\ missed \in Int /\ missed >= 0 /\ missed <= MaxMissed
      /\ MaxMissed \in Int /\ Window \in Int /\ Window >= 1 /\ Struck = now - missed
  BY PublicationAssumption, Clock DEF Beat, MissBeat, Later, HInv, Struck
<1>3. \/ jobs' = {"depublicate", "publish"} /\ missed' = 0 /\ Struck' = now'
      \/ jobs' = {} /\ now' = now + 1 /\ missed' = missed + 1 /\ Struck' = Struck
  BY <1>1, <1>2 DEF Beat, MissBeat, Struck
<1>4. proc[w] \notin LoopOf /\ (proc[w] \in SaveOf => proc[w].rest = Idle)
  BY <1>1, SavingNow DEF IsJob, LoopOf
<1>5. Alone(w)' BY <1>1 DEF HInv, Alone
<1>6. History(w)'
  <2> SUFFICES ASSUME NEW p \in Posts
               PROVE  (Newest(p) /\ Chained(p) /\ Bare(p) /\ (Settled(w, p) => Told(p)))'
    BY DEF History
  <2>1. Chained(p)' /\ Bare(p)' BY <1>1 DEF HInv, HistoryInv, History, Chained, Bare, Alive
  <2>2. Newest(p)'
    <3>1. Newest(p) /\ (revs[p] # <<>> => Last(p).at \in Int)
      BY RevisionsAre DEF HInv, HistoryInv, History, DateInv, Last
    <3> QED BY <1>1, <1>2, <3>1 DEF Newest, Last
  <2>3. ASSUME Settled(w, p)' PROVE Told(p)'
    <3>1. Told(p) /\ Alive(p) BY <1>1, <2>3 DEF HInv, HistoryInv, History, Settled, Recording, Alive
    <3>2. post[p].pub \in Int BY <3>1, AliveRow, RowFields DEF HInv, DateInv
    <3>3. Passed(post[p].pub, now) => Passed(post[p].pub, now') BY <1>2, <3>2 DEF Passed
    <3> QED BY <1>1, <3>1, <3>3 DEF Told, Last
  <2> QED BY <2>1, <2>2, <2>3
<1>7. Working(w)'
  <2>1. ASSUME NEW s \in SaveOf, s = proc[w] PROVE s.at # "copy" /\ Noting(s)'
    <3>1. s.at # "copy" /\ Noting(s) /\ s.rest = Idle /\ s.began \in Int BY <1>4, <2>1, SavingNow
    <3>2. s.began <= now' BY <1>2, <3>1 DEF Noting
    <3> QED BY <1>1, <3>1, <3>2 DEF Noting, Alive, Last
  <2>2. jobs' # {} \/ IsJob(proc'[w]) => missed' = 0 BY <1>1, <1>3
  <2> QED BY <1>1, <1>4, <2>1, <2>2 DEF HInv, HistoryInv, Working
<1>8. DueInv(w)'
  <2> SUFFICES ASSUME "depublicate" \notin jobs' PROVE DueInv(w)' BY DEF DueInv
  <2>1. Struck' = Struck BY <1>3
  <2>2. DueInv(w) /\ "depublicate" \notin jobs /\ ToCome(w)' = ToCome(w) BY <1>1 DEF HInv, HistoryInv, ToCome
  <2> QED BY <1>1, <2>1, <2>2 DEF DueInv, ArchivedIfDue, Passed, Alive
<1>9. StaleInv(w)'
  <2> SUFFICES ASSUME MaxMissed < Window, NEW p \in Posts, Settled(w, p)', Stale(p)'
               PROVE  Awaited(w, p)'
    BY DEF StaleInv
  <2>1. Settled(w, p) /\ Alive(p) /\ ~post[p].archived /\ Last(p).to.status = "draft"
        /\ Passed(post[p].pub, now')
    BY <1>1 DEF Settled, Recording, Alive, Stale, Last
  <2>2. post[p].pub \in Int /\ post[p].arch \in Int BY <2>1, AliveRow, RowFields DEF HInv, DateInv
  <2>3. post'[p].pub = post[p].pub /\ post'[p].arch = post[p].arch BY <1>1
  <2>4. CASE Passed(post[p].pub, now)
    <3>1. Awaited(w, p) BY <2>1, <2>4 DEF Stale, HInv, HistoryInv, StaleInv
    <3>2. proc[w].at # "publish" BY <1>1 DEF IsJob, JobNames
    <3>3. post[p].pub > Struck \/ Passed(post[p].arch, Struck) BY <1>1, <3>1, <3>2 DEF Awaited
    <3>4. CASE Passed(post[p].arch, Struck)
      BY <1>2, <1>3, <2>2, <3>4, <2>3 DEF Passed, Awaited
    <3>5. CASE post[p].pub > Struck
      BY <1>2, <2>2, <3>5, <1>3, <2>3 DEF Awaited
    <3> QED BY <3>3, <3>4, <3>5
  <2>5. CASE ~Passed(post[p].pub, now)
    <3>1. post[p].pub > now BY <1>2, <2>1, <2>2, <2>5 DEF Passed
    <3>2. post[p].pub > now' - Window /\ post[p].pub > Struck BY <1>2, <2>2, <3>1
    <3> QED BY <1>3, <2>3, <3>2 DEF Awaited
  <2> QED BY <2>4, <2>5
<1> QED BY <1>5, <1>6, <1>7, <1>8, <1>9 DEF HistoryInv

-----------------------------------------------------------------------------
(* Every step. *)

LEMMA StillHistory ==
  ASSUME NEW w, HInv(w), UNCHANGED vars
  PROVE  Alone(w)' /\ HistoryInv(w)'
<1>1. UNCHANGED <<crew, offer, now, missed, jobs, post, revs, proc>> BY DEF vars
<1>2. Alone(w)' BY <1>1 DEF HInv, Alone
<1>3. History(w)' BY <1>1 DEF HInv, HistoryInv, History, Newest, Chained, Bare, Settled, Recording, Told, Last, Alive
<1>4. Working(w)' BY <1>1 DEF HInv, HistoryInv, Working, Noting, Archiving, Publishing, Overdue, Alive, Last
<1>5. DueInv(w)' BY <1>1 DEF HInv, HistoryInv, DueInv, ToCome, ArchivedIfDue, Struck, Alive, Passed
<1>6. StaleInv(w)'
  BY <1>1 DEF HInv, HistoryInv, StaleInv, Settled, Recording, Stale, Awaited, Struck, Last, Alive, Passed
<1> QED BY <1>2, <1>3, <1>4, <1>5, <1>6 DEF HistoryInv

LEMMA StepHistory ==
  ASSUME NEW w, HInv(w), [Next]_vars
  PROVE  HInv(w)'
<1>1. DateInv' BY StepDates DEF HInv
<1>2. Alone(w)' /\ HistoryInv(w)'
  <2>1. CASE UNCHANGED vars BY <2>1, StillHistory
  <2>2. CASE Beat \/ MissBeat BY <2>2, ClockHistory
  <2>3. ASSUME NEW v \in Workers, Request(v) \/ Progress(v) \/ Crash(v)
        PROVE  Alone(w)' /\ HistoryInv(w)'
    <3>1. w \in Workers /\ ~CopyPage(w) /\ (Request(w) \/ Progress(w)) BY <2>3, Moved
    <3>2. Undated \in SUBSET Inputs /\ Inputs \in SUBSET Inputs BY DEF Undated
    <3>3. CASE AddPost(w)
      <4>1. PICK class \in Classes, inputs \in SUBSET Inputs : Add(w, class, inputs)
        BY <3>2, <3>3
        DEF AddPost, AddBlog, AddNews, AddWiki, AddPage, AddPad, AddDiscussion, AddQuestion, AddTask,
            AddStatusUpdate, AddFolder, AddFile, Classes
      <4> QED BY <4>1, AddHistory
    <3>4. CASE EditPost(w)
      <4>1. PICK classes \in SUBSET Classes, inputs \in SUBSET Inputs : Edit(w, classes, inputs)
        BY <3>2, <3>4
        DEF EditPost, EditBlog, EditNews, EditWiki, EditPage, EditPad, EditDiscussion, EditQuestion,
            EditTask, EditStatusUpdate, EditFileFolder, Classes
      <4> QED BY <4>1, EditHistory
    <3>5. CASE Request(w) BY <3>1, <3>3, <3>4, <3>5, ArchiveHistory, DeleteHistory DEF Request
    <3>6. CASE Progress(w)
      BY <3>6, SaveHistory, RecordHistory, DepublicateHistory, ArchiveNextHistory, ArchiveDoneHistory,
         DeleteNextHistory, PublishHistory, PublishNextHistory, LoopDoneHistory
      DEF Progress
    <3> QED BY <3>1, <3>5, <3>6
  <2> QED BY <2>1, <2>2, <2>3 DEF Next
<1> QED BY <1>1, <1>2 DEF HInv

-----------------------------------------------------------------------------
(***************************************************************************)
(* Executions.                                                             *)
(***************************************************************************)
CarefulInv == DateInv /\ (Careful => \E w : HInv(w))

LEMMA OneWorker ==
  ASSUME Types, Careful
  PROVE  \E w : Alone(w)
BY PublicationAssumption, FS_Subset, FS_Singleton DEF Types, Careful, Alone

LEMMA InitCareful == Init => CarefulInv
<1> SUFFICES ASSUME Init PROVE CarefulInv OBVIOUS
<1>1. DateInv BY InitDates
<1>2. ASSUME NEW w, Alone(w) PROVE HInv(w)
  <2>1. /\ now = 0 /\ missed = 0 /\ jobs = {} /\ \A p \in Posts : post[p] = Unused /\ revs[p] = <<>>
        /\ \A v \in Workers : proc[v] = Idle
    BY DEF Init
  <2>2. \A p \in Posts : ~Alive(p) BY <2>1 DEF Alive, Unused, Classes
  <2>3. History(w) BY <2>1, <2>2 DEF History, Newest, Chained, Bare, Settled
  <2>4. Working(w) /\ DueInv(w) BY <1>2, <2>1, <2>2, IdleShape DEF Alone, Working, DueInv
  <2>5. StaleInv(w) BY <2>2 DEF StaleInv, Settled
  <2> QED BY <1>1, <1>2, <2>3, <2>4, <2>5 DEF HInv, HistoryInv
<1> QED BY <1>1, <1>2, OneWorker DEF CarefulInv, DateInv

LEMMA StepCareful == CarefulInv /\ [Next]_vars => CarefulInv'
<1> SUFFICES ASSUME CarefulInv, [Next]_vars PROVE CarefulInv' OBVIOUS
<1>1. DateInv' BY StepDates DEF CarefulInv
<1>2. UNCHANGED <<crew, offer>>
  BY DEF vars, Next, Beat, MissBeat, Request, AddPost, EditPost, AddBlog, AddNews, AddWiki, AddPage, AddPad,
     AddDiscussion, AddQuestion, AddTask, AddStatusUpdate, AddFolder, AddFile, EditBlog, EditNews,
     EditWiki, EditPage, EditPad, EditDiscussion, EditQuestion, EditTask, EditStatusUpdate,
     EditFileFolder, Add, Edit, CopyPage, ArchiveEntity, DeleteEntity, Progress, Save, Record,
     Depublicate, Publish, Pickup, ArchiveNext, ArchiveDone, DeleteNext, PublishNext, LoopDone, Crash
<1>3. ASSUME Careful' PROVE (\E w : HInv(w))'
  BY <1>2, <1>3, StepHistory DEF Careful, CarefulInv
<1> QED BY <1>1, <1>3 DEF CarefulInv

LEMMA CarefulAlways == Spec => []CarefulInv
BY InitCareful, StepCareful, PTL DEF Spec

\* The last revision is the post as it is, once the jobs of the hour are done.
LEMMA TellsPost ==
  ASSUME MaxMissed < Window, NEW w, HInv(w), jobs = {}, missed = 0, proc[w] = Idle,
         NEW p \in Posts, Alive(p), HasRevisions(post[p])
  PROVE  revs[p] # <<>> /\ Last(p).to = Serialized(post[p])
<1>1. Settled(w, p) BY IdleShape DEF Settled, Recording
<1>2. Told(p) BY <1>1 DEF HInv, HistoryInv, History
<1>3. PICK row \in Row : row = post[p] BY AliveRow DEF HInv, DateInv
<1>4. PICK to \in Content : to = Last(p).to BY <1>2, RevisionsAre DEF Told, HInv, DateInv, Revision
<1>5. /\ Serialized(row) \in Content /\ Serialized(row).text = row.text
      /\ Serialized(row).status = "archived" <=> row.archived
      /\ Serialized(row).status = "published" <=> ~row.archived /\ Passed(row.pub, now)
      /\ Serialized(row).status = "draft" <=> ~row.archived /\ ~Passed(row.pub, now)
  BY SerializedType
<1>6. /\ to.text = row.text /\ (to.status = "archived" <=> row.archived)
      /\ to.status = "published" => Passed(row.pub, now)
  BY <1>2, <1>3, <1>4 DEF Told
<1>7. ~Stale(p)
  <2> SUFFICES ASSUME Stale(p) PROVE FALSE OBVIOUS
  <2>1. Awaited(w, p) BY <1>1 DEF HInv, HistoryInv, StaleInv
  <2>2. Struck = now /\ now \in Int /\ row.pub \in Int BY <1>3, Clock, RowFields DEF HInv
  <2>3. ~(post[p].pub > Struck) BY <1>3, <2>2 DEF Stale, Passed
  <2>4. Passed(post[p].arch, Struck) BY <2>1, <2>3, IdleShape DEF Awaited
  <2>5. ArchivedIfDue(post[p]) BY IdleDue
  <2> QED BY <2>4, <2>5 DEF ArchivedIfDue, Stale
<1>8. to.status = "draft" => ~row.archived /\ ~Passed(row.pub, now) BY <1>3, <1>4, <1>6, <1>7 DEF Stale
<1>9. to.status = Serialized(row).status BY <1>5, <1>6, <1>8 DEF Content
<1>10. to = Serialized(row) BY <1>5, <1>6, <1>9 DEF Content
<1> QED BY <1>2, <1>3, <1>4, <1>10 DEF Told

\* The latest revision of a post is the post as it is once the jobs of the hour are
\* done, no text is missing from its history, and its dates are in order
\* (Revision.store_update_revision, make_publication_revisions, depublicate_content),
\* provided the window is longer than the beats missed in a row.
THEOREM HistoryStaysSound == ASSUME MaxMissed < Window PROVE Spec => []HistorySound
<1>1. CarefulInv => HistoryCurrent
  BY TellsPost DEF HistoryCurrent, Last, CarefulInv, HInv, Alone, Quiet
<1>2. CarefulInv => ChainIntact BY DEF CarefulInv, ChainIntact, HInv, HistoryInv, History, Chained
<1>3. CarefulInv => TypeOK /\ DatesOrdered
  BY TypesSay DEF CarefulInv, DateInv, AllInOrder, PostsInOrder, InOrder, DatesOrdered
<1>4. CarefulInv => HistorySound BY <1>1, <1>2, <1>3 DEF HistorySound
<1> QED BY <1>4, CarefulAlways, PTL

\* The job leaves alone a post that was taken back from the archive
\* (resolve_toggle_is_archived, depublicate_content), whatever beats are missed.
THEOREM RestoredStaysAlways == Spec => RestoredStays
<1> DEFINE Left ==
      \A p \in Posts, w \in Workers :
        (/\ Careful /\ IsJob(proc[w]) /\ Saves(w, p)
         /\ post'[p] # post[p] /\ revs[p] # <<>>)
        => revs[p][Len(revs[p])].from.status # "archived"
<1>1. CarefulInv /\ [Next]_vars => [Left]_vars
  <2> SUFFICES ASSUME CarefulInv, [Next]_vars, NEW p \in Posts, NEW v \in Workers, Careful,
                      IsJob(proc[v]), Saves(v, p), post'[p] # post[p], revs[p] # <<>>
               PROVE  Last(p).from.status # "archived"
    BY DEF Last
  <2>1. PICK w : HInv(w) BY DEF CarefulInv
  <2>2. v = w /\ w \in Workers BY <2>1, IdleShape DEF HInv, HistoryInv, Working, Alone
  <2>3. PICK s \in SaveOf : proc[w] = s BY <2>1, <2>2, Shapes DEF HInv, Saves
  <2>4. s.on = p /\ s.rest # Idle /\ Noting(s) /\ s.at \in {"save", "record"} /\ s # Idle
    BY <2>1, <2>2, <2>3, SavingNow, Apart DEF Saves
  <2>5. Save(w)
    <3>1. ~(UNCHANGED vars) /\ ~(Beat \/ MissBeat) BY DEF vars, Beat, MissBeat
    <3>2. Request(w) \/ Progress(w) BY <2>1, <3>1, Moved DEF Next
    <3>3. ~Request(w)
      BY <2>3, <2>4
      DEF Request, AddPost, EditPost, AddBlog, AddNews, AddWiki, AddPage, AddPad, AddDiscussion,
          AddQuestion, AddTask, AddStatusUpdate, AddFolder, AddFile, EditBlog, EditNews, EditWiki,
          EditPage, EditPad, EditDiscussion, EditQuestion, EditTask, EditStatusUpdate,
          EditFileFolder, Add, Edit, CopyPage, ArchiveEntity, DeleteEntity, Free
    <3> QED
      BY <2>3, <2>4, <3>2, <3>3
      DEF Progress, Record, Depublicate, Publish, Pickup, ArchiveNext, ArchiveDone, DeleteNext,
          PublishNext, LoopDone
  <2>6. Overdue(p) BY <2>3, <2>4, <2>5 DEF Save, Noting, SaveOf
  <2>7. Settled(w, p) /\ Told(p)
    <3>1. HasRevisions(post[p]) BY <2>1, <2>6 DEF HInv, HistoryInv, History, Bare, Overdue
    <3>2. Settled(w, p) BY <2>3, <2>5, <2>6, <3>1 DEF Settled, Recording, Save, Overdue
    <3> QED BY <2>1, <3>2 DEF HInv, HistoryInv, History
  <2> QED BY <2>6, <2>7 DEF Told, Overdue, Passed
<1> QED BY <1>1, CarefulAlways, PTL DEF Spec, RestoredStays
=============================================================================
