--------------------------- MODULE ResponsesProofs ---------------------------
(***************************************************************************)
(* Theorems about Responses, for any number of posts, people, processes,   *)
(* comments and requests; and about ControlPanel, for any number of sites, *)
(* tasks and workers.                                                      *)
(***************************************************************************)
EXTENDS Responses, ControlPanel, FiniteSetTheorems, TLAPS

(***************************************************************************)
(* A claim says where a comment belongs: its row, a best answer, and what  *)
(* a process holds make one.  A comment is numbered once and never moves,  *)
(* so claims agree, also those about a comment that was deleted.           *)
(***************************************************************************)
Homes == Questions \cup Ids \cup {0}
CopySteps == ChatSteps \cup {"save", "drop"}

JobSays(j, c, x) ==
  \/ j.do \in CopySteps /\ j.copy.best = c /\ x = j.q
  \/ j.do = "write" /\ j.c = c /\ x = j.on

Says(c, x) ==
  \/ comment[c].there /\ comment[c].on = x
  \/ \E q \in Questions : question[q].best = c /\ x = q
  \/ \E w \in Processes : JobSays(at[w], c, x)

Agreed   == \A c \in Ids : \A x, y \in Homes : Says(c, x) /\ Says(c, y) => x = y
Numbered == \A c \in Ids : \A x \in Homes : Says(c, x) => c <= used.comments
Alive    == \A q \in Questions : question[q].best # 0 => comment[question[q].best].there

IInv == ResponsesTypeOK /\ Agreed /\ Numbered /\ Alive

LEMMA ConstantsType ==
  /\ MaxComments \in Nat /\ MaxEdits \in Nat /\ MaxAsks \in Nat
  /\ Guest \notin People /\ NoOne \notin People
  /\ \A q \in Questions : q \notin Ids /\ q # 0
  /\ \A c \in Ids : c \in Nat /\ c # 0
BY ResponsesAssumption DEF Ids

LEMMA JobKinds ==
  ASSUME NEW j \in Job
  PROVE  /\ j.do \in ChatSteps => j \in ChatJob
         /\ j.do = "save" => j \in SaveJob
         /\ j.do = "drop" => j \in DropJob
         /\ j.do = "write" => j \in WriteJob
         /\ j.do \in {"create", "spend"} => j \in GuestJob
         /\ j.do \in {"check", "cast"} => j \in VoteJob
         /\ j.do \in {"clear", "fill"} => j \in PollJob
BY DEF Job, Unasked, ChatSteps, ChatJob, SaveJob, DropJob, WriteJob, GuestJob, VoteJob, PollJob

(***************************************************************************)
(* What a process turns to is a task.                                       *)
(***************************************************************************)
LEMMA BecomesType ==
  ASSUME ResponsesTypeOK, NEW w \in Processes, NEW task \in Job, Becomes(w, task)
  PROVE  /\ at' \in [Processes -> Job] /\ at'[w] = task
         /\ \A v \in Processes : v # w => at'[v] = at[v]
BY DEF ResponsesTypeOK, Becomes

LEMMA UnaskedType == Unasked \in Job
BY DEF Job

LEMMA ArrivesType ==
  ASSUME ResponsesTypeOK, NEW w \in Processes, NEW task \in Job, Arrives(w, task)
  PROVE  /\ at' \in [Processes -> Job] /\ overlap' \in BOOLEAN
         /\ used' \in [comments : 0..MaxComments, choices : 0..MaxEdits, asks : 0..MaxAsks]
         /\ used'.comments = used.comments /\ used'.choices = used.choices
         /\ used'.asks = used.asks + 1 /\ used.asks + 1 \in 1..MaxAsks
         /\ at[w] = Unasked /\ Becomes(w, task)
<1>1. at' \in [Processes -> Job] BY BecomesType DEF Arrives
<1>2. used \in [comments : 0..MaxComments, choices : 0..MaxEdits, asks : 0..MaxAsks] BY DEF ResponsesTypeOK
<1>3. overlap' \in BOOLEAN BY DEF Arrives, ResponsesTypeOK
<1> QED BY <1>1, <1>2, <1>3, ConstantsType DEF Arrives

\* The next comment, and that the others stay.
LEMMA NewCommentType ==
  ASSUME ResponsesTypeOK, NEW on \in Questions \cup Ids, NEW by \in People \cup {Guest}, NewComment(on, by)
  PROVE  /\ used.comments + 1 \in Ids
         /\ comment' \in [Ids -> CommentRow]
         /\ comment'[used.comments + 1] = [there |-> TRUE, on |-> on, by |-> by]
         /\ \A c \in Ids : c # used.comments + 1 => comment'[c] = comment[c]
         /\ used' \in [comments : 0..MaxComments, choices : 0..MaxEdits, asks : 0..MaxAsks]
         /\ used'.comments = used.comments + 1
         /\ used'.choices = used.choices /\ used'.asks = used.asks
         /\ \A c \in Ids : comment'[c].there => c <= used'.comments
<1>1. /\ used \in [comments : 0..MaxComments, choices : 0..MaxEdits, asks : 0..MaxAsks]
      /\ comment \in [Ids -> CommentRow]
      /\ \A c \in Ids : comment[c].there => c <= used.comments
  BY DEF ResponsesTypeOK
<1>2. used.comments + 1 \in Ids /\ used.comments \in Nat BY <1>1, ConstantsType DEF NewComment, Ids
<1>3. used' = [used EXCEPT !.comments = @ + 1] BY DEF NewComment
<1>4. comment' = [comment EXCEPT ![used.comments + 1] = [there |-> TRUE, on |-> on, by |-> by]] BY DEF NewComment
<1>5. used'.comments = used.comments + 1 /\ used'.choices = used.choices /\ used'.asks = used.asks BY <1>1, <1>3
<1>6. used' \in [comments : 0..MaxComments, choices : 0..MaxEdits, asks : 0..MaxAsks] BY <1>1, <1>2, <1>3 DEF Ids
<1>7. \A c \in Ids : comment'[c].there => c <= used'.comments BY <1>1, <1>2, <1>4, <1>5, ConstantsType
<1>8. comment' \in [Ids -> CommentRow] BY <1>1, <1>2, <1>4 DEF CommentRow
<1> QED BY <1>1, <1>2, <1>4, <1>5, <1>6, <1>7, <1>8

LEMMA StoreType ==
  ASSUME ResponsesTypeOK, NEW q \in Questions, NEW copy \in Question, Store(q, copy)
  PROVE  /\ question' \in [Questions -> Question] /\ question'[q] = copy
         /\ \A p \in Questions : p # q => question'[p] = question[p]
BY DEF ResponsesTypeOK, Store

LEMMA RemoveType ==
  ASSUME ResponsesTypeOK, NEW cs, Remove(cs)
  PROVE  /\ comment' \in [Ids -> CommentRow]
         /\ \A c \in Ids : comment'[c].there <=> comment[c].there /\ c \notin cs
         /\ \A c \in Ids : c \notin cs => comment'[c] = comment[c]
         /\ \A c \in Ids : comment'[c].there => c <= used.comments
BY DEF ResponsesTypeOK, Remove, Gone, CommentRow

LEMMA ClearedType ==
  ASSUME ResponsesTypeOK, NEW cs
  PROVE  /\ Cleared(cs) \in [Questions -> Question]
         /\ \A q \in Questions : Cleared(cs)[q].best = IF question[q].best \in cs THEN 0 ELSE question[q].best
<1>1. question \in [Questions -> Question] BY DEF ResponsesTypeOK
<1>2. ASSUME NEW q \in Questions
      PROVE  /\ Cleared(cs)[q] \in Question
             /\ Cleared(cs)[q].best = IF question[q].best \in cs THEN 0 ELSE question[q].best
  BY <1>1, ConstantsType DEF Cleared, Question
<1>3. Cleared(cs) \in [Questions -> Question] BY <1>2 DEF Cleared
<1> QED BY <1>2, <1>3

(***************************************************************************)
(* How claims move.  A step either makes no claim of its own or numbers    *)
(* the comment that it makes.                                              *)
(***************************************************************************)
NoNewClaim == \A c \in Ids : \A x \in Homes : Says(c, x)' => Says(c, x)
NewClaim(h) ==
  \A c \in Ids : \A x \in Homes : Says(c, x)' => Says(c, x) \/ (c = used.comments + 1 /\ x = h)

LEMMA ClaimsOfJob ==
  ASSUME ResponsesTypeOK, NEW w \in Processes, NEW task \in Job, Becomes(w, task), NEW h,
         \A c \in Ids : \A x \in Homes : JobSays(task, c, x) => Says(c, x) \/ (c = used.comments + 1 /\ x = h),
         \A c \in Ids : comment'[c].there => Says(c, comment'[c].on) \/ (c = used.comments + 1 /\ comment'[c].on = h),
         \A q \in Questions : question'[q].best # 0 => Says(question'[q].best, q)
  PROVE  NewClaim(h)
BY ConstantsType, BecomesType DEF NewClaim, Says, JobSays

LEMMA ClaimsKept ==
  ASSUME Agreed, Numbered, NEW h, NewClaim(h), used.comments \in Nat, used'.comments = used.comments + 1
  PROVE  Agreed' /\ Numbered'
BY ConstantsType DEF Numbered, NewClaim, Agreed

LEMMA ClaimsStay ==
  ASSUME Agreed, Numbered, NoNewClaim, used'.comments = used.comments
  PROVE  Agreed' /\ Numbered'
BY DEF Agreed, Numbered, NoNewClaim

\* A task that makes no claim which was not made before.
LEMMA ClaimsOfStep ==
  ASSUME ResponsesTypeOK, NEW w \in Processes, NEW task \in Job, Becomes(w, task),
         \A c \in Ids : \A x \in Homes : JobSays(task, c, x) => Says(c, x),
         \A c \in Ids : comment'[c].there => Says(c, comment'[c].on),
         \A q \in Questions : question'[q].best # 0 => Says(question'[q].best, q)
  PROVE  NoNewClaim
<1>1. NewClaim(MaxComments + 1) BY ClaimsOfJob
<1>2. MaxComments + 1 \notin Homes BY ResponsesAssumption DEF Homes, Ids
<1> QED BY <1>1, <1>2 DEF NewClaim, NoNewClaim

(***************************************************************************)
(* The state has its type.                                                 *)
(***************************************************************************)
Counts == [comments : 0..MaxComments, choices : 0..MaxEdits, asks : 0..MaxAsks]
rows == <<question, comment, followers, told, mails, made, choice, votes>>

LEMMA AskType ==
  ASSUME ResponsesTypeOK, NEW w \in Processes, NEW task \in Job, Arrives(w, task), UNCHANGED rows
  PROVE  ResponsesTypeOK'
BY ArrivesType DEF Counts, ResponsesTypeOK, rows

LEMMA TurnType ==
  ASSUME ResponsesTypeOK, NEW w \in Processes, NEW task \in Job, Becomes(w, task),
         UNCHANGED <<rows, used, overlap>>
  PROVE  ResponsesTypeOK'
<1>1. at' \in [Processes -> Job] BY BecomesType
<1> QED BY <1>1 DEF ResponsesTypeOK, rows

LEMMA QuestionTyped == ResponsesTypeOK => \A q \in Questions : question[q] \in Question
BY DEF ResponsesTypeOK

LEMMA AtTyped == ResponsesTypeOK => \A w \in Processes : at[w] \in Job
BY DEF ResponsesTypeOK

LEMMA RowTyped ==
  ASSUME ResponsesTypeOK, NEW c \in Ids, comment[c].there
  PROVE  comment[c].on \in Questions \cup Ids /\ comment[c].by \in People \cup {Guest}
<1>1. comment[c] \in CommentRow BY DEF ResponsesTypeOK
<1>2. Gone.there = FALSE BY DEF Gone
<1>3. comment[c] # Gone BY <1>2
<1> QED BY <1>1, <1>3 DEF CommentRow

\* Jobs that requests start with.
LEMMA ChatJobType ==
  ASSUME NEW d \in ChatSteps, NEW who \in People, NEW on \in Questions \cup Ids,
         NEW c \in 0..MaxComments, NEW q \in Questions, NEW copy \in Question,
         d \in {"root", "touch", "tell"} => c # 0
  PROVE  [do |-> d, who |-> who, on |-> on, c |-> c, q |-> q, copy |-> copy] \in Job
BY DEF Job, ChatJob

LEMMA SaveJobType ==
  ASSUME NEW q \in Questions, NEW copy \in Question
  PROVE  [do |-> "save", q |-> q, copy |-> copy] \in Job
BY DEF Job, SaveJob

LEMMA NoQuestionType == NoQuestion \in Question
BY ConstantsType DEF NoQuestion, Question

LEMMA ChangeType ==
  ASSUME ResponsesTypeOK, NEW w \in Processes, NEW q \in Questions, NEW copy \in Question, Change(w, q, copy)
  PROVE  ResponsesTypeOK'
BY SaveJobType, AskType DEF Change, rows

LEMMA AskKeepsType ==
  ASSUME ResponsesTypeOK, NEW w \in Processes, Ask(w)
  PROVE  ResponsesTypeOK'
<1> USE QuestionTyped, ConstantsType
<1>1. CASE AddComment(w)
  BY <1>1, ChatJobType, AskType DEF AddComment, Answers, ChatSteps, rows
<1>2. CASE SetFollow(w)
  BY <1>2, ChatJobType, AskType DEF SetFollow, ChatSteps, rows
<1>3. CASE EditQuestion(w) BY <1>3, ChangeType DEF EditQuestion
<1>4. CASE ToggleClosed(w)
  BY <1>4, ChangeType DEF Question, ToggleClosed
<1>5. CASE ToggleBest(w)
  BY <1>5, ChangeType DEF ToggleBest, Candidates, Answers, Ids, Question
<1>6. CASE DeleteQuestion(w)
  <2>1. PICK q \in Questions :
          /\ Arrives(w, Unasked)
          /\ question' = [question EXCEPT ![q] = NoQuestion]
          /\ Remove(Thread(Answers(q)))
    BY <1>6 DEF DeleteQuestion
  <2>2. at' \in [Processes -> Job] /\ overlap' \in BOOLEAN /\ used' \in Counts /\ used'.comments = used.comments
    BY <2>1, UnaskedType, ArrivesType DEF Counts
  <2>3. question' \in [Questions -> Question] BY <2>1, NoQuestionType DEF ResponsesTypeOK
  <2>4. /\ comment' \in [Ids -> CommentRow]
        /\ \A c \in Ids : comment'[c].there => c <= used.comments
    BY <2>1, RemoveType
  <2> QED BY <1>6, <2>2, <2>3, <2>4 DEF DeleteQuestion, ResponsesTypeOK, Counts
<1>7. CASE EditComment(w)
  BY <1>7, RowTyped, AskType DEF EditComment, Job, WriteJob, rows
<1>8. CASE DeleteComment(w)
  BY <1>8, NoQuestionType, AskType DEF DeleteComment, rows, Job, DropJob
<1>9. CASE AskByMail(w)
  BY <1>9, UnaskedType, ArrivesType DEF AskByMail, Counts, ResponsesTypeOK
<1>10. CASE Confirm(w)
  BY <1>10, AskType DEF Confirm, ResponsesTypeOK, rows, Job, GuestJob
<1>11. CASE Vote(w) BY <1>11, AskType DEF Vote, Offered, rows, Job, VoteJob
<1>12. CASE EditPoll(w) BY <1>12, AskType DEF EditPoll, rows, Job, PollJob
<1> QED BY <1>1, <1>2, <1>3, <1>4, <1>5, <1>6, <1>7, <1>8, <1>9, <1>10, <1>11, <1>12 DEF Ask

LEMMA StatementKeepsType ==
  ASSUME ResponsesTypeOK, Numbered, NEW w \in Processes, Statement(w)
  PROVE  ResponsesTypeOK'
<1> USE QuestionTyped, AtTyped, ConstantsType
<1>0. at[w] \in Job OBVIOUS
<1>1. CASE Insert(w)
  <2>1. at[w] \in ChatJob BY <1>1, JobKinds DEF Insert, ChatSteps
  <2>2. at[w].on \in Questions \cup Ids /\ at[w].who \in People \cup {Guest} /\ NewComment(at[w].on, at[w].who)
    BY <1>1, <2>1 DEF ChatJob, Insert
  <2>3. used.comments + 1 \in 0..MaxComments BY <2>2, NewCommentType DEF Ids
  <2>4. (IF at[w].on \in Questions THEN "touch" ELSE "root") \in ChatSteps BY DEF ChatSteps
  <2>5. [at[w] EXCEPT !.c = used.comments + 1, !.do = IF at[w].on \in Questions THEN "touch" ELSE "root"] \in ChatJob
    <3>1. used.comments + 1 # 0 BY DEF ResponsesTypeOK
    <3> QED BY <2>1, <2>3, <2>4, <3>1 DEF ChatJob
  <2>6. at' \in [Processes -> Job] BY <1>1, <2>5, BecomesType DEF Insert, Job
  <2>7. UNCHANGED <<question, followers, told, mails, made, choice, votes, overlap>> BY <1>1 DEF Insert
  <2> QED BY <2>2, <2>6, <2>7, NewCommentType DEF ResponsesTypeOK
<1>2. CASE LoadRoot(w)
  <2>1. at[w] \in ChatJob BY <1>2, JobKinds DEF LoadRoot, ChatSteps
  <2>2. [at[w] EXCEPT !.do = "touch", !.copy = question[at[w].q]] \in Job
    BY <1>2, <2>1 DEF LoadRoot, ChatJob, ChatSteps, Job
  <2> QED BY <1>2, <2>2, TurnType, UnaskedType DEF LoadRoot, Finish, rows
<1>3. CASE Touch(w)
  <2>1. at[w] \in ChatJob BY <1>3, JobKinds DEF Touch, ChatSteps
  <2>2. [at[w] EXCEPT !.do = "follow"] \in Job /\ Unasked \in Job BY <2>1, UnaskedType DEF ChatJob, ChatSteps, Job
  <2>3. [at[w].copy EXCEPT !.last = at[w].c] \in Question /\ at[w].q \in Questions BY <2>1 DEF ChatJob, Question
  <2>4. at' \in [Processes -> Job] BY <1>3, <2>2, BecomesType DEF Touch, Finish
  <2>5. question' \in [Questions -> Question] BY <1>3, <2>3 DEF Touch, Store, ResponsesTypeOK
  <2> QED BY <1>3, <2>4, <2>5 DEF Touch, ResponsesTypeOK
<1>4. CASE Follow(w)
  <2>1. at[w] \in ChatJob BY <1>4, JobKinds DEF Follow, ChatSteps
  <2>2. Tells(w) \in Job /\ [at[w] EXCEPT !.do = "link"] \in Job
    BY <2>1, UnaskedType DEF Tells, ChatJob, ChatSteps, Job
  <2> QED BY <1>4, <2>2, TurnType DEF Follow, rows
<1>5. CASE Subscribe(w)
  <2>1. at[w] \in ChatJob BY <1>5, JobKinds DEF Subscribe, ChatSteps
  <2>2. Tells(w) \in Job /\ Unasked \in Job BY <2>1, UnaskedType DEF Tells, ChatJob, ChatSteps, Job
  <2>3. at' \in [Processes -> Job] BY <1>5, <2>2, BecomesType DEF Subscribe
  <2>4. followers' \subseteq People \X Questions BY <1>5, <2>1 DEF Subscribe, ChatJob, ResponsesTypeOK
  <2> QED BY <1>5, <2>3, <2>4 DEF Subscribe, ResponsesTypeOK
<1>6. CASE Tell(w)
  <2>1. at[w] \in ChatJob BY <1>6, JobKinds DEF Tell, ChatSteps
  <2>2. at' \in [Processes -> Job] BY <1>6, UnaskedType, BecomesType DEF Tell, Finish
  <2>3. at[w].c \in Ids BY <1>6, <2>1 DEF Tell, ChatJob, Ids
  <2> QED BY <1>6, <2>2, <2>3 DEF Tell, ResponsesTypeOK
<1>7. CASE Unfollow(w)
  BY <1>7, UnaskedType, BecomesType DEF Unfollow, Finish, ResponsesTypeOK
<1>8. CASE SaveQuestion(w)
  <2>1. at[w] \in SaveJob BY <1>8, JobKinds DEF SaveQuestion
  <2>2. at' \in [Processes -> Job] BY <1>8, UnaskedType, BecomesType DEF SaveQuestion, Finish
  <2>3. question' \in [Questions -> Question] BY <1>8, <2>1 DEF SaveQuestion, SaveJob, Store, ResponsesTypeOK
  <2> QED BY <1>8, <2>2, <2>3 DEF SaveQuestion, ResponsesTypeOK
<1>9. CASE WriteComment(w)
  <2>1. at[w] \in WriteJob BY <1>9, JobKinds DEF WriteComment
  <2>2. at' \in [Processes -> Job] BY <1>9, UnaskedType, BecomesType DEF WriteComment, Finish
  <2>3. [there |-> TRUE, on |-> at[w].on, by |-> at[w].by] \in CommentRow BY <2>1 DEF WriteJob, CommentRow
  <2>4. comment' \in [Ids -> CommentRow] BY <1>9, <2>3 DEF WriteComment, ResponsesTypeOK
  <2>5. Says(at[w].c, at[w].on) /\ at[w].c \in Ids /\ at[w].on \in Homes
    BY <1>9, <2>1 DEF WriteComment, WriteJob, Says, JobSays, Homes
  <2>6. \A c \in Ids : comment'[c].there => c <= used.comments
    BY <1>9, <2>1, <2>5 DEF Numbered, WriteComment, WriteJob, ResponsesTypeOK
  <2> QED BY <1>9, <2>2, <2>4, <2>6 DEF WriteComment, ResponsesTypeOK
<1>10. CASE DropComment(w)
  <2>1. at[w] \in DropJob BY <1>10, JobKinds DEF DropComment
  <2>2. [do |-> "save", q |-> at[w].q, copy |-> at[w].copy] \in Job /\ Unasked \in Job
    BY <2>1, UnaskedType DEF DropJob, SaveJob, Job
  <2>3. at' \in [Processes -> Job] BY <1>10, <2>2, BecomesType DEF DropComment
  <2>4. question' \in [Questions -> Question] BY <1>10, ClearedType DEF DropComment
  <2>5. /\ comment' \in [Ids -> CommentRow]
        /\ \A c \in Ids : comment'[c].there => c <= used.comments
    BY <1>10, RemoveType DEF DropComment
  <2> QED BY <1>10, <2>3, <2>4, <2>5 DEF DropComment, ResponsesTypeOK
<1>11. CASE CreateForGuest(w)
  <2>1. at[w] \in GuestJob BY <1>11, JobKinds DEF CreateForGuest
  <2>2. [at[w] EXCEPT !.do = "spend"] \in Job BY <2>1 DEF GuestJob, Job
  <2>3. at' \in [Processes -> Job] BY <1>11, <2>2, BecomesType DEF CreateForGuest
  <2>4. at[w].q \in Questions \cup Ids /\ Guest \in People \cup {Guest} /\ NewComment(at[w].q, Guest)
    BY <1>11, <2>1 DEF CreateForGuest, GuestJob
  <2>5. made' \in [1..MaxAsks -> Nat] BY <1>11, <2>1 DEF CreateForGuest, GuestJob, ResponsesTypeOK
  <2> QED BY <1>11, <2>3, <2>4, <2>5, NewCommentType DEF CreateForGuest, ResponsesTypeOK
<1>12. CASE Spend(w)
  BY <1>12, UnaskedType, BecomesType DEF Spend, Finish, ResponsesTypeOK
<1>13. CASE CheckVotes(w)
  <2>1. at[w] \in VoteJob BY <1>13, JobKinds DEF CheckVotes
  <2>2. [at[w] EXCEPT !.do = "cast"] \in Job BY <2>1 DEF VoteJob, Job
  <2> QED BY <1>13, <2>2, UnaskedType, TurnType DEF CheckVotes, rows
<1>14. CASE Cast(w)
  <2>1. at[w] \in VoteJob BY <1>14, JobKinds DEF Cast
  <2>2. at' \in [Processes -> Job] BY <1>14, UnaskedType, BecomesType DEF Cast, Finish
  <2> QED BY <1>14, <2>1, <2>2 DEF Cast, VoteJob, ResponsesTypeOK
<1>15. CASE Clear(w)
  <2>1. at[w] \in PollJob BY <1>15, JobKinds DEF Clear
  <2>2. [at[w] EXCEPT !.do = "fill"] \in Job BY <2>1 DEF PollJob, Job
  <2>3. at' \in [Processes -> Job] BY <1>15, <2>2, BecomesType DEF Clear
  <2> QED BY <1>15, <2>3 DEF Clear, ResponsesTypeOK
<1>16. CASE Fill(w)
  <2>1. at[w] \in PollJob BY <1>16, JobKinds DEF Fill
  <2>2. PICK t \in at[w].texts :
          /\ choice' = [choice EXCEPT ![used.choices + 1] = t]
          /\ used' = [used EXCEPT !.choices = @ + 1]
          /\ Becomes(w, IF at[w].texts = {t} THEN Unasked ELSE [at[w] EXCEPT !.texts = @ \ {t}])
    BY <1>16 DEF Fill
  <2>3. [at[w] EXCEPT !.texts = @ \ {t}] \in Job /\ Unasked \in Job /\ t \in FormLines
    BY <2>1, UnaskedType DEF PollJob, Job
  <2>4. at' \in [Processes -> Job] BY <2>2, <2>3, BecomesType
  <2>5. used.choices + 1 \in Choices /\ used' \in Counts /\ used'.comments = used.comments
    <3>1. used \in Counts /\ used.choices < MaxEdits BY <1>16 DEF Fill, ResponsesTypeOK, Counts
    <3>2. used.choices + 1 \in 1..MaxEdits BY <3>1 DEF Counts
    <3> QED BY <2>2, <3>1, <3>2 DEF Counts, Choices
  <2>6. choice' \in [Choices -> FormLines \cup {NoChoice}] BY <2>2, <2>3, <2>5 DEF ResponsesTypeOK
  <2> QED BY <1>16, <2>4, <2>5, <2>6 DEF Fill, ResponsesTypeOK, Counts
<1> QED
  BY <1>1, <1>2, <1>3, <1>4, <1>5, <1>6, <1>7, <1>8, <1>9, <1>10, <1>11, <1>12, <1>13, <1>14, <1>15, <1>16
     DEF Statement

(***************************************************************************)
(* Claims stay in agreement, and no best answer loses its row.             *)
(***************************************************************************)
LEMMA RowsSay ==
  /\ \A c \in Ids : comment[c].there => Says(c, comment[c].on)
  /\ \A q \in Questions : question[q].best # 0 => Says(question[q].best, q)
  /\ \A q \in Questions : \A c \in Answers(q) : c \in Ids /\ Says(c, q)
BY DEF Says, Answers

LEMMA CopySays ==
  ASSUME NEW j, NEW q \in Questions, j.do # "write",
         j.do \in CopySteps => j.q = q /\ (j.copy.best = 0 \/ (j.copy.best \in Ids /\ Says(j.copy.best, q)))
  PROVE  \A c \in Ids : \A x \in Homes : JobSays(j, c, x) => Says(c, x)
BY ConstantsType DEF JobSays

LEMMA HeldSays ==
  ASSUME NEW w \in Processes, NEW j, j.do # "write",
         j.do \in CopySteps => at[w].do \in CopySteps /\ j.q = at[w].q /\ j.copy.best = at[w].copy.best
  PROVE  \A c \in Ids : \A x \in Homes : JobSays(j, c, x) => Says(c, x)
BY DEF JobSays, Says

LEMMA IdleSays == \A c \in Ids : \A x \in Homes : ~JobSays(Unasked, c, x)
BY DEF JobSays, Unasked, CopySteps, ChatSteps

LEMMA AskClaims ==
  ASSUME ResponsesTypeOK, NEW w \in Processes, NEW task \in Job, Arrives(w, task), UNCHANGED rows,
         \A c \in Ids : \A x \in Homes : JobSays(task, c, x) => Says(c, x)
  PROVE  NoNewClaim
BY ArrivesType, RowsSay, ClaimsOfStep DEF rows

LEMMA ChangeClaims ==
  ASSUME ResponsesTypeOK, NEW w \in Processes, NEW q \in Questions, NEW copy \in Question, Change(w, q, copy),
         copy.best # 0 => copy.best \in Ids /\ Says(copy.best, q)
  PROVE  NoNewClaim /\ UNCHANGED rows
BY SaveJobType, CopySays, AskClaims DEF Change, rows

LEMMA BestTyped == ResponsesTypeOK => \A q \in Questions : question[q].best # 0 => question[q].best \in Ids
BY ConstantsType DEF ResponsesTypeOK, Question, Ids

LEMMA AskKeepsClaims ==
  ASSUME IInv, NEW w \in Processes, Ask(w)
  PROVE  NoNewClaim /\ Alive'
<1> USE QuestionTyped, ConstantsType
<1>0. ResponsesTypeOK /\ Alive /\ Agreed BY DEF IInv
<1>r. UNCHANGED rows => Alive' BY <1>0 DEF rows, Alive
<1>s. ASSUME NEW who \in People, NEW on \in Questions \cup Ids, NEW q \in Questions, NEW d \in ChatSteps,
             d \notin {"root", "touch", "tell"}, UNCHANGED rows,
             Arrives(w, [do |-> d, who |-> who, on |-> on, c |-> 0, q |-> q, copy |-> question[q]])
      PROVE  NoNewClaim
  <2>1. [do |-> d, who |-> who, on |-> on, c |-> 0, q |-> q, copy |-> question[q]] \in Job BY <1>0, <1>s, ChatJobType
  <2>2. d # "write" BY <1>s DEF ChatSteps
  <2>3. \A c \in Ids : \A x \in Homes :
          JobSays([do |-> d, who |-> who, on |-> on, c |-> 0, q |-> q, copy |-> question[q]], c, x) => Says(c, x)
    BY <1>0, <2>2, CopySays, RowsSay, BestTyped
  <2> QED BY <1>0, <1>s, <2>1, <2>3, AskClaims
<1>1. CASE AddComment(w)
  BY <1>1, <1>r, <1>s DEF AddComment, Answers, ChatSteps, rows
<1>2. CASE SetFollow(w)
  BY <1>2, <1>r, <1>s DEF SetFollow, ChatSteps, rows
<1>3. CASE EditQuestion(w) BY <1>0, <1>3, <1>r, ChangeClaims, RowsSay, BestTyped DEF EditQuestion
<1>4. CASE ToggleClosed(w)
  <2>1. PICK q \in Questions : Change(w, q, [question[q] EXCEPT !.closed = ~@]) BY <1>4 DEF ToggleClosed
  <2>2. [question[q] EXCEPT !.closed = ~@] \in Question /\ [question[q] EXCEPT !.closed = ~@].best = question[q].best
    BY <1>0 DEF Question
  <2> QED BY <1>0, <2>1, <2>2, <1>r, ChangeClaims, RowsSay, BestTyped
<1>5. CASE ToggleBest(w)
  <2>1. PICK q \in Questions : \E c \in Candidates(q) :
          Change(w, q, [question[q] EXCEPT !.best = IF @ = c THEN 0 ELSE c])
    BY <1>5 DEF ToggleBest
  <2>2. PICK c \in Answers(q) : Change(w, q, [question[q] EXCEPT !.best = IF @ = c THEN 0 ELSE c])
    BY <2>1 DEF Candidates
  <2>3. c \in Ids /\ Says(c, q) /\ c \in 0..MaxComments /\ 0 \in 0..MaxComments BY RowsSay DEF Ids
  <2>4. /\ [question[q] EXCEPT !.best = IF @ = c THEN 0 ELSE c] \in Question
        /\ [question[q] EXCEPT !.best = IF @ = c THEN 0 ELSE c].best \in {0, c}
    BY <1>0, <2>3 DEF Question
  <2> QED BY <1>0, <2>2, <2>3, <2>4, <1>r, ChangeClaims
<1>6. CASE DeleteQuestion(w)
  <2>1. PICK q \in Questions :
          /\ Arrives(w, Unasked)
          /\ question' = [question EXCEPT ![q] = NoQuestion]
          /\ Remove(Thread(Answers(q)))
    BY <1>6 DEF DeleteQuestion
  <2>2. Becomes(w, Unasked) /\ Unasked \in Job BY <1>0, <2>1, UnaskedType, ArrivesType
  <2>3. /\ \A c \in Ids : comment'[c].there <=> comment[c].there /\ c \notin Thread(Answers(q))
        /\ \A c \in Ids : c \notin Thread(Answers(q)) => comment'[c] = comment[c]
    BY <1>0, <2>1, RemoveType
  <2>4. question'[q].best = 0 /\ \A p \in Questions : p # q => question'[p] = question[p]
    BY <1>0, <2>1 DEF ResponsesTypeOK, NoQuestion
  <2>5. \A c \in Ids : comment'[c].there => Says(c, comment'[c].on) BY <2>3, RowsSay
  <2>6. \A p \in Questions : question'[p].best # 0 => Says(question'[p].best, p) BY <2>4, RowsSay
  <2>7. NoNewClaim BY <1>0, <2>2, <2>5, <2>6, IdleSays, ClaimsOfStep
  <2>8. ASSUME NEW p \in Questions, question'[p].best # 0
        PROVE  comment'[question'[p].best].there
    <3>1. p # q /\ question'[p] = question[p] /\ question[p].best \in Ids /\ comment[question[p].best].there
      BY <1>0, <2>4, <2>8, BestTyped DEF Alive
    <3>2. comment[question[p].best].on = p
      BY <3>1, RowsSay, <1>0, RowTyped DEF Homes, Agreed
    <3>3. p \notin Answers(q) BY DEF Answers
    <3>4. question[p].best \notin Thread(Answers(q)) BY <3>1, <3>2, <3>3 DEF Thread, Answers, Replies
    <3> QED BY <2>3, <3>1, <3>4
  <2> QED BY <2>7, <2>8 DEF Alive
<1>7. CASE EditComment(w)
  <2>1. PICK c \in Ids : /\ comment[c].there /\ comment[c].by \in People
                         /\ Arrives(w, [do |-> "write", c |-> c, on |-> comment[c].on, by |-> comment[c].by])
    BY <1>7 DEF EditComment
  <2>2. [do |-> "write", c |-> c, on |-> comment[c].on, by |-> comment[c].by] \in Job
    BY <1>0, <2>1, RowTyped DEF Job, WriteJob
  <2>3. \A k \in Ids : \A x \in Homes :
          JobSays([do |-> "write", c |-> c, on |-> comment[c].on, by |-> comment[c].by], k, x) => Says(k, x)
    BY <2>1, RowsSay DEF JobSays, CopySteps, ChatSteps
  <2>4. UNCHANGED rows BY <1>7 DEF EditComment, rows
  <2> QED BY <1>0, <2>1, <2>2, <2>3, <2>4, <1>r, AskClaims
<1>8. CASE DeleteComment(w)
  <2>1. PICK c \in Ids, q \in Questions :
          Arrives(w, [do |-> "drop", c |-> c, q |-> q,
                      copy |-> IF OnPost(c) \/ OnReply(c) THEN question[q] ELSE NoQuestion])
    BY <1>8 DEF DeleteComment
  <2> DEFINE copy == IF OnPost(c) \/ OnReply(c) THEN question[q] ELSE NoQuestion
             task == [do |-> "drop", c |-> c, q |-> q, copy |-> copy]
  <2>2. copy \in Question /\ (copy.best = 0 \/ copy.best = question[q].best) BY <1>0, NoQuestionType DEF NoQuestion
  <2>3. task \in Job BY <2>2 DEF Job, DropJob
  <2>4. \A k \in Ids : \A x \in Homes : JobSays(task, k, x) => Says(k, x) BY <1>0, <2>2, CopySays, RowsSay, BestTyped
  <2>5. UNCHANGED rows BY <1>8 DEF DeleteComment, rows
  <2> QED BY <1>0, <2>1, <2>3, <2>4, <2>5, <1>r, AskClaims
<1>9. CASE AskByMail(w)
  <2>1. Becomes(w, Unasked) /\ Unasked \in Job /\ question' = question /\ comment' = comment
    BY <1>0, <1>9, UnaskedType, ArrivesType DEF AskByMail
  <2>2. NoNewClaim BY <1>0, <2>1, IdleSays, RowsSay, ClaimsOfStep
  <2> QED BY <1>0, <2>1, <2>2 DEF Alive
<1>10. CASE Confirm(w)
  <2>1. PICK q \in Questions : \E r \in mails[q] : Arrives(w, [do |-> "create", q |-> q, r |-> r])
    BY <1>10 DEF Confirm
  <2>2. PICK r \in mails[q] : Arrives(w, [do |-> "create", q |-> q, r |-> r]) BY <2>1
  <2>3. r \in 1..MaxAsks BY <1>0 DEF ResponsesTypeOK
  <2>4. [do |-> "create", q |-> q, r |-> r] \in Job BY <2>3 DEF Job, GuestJob
  <2>5. \A k \in Ids : \A x \in Homes : ~JobSays([do |-> "create", q |-> q, r |-> r], k, x)
    BY DEF JobSays, CopySteps, ChatSteps
  <2>6. UNCHANGED rows BY <1>10 DEF Confirm, rows
  <2> QED BY <1>0, <2>2, <2>4, <2>5, <2>6, <1>r, AskClaims
<1>11. CASE Vote(w)
  <2>1. PICK who \in People, i \in Choices : Arrives(w, [do |-> "check", who |-> who, i |-> i])
    BY <1>11 DEF Vote, Offered
  <2>2. [do |-> "check", who |-> who, i |-> i] \in Job BY DEF Job, VoteJob
  <2>3. \A k \in Ids : \A x \in Homes : ~JobSays([do |-> "check", who |-> who, i |-> i], k, x)
    BY DEF JobSays, CopySteps, ChatSteps
  <2>4. UNCHANGED rows BY <1>11 DEF Vote, rows
  <2> QED BY <1>0, <2>1, <2>2, <2>3, <2>4, <1>r, AskClaims
<1>12. CASE EditPoll(w)
  <2>1. PICK texts \in SUBSET FormLines : Arrives(w, [do |-> "clear", texts |-> texts]) BY <1>12 DEF EditPoll
  <2>2. [do |-> "clear", texts |-> texts] \in Job BY DEF Job, PollJob
  <2>3. \A k \in Ids : \A x \in Homes : ~JobSays([do |-> "clear", texts |-> texts], k, x)
    BY DEF JobSays, CopySteps, ChatSteps
  <2>4. UNCHANGED rows BY <1>12 DEF EditPoll, rows
  <2> QED BY <1>0, <2>1, <2>2, <2>3, <2>4, <1>r, AskClaims
<1> QED BY <1>1, <1>2, <1>3, <1>4, <1>5, <1>6, <1>7, <1>8, <1>9, <1>10, <1>11, <1>12 DEF Ask

\* A request is counted when it arrives, and makes no comment yet.
LEMMA AskKeepsUsed ==
  ASSUME ResponsesTypeOK, NEW w \in Processes, Ask(w)
  PROVE  used'.comments = used.comments /\ used'.choices = used.choices
<1>1. \E task : Arrives(w, task)
  BY DEF Ask, AddComment, SetFollow, EditQuestion, ToggleClosed, ToggleBest, Change, DeleteQuestion,
         EditComment, DeleteComment, AskByMail, Confirm, Vote, EditPoll
<1> QED BY <1>1 DEF Arrives, ResponsesTypeOK

\* What a statement leaves in the process, if it claims no more than before.
LEMMA TurnClaims ==
  ASSUME IInv, NEW w \in Processes, NEW task \in Job, Becomes(w, task),
         UNCHANGED <<question, comment, used>>,
         \A c \in Ids : \A x \in Homes : JobSays(task, c, x) => Says(c, x)
  PROVE  (Agreed /\ Numbered /\ Alive)'
<1>1. NoNewClaim BY RowsSay, ClaimsOfStep DEF IInv
<1> QED BY <1>1, ClaimsStay DEF IInv, Alive

\* A comment is made, and the process that made it claims nothing about it.
LEMMA NewCommentClaims ==
  ASSUME IInv, NEW w \in Processes, NEW task \in Job, Becomes(w, task), UNCHANGED question,
         NEW on \in Questions \cup Ids, NEW by \in People \cup {Guest}, NewComment(on, by),
         \A c \in Ids : \A x \in Homes : JobSays(task, c, x) => Says(c, x)
  PROVE  (Agreed /\ Numbered /\ Alive)'
<1>0. ResponsesTypeOK /\ Agreed /\ Numbered /\ Alive BY DEF IInv
<1>1. /\ used.comments + 1 \in Ids
      /\ comment'[used.comments + 1] = [there |-> TRUE, on |-> on, by |-> by]
      /\ \A c \in Ids : c # used.comments + 1 => comment'[c] = comment[c]
      /\ used'.comments = used.comments + 1
  BY <1>0, NewCommentType
<1>2. \A c \in Ids : comment'[c].there => Says(c, comment'[c].on) \/ (c = used.comments + 1 /\ comment'[c].on = on)
  BY <1>1, RowsSay
<1>3. NewClaim(on) BY <1>0, <1>2, RowsSay, ClaimsOfJob
<1>4. Agreed' /\ Numbered' BY <1>0, <1>1, <1>3, ClaimsKept DEF ResponsesTypeOK
<1>5. Alive' BY <1>0, <1>1, BestTyped DEF Alive
<1> QED BY <1>4, <1>5

\* A copy is stored of which the best answer is still there.
LEMMA StoreClaims ==
  ASSUME IInv, NEW w \in Processes, NEW task \in Job, Becomes(w, task), UNCHANGED <<comment, used>>,
         NEW q \in Questions, NEW copy \in Question, Store(q, copy), ~BestGone(copy),
         copy.best # 0 => Says(copy.best, q),
         \A c \in Ids : \A x \in Homes : JobSays(task, c, x) => Says(c, x)
  PROVE  (Agreed /\ Numbered /\ Alive)'
<1>0. ResponsesTypeOK /\ Agreed /\ Numbered /\ Alive BY DEF IInv
<1>1. question'[q] = copy /\ \A p \in Questions : p # q => question'[p] = question[p] BY <1>0, StoreType
<1>2. \A p \in Questions : question'[p].best # 0 => Says(question'[p].best, p) BY <1>1, RowsSay
<1>3. NoNewClaim BY <1>0, <1>2, RowsSay, ClaimsOfStep
<1>4. Alive' BY <1>0, <1>1 DEF Alive, BestGone, IsThere
<1> QED BY <1>0, <1>3, <1>4, ClaimsStay

LEMMA StatementKeepsClaims ==
  ASSUME IInv, NEW w \in Processes, Statement(w)
  PROVE  (Agreed /\ Numbered /\ Alive)'
<1> USE QuestionTyped, ConstantsType
<1>0. ResponsesTypeOK /\ Alive /\ Agreed /\ Numbered /\ at[w] \in Job /\ Unasked \in Job
  BY AtTyped, UnaskedType DEF IInv
<1>h. ASSUME NEW d \in ChatSteps, at[w] \in ChatJob, d \in {"root", "touch", "tell"} => at[w].c # 0
      PROVE  /\ [at[w] EXCEPT !.do = d] \in Job
             /\ \A c \in Ids : \A x \in Homes : JobSays([at[w] EXCEPT !.do = d], c, x) => Says(c, x)
  BY <1>h, HeldSays DEF ChatJob, ChatSteps, CopySteps, Job
<1>i. /\ "touch" \in ChatSteps /\ "follow" \in ChatSteps /\ "link" \in ChatSteps /\ "tell" \in ChatSteps
      /\ "root" \in ChatSteps
  BY DEF ChatSteps
<1>j. ASSUME at[w] \in ChatJob
      PROVE  /\ Tells(w) \in Job
             /\ \A c \in Ids : \A x \in Homes : JobSays(Tells(w), c, x) => Says(c, x)
  BY <1>0, <1>h, <1>i, <1>j, IdleSays DEF Tells
<1>1. CASE Insert(w)
  <2>1. at[w] \in ChatJob BY <1>0, <1>1, JobKinds DEF Insert, ChatSteps
  <2>2. at[w].on \in Questions \cup Ids /\ at[w].who \in People \cup {Guest} /\ NewComment(at[w].on, at[w].who)
    BY <1>1, <2>1 DEF ChatJob, Insert
  <2> DEFINE d == IF at[w].on \in Questions THEN "touch" ELSE "root"
             task == [at[w] EXCEPT !.c = used.comments + 1, !.do = d]
  <2>3. used.comments + 1 \in Ids BY <1>0, <2>2, NewCommentType
  <2>4. d \in ChatSteps /\ d # "write" /\ at[w].do \in CopySteps BY <2>1 DEF ChatSteps, CopySteps, ChatJob
  <2>5. ASSUME NEW e \in ChatSteps, NEW n \in Ids
        PROVE  LET next == [at[w] EXCEPT !.c = n, !.do = e] IN
               next \in ChatJob /\ next.do = e /\ next.q = at[w].q /\ next.copy = at[w].copy
    <3>1. n \in 0..MaxComments /\ n # 0 BY DEF Ids
    <3> QED BY <2>1, <3>1 DEF ChatJob
  <2>6. \A c \in Ids : \A x \in Homes : JobSays(task, c, x) => Says(c, x)
    <3> HIDE DEF d
    <3>1. task.do = d /\ task.q = at[w].q /\ task.copy = at[w].copy BY <2>3, <2>4, <2>5
    <3> HIDE DEF task
    <3> QED BY <2>4, <3>1, HeldSays
  <2>7. Becomes(w, task) /\ UNCHANGED question /\ task \in Job BY <1>1, <2>3, <2>4, <2>5 DEF Insert, Job
  <2> QED BY <2>2, <2>6, <2>7, NewCommentClaims
<1>2. CASE LoadRoot(w)
  <2>1. at[w] \in ChatJob BY <1>0, <1>2, JobKinds DEF LoadRoot, ChatSteps
  <2> DEFINE task == [at[w] EXCEPT !.do = "touch", !.copy = question[at[w].q]]
  <2>2. at[w].c # 0 /\ at[w].q \in Questions /\ question[at[w].q] \in Question
    BY <1>0, <1>2, <2>1 DEF LoadRoot, ChatJob
  <2>3. task \in ChatJob /\ task.do = "touch" /\ task.q = at[w].q /\ task.copy = question[at[w].q]
    BY <2>1, <2>2 DEF ChatJob, ChatSteps
  <2>4. \A c \in Ids : \A x \in Homes : JobSays(task, c, x) => Says(c, x)
    BY <1>0, <2>2, <2>3, CopySays, RowsSay, BestTyped
  <2>5. UNCHANGED <<question, comment, used>> BY <1>2 DEF LoadRoot
  <2>6. task \in Job BY <2>3 DEF Job
  <2> QED BY <1>0, <1>2, <2>4, <2>5, <2>6, IdleSays, TurnClaims DEF LoadRoot, Finish
<1>3. CASE Touch(w)
  <2>1. at[w] \in ChatJob BY <1>0, <1>3, JobKinds DEF Touch, ChatSteps
  <2> DEFINE task == [at[w] EXCEPT !.do = "follow"]
             new == [at[w].copy EXCEPT !.last = at[w].c]
  <2>2. task \in Job /\ \A c \in Ids : \A x \in Homes : JobSays(task, c, x) => Says(c, x) BY <1>h, <1>i, <2>1
  <2>3. new \in Question /\ at[w].q \in Questions /\ new.best = at[w].copy.best BY <2>1 DEF ChatJob, Question
  <2>4. new.best # 0 => Says(new.best, at[w].q) BY <1>3, <2>3 DEF Says, JobSays, Touch, CopySteps, ChatSteps
  <2>5. UNCHANGED <<comment, used>> BY <1>3 DEF Touch
  <2>6. \/ Finish(w) /\ UNCHANGED question
        \/ Store(at[w].q, new) /\ ~BestGone(new) /\ Becomes(w, task)
        \/ UNCHANGED question /\ Becomes(w, task)
    BY <1>3 DEF Touch
  <2> QED BY <1>0, <2>2, <2>3, <2>4, <2>5, <2>6, IdleSays, TurnClaims, StoreClaims DEF Finish
<1>4. CASE Follow(w)
  <2>1. at[w] \in ChatJob BY <1>0, <1>4, JobKinds DEF Follow, ChatSteps
  <2>2. UNCHANGED <<question, comment, used>> /\ (Becomes(w, Tells(w)) \/ Becomes(w, [at[w] EXCEPT !.do = "link"]))
    BY <1>4 DEF Follow
  <2> QED BY <1>h, <1>i, <1>j, <2>1, <2>2, TurnClaims
<1>5. CASE Subscribe(w)
  <2>1. at[w] \in ChatJob BY <1>0, <1>5, JobKinds DEF Subscribe, ChatSteps
  <2>2. UNCHANGED <<question, comment, used>> /\ (Becomes(w, Tells(w)) \/ Becomes(w, Unasked)) BY <1>5 DEF Subscribe
  <2> QED BY <1>0, <1>j, <2>1, <2>2, IdleSays, TurnClaims
<1>6. ASSUME Finish(w), UNCHANGED <<question, comment, used>>
      PROVE  (Agreed /\ Numbered /\ Alive)'
  BY <1>0, <1>6, IdleSays, TurnClaims DEF Finish
<1>7. CASE Tell(w) \/ Unfollow(w) \/ Spend(w) \/ Cast(w) BY <1>6, <1>7 DEF Tell, Unfollow, Spend, Cast
<1>8. CASE SaveQuestion(w)
  <2>1. at[w] \in SaveJob BY <1>0, <1>8, JobKinds DEF SaveQuestion
  <2>2. at[w].copy \in Question /\ at[w].q \in Questions BY <2>1 DEF SaveJob
  <2>3. at[w].copy.best # 0 => Says(at[w].copy.best, at[w].q) BY <1>8 DEF Says, JobSays, SaveQuestion, CopySteps
  <2>4. UNCHANGED <<comment, used>> /\ Finish(w) BY <1>8 DEF SaveQuestion
  <2>5. UNCHANGED question \/ (Store(at[w].q, at[w].copy) /\ ~BestGone(at[w].copy)) BY <1>8 DEF SaveQuestion
  <2> QED BY <1>0, <1>6, <2>2, <2>3, <2>4, <2>5, IdleSays, StoreClaims DEF Finish
<1>9. CASE WriteComment(w)
  <2>1. at[w] \in WriteJob BY <1>0, <1>9, JobKinds DEF WriteComment
  <2>2. Says(at[w].c, at[w].on) /\ at[w].c \in Ids BY <1>9, <2>1 DEF WriteComment, WriteJob, Says, JobSays
  <2>3. /\ comment'[at[w].c].on = at[w].on /\ comment'[at[w].c].there
        /\ \A c \in Ids : c # at[w].c => comment'[c] = comment[c]
    BY <1>0, <1>9, <2>2 DEF WriteComment, ResponsesTypeOK
  <2>4. Becomes(w, Unasked) /\ UNCHANGED <<question, used>> BY <1>9 DEF WriteComment, Finish
  <2>5. \A c \in Ids : comment'[c].there => Says(c, comment'[c].on) BY <2>2, <2>3, RowsSay
  <2>6. NoNewClaim BY <1>0, <2>4, <2>5, RowsSay, IdleSays, ClaimsOfStep
  <2>7. Alive' BY <1>0, <2>3, <2>4, BestTyped DEF Alive
  <2> QED BY <1>0, <2>4, <2>6, <2>7, ClaimsStay
<1>10. CASE DropComment(w)
  <2>1. at[w] \in DropJob BY <1>0, <1>10, JobKinds DEF DropComment
  <2> DEFINE cs == Thread({at[w].c})
             task == [do |-> "save", q |-> at[w].q, copy |-> at[w].copy]
  <2>2. task \in Job BY <2>1 DEF DropJob, SaveJob, Job
  <2>3. at[w].do \in CopySteps BY <1>10 DEF DropComment, CopySteps
  <2>4. \A c \in Ids : \A x \in Homes : JobSays(task, c, x) => Says(c, x) BY <2>3, HeldSays
  <2>5. /\ Remove(cs) /\ question' = Cleared(cs) /\ UNCHANGED used
        /\ Becomes(w, task) \/ Becomes(w, Unasked)
    BY <1>10 DEF DropComment
  <2>6. /\ \A c \in Ids : comment'[c].there <=> comment[c].there /\ c \notin cs
        /\ \A c \in Ids : c \notin cs => comment'[c] = comment[c]
    BY <1>0, <2>5, RemoveType
  <2>7. \A q \in Questions : question'[q].best = IF question[q].best \in cs THEN 0 ELSE question[q].best
    BY <1>0, <2>5, ClearedType
  <2>8. \A c \in Ids : comment'[c].there => Says(c, comment'[c].on) BY <2>6, RowsSay
  <2>9. \A q \in Questions : question'[q].best # 0 => Says(question'[q].best, q) BY <2>7, RowsSay
  <2>10. NoNewClaim BY <1>0, <2>2, <2>4, <2>5, <2>8, <2>9, IdleSays, ClaimsOfStep
  <2>11. Alive' BY <1>0, <2>6, <2>7, BestTyped DEF Alive
  <2> QED BY <1>0, <2>5, <2>10, <2>11, ClaimsStay
<1>11. CASE CreateForGuest(w)
  <2>1. at[w] \in GuestJob BY <1>0, <1>11, JobKinds DEF CreateForGuest
  <2> DEFINE task == [at[w] EXCEPT !.do = "spend"]
  <2>2. task \in Job /\ task.do = "spend" BY <2>1 DEF GuestJob, Job
  <2>3. \A c \in Ids : \A x \in Homes : JobSays(task, c, x) => Says(c, x) BY <2>2 DEF JobSays, CopySteps, ChatSteps
  <2>4. /\ at[w].q \in Questions \cup Ids /\ Guest \in People \cup {Guest} /\ NewComment(at[w].q, Guest)
        /\ Becomes(w, task) /\ UNCHANGED question
    BY <1>11, <2>1 DEF CreateForGuest, GuestJob
  <2> QED BY <2>2, <2>3, <2>4, NewCommentClaims
<1>13. CASE CheckVotes(w)
  <2>1. at[w] \in VoteJob BY <1>0, <1>13, JobKinds DEF CheckVotes
  <2>2. [at[w] EXCEPT !.do = "cast"] \in Job /\ [at[w] EXCEPT !.do = "cast"].do = "cast" BY <2>1 DEF VoteJob, Job
  <2>3. \A c \in Ids : \A x \in Homes : JobSays([at[w] EXCEPT !.do = "cast"], c, x) => Says(c, x)
    BY <2>2 DEF JobSays, CopySteps, ChatSteps
  <2>4. UNCHANGED <<question, comment, used>> BY <1>13 DEF CheckVotes
  <2> QED BY <1>0, <1>13, <2>2, <2>3, <2>4, IdleSays, TurnClaims DEF CheckVotes
<1>15. CASE Clear(w)
  <2>1. at[w] \in PollJob BY <1>0, <1>15, JobKinds DEF Clear
  <2>2. [at[w] EXCEPT !.do = "fill"] \in Job /\ [at[w] EXCEPT !.do = "fill"].do = "fill" BY <2>1 DEF PollJob, Job
  <2>3. \A c \in Ids : \A x \in Homes : JobSays([at[w] EXCEPT !.do = "fill"], c, x) => Says(c, x)
    BY <2>2 DEF JobSays, CopySteps, ChatSteps
  <2>4. UNCHANGED <<question, comment, used>> /\ Becomes(w, [at[w] EXCEPT !.do = "fill"]) BY <1>15 DEF Clear
  <2> QED BY <2>2, <2>3, <2>4, TurnClaims
<1>16. CASE Fill(w)
  <2>1. at[w] \in PollJob BY <1>0, <1>16, JobKinds DEF Fill
  <2>2. PICK t \in at[w].texts :
          /\ used' = [used EXCEPT !.choices = @ + 1]
          /\ Becomes(w, IF at[w].texts = {t} THEN Unasked ELSE [at[w] EXCEPT !.texts = @ \ {t}])
    BY <1>16 DEF Fill
  <2> DEFINE task == [at[w] EXCEPT !.texts = @ \ {t}]
  <2>3. task \in Job /\ task.do = "fill" BY <1>16, <2>1 DEF PollJob, Job, Fill
  <2>4. \A c \in Ids : \A x \in Homes : JobSays(task, c, x) => Says(c, x) BY <2>3 DEF JobSays, CopySteps, ChatSteps
  <2>5. UNCHANGED <<question, comment>> /\ used'.comments = used.comments
    BY <1>0, <1>16, <2>2 DEF Fill, ResponsesTypeOK
  <2>6. NoNewClaim BY <1>0, <2>2, <2>3, <2>4, <2>5, RowsSay, IdleSays, ClaimsOfStep
  <2> QED BY <1>0, <2>5, <2>6, ClaimsStay DEF Alive
<1> QED BY <1>1, <1>2, <1>3, <1>4, <1>5, <1>7, <1>8, <1>9, <1>10, <1>11, <1>13, <1>15, <1>16 DEF Statement

(***************************************************************************)
(* The theorems.                                                           *)
(***************************************************************************)
LEMMA InitIInv == ResponsesInit => IInv
<1> SUFFICES ASSUME ResponsesInit
             PROVE  IInv
  OBVIOUS
<1>1. \A q \in Questions : question[q] \in Question /\ question[q].best = 0
  BY NoQuestionType DEF NoQuestion, Question, ResponsesInit
<1>2. question \in [Questions -> Question] BY <1>1 DEF ResponsesInit
<1>3. choice \in [Choices -> FormLines \cup {NoChoice}] BY DEF ResponsesInit, FormLines
<1>4. \A c \in Ids : ~comment[c].there BY DEF ResponsesInit, Gone
<1>5. ResponsesTypeOK
  <2>1. comment \in [Ids -> CommentRow] /\ at \in [Processes -> Job] BY UnaskedType DEF ResponsesInit, CommentRow
  <2>2. used \in [comments : 0..MaxComments, choices : 0..MaxEdits, asks : 0..MaxAsks]
    BY ResponsesAssumption DEF ResponsesInit
  <2> QED BY <1>2, <1>3, <1>4, <2>1, <2>2 DEF ResponsesTypeOK, ResponsesInit
<1>6. \A c \in Ids : \A x \in Homes : ~Says(c, x) BY <1>1, <1>4, IdleSays, ConstantsType DEF Says, ResponsesInit
<1> QED BY <1>1, <1>5, <1>6 DEF IInv, Agreed, Numbered, Alive

LEMMA StepIInv ==
  ASSUME IInv, [ResponsesNext]_responses
  PROVE  IInv'
<1>1. CASE UNCHANGED responses
  <2>1. ResponsesTypeOK' BY <1>1 DEF responses, IInv, ResponsesTypeOK
  <2>2. (Agreed /\ Numbered /\ Alive)' BY <1>1 DEF responses, IInv, Agreed, Numbered, Alive, Says
  <2> QED BY <2>1, <2>2 DEF IInv
<1>2. CASE \E w \in Processes : Ask(w)
  BY <1>2, AskKeepsType, AskKeepsClaims, AskKeepsUsed, ClaimsStay DEF IInv
<1>3. CASE \E w \in Processes : Statement(w) BY <1>3, StatementKeepsType, StatementKeepsClaims DEF IInv
<1> QED BY <1>1, <1>2, <1>3 DEF ResponsesNext

\* Every variable of the model keeps its type.
THEOREM ResponsesTyped == ResponsesSpec => []ResponsesTypeOK
<1>1. IInv => ResponsesTypeOK BY DEF IInv
<1> QED BY <1>1, InitIInv, StepIInv, PTL DEF ResponsesSpec

\* However requests overlap, and whatever they write back: the best answer of
\* a question is a comment that is still there, and an answer to that question.
THEOREM BestStaysAnswer == ResponsesSpec => []BestIsAnswer
<1>1. ASSUME IInv PROVE BestIsAnswer
  <2>1. ASSUME NEW q \in Questions, question[q].best # 0
        PROVE  question[q].best \in Answers(q)
    <3>1. question[q].best \in Ids /\ comment[question[q].best].there BY <1>1, <2>1, BestTyped DEF IInv, Alive
    <3>2. Says(question[q].best, q) /\ Says(question[q].best, comment[question[q].best].on) BY <2>1, <3>1, RowsSay
    <3>3. q \in Homes /\ comment[question[q].best].on \in Homes BY <1>1, <3>1, RowTyped DEF IInv, Homes
    <3>4. comment[question[q].best].on = q BY <1>1, <3>1, <3>2, <3>3 DEF IInv, Agreed
    <3> QED BY <3>1, <3>4 DEF Answers
  <2> QED BY <2>1 DEF BestIsAnswer
<1> QED BY <1>1, InitIInv, StepIInv, PTL DEF ResponsesSpec

(***************************************************************************)
(* Polls.  While a person has no vote any number of processes may be about *)
(* to cast one; with the first vote nobody joins them.                     *)
(***************************************************************************)
Casting(p) == {w \in Processes : at[w].do = "cast" /\ at[w].who = p}

Choosing ==
  /\ \A i \in Choices : choice[i] # NoChoice => i <= used.choices
  /\ \A p \in People, i \in Choices : <<p, i>> \in votes => i <= used.choices
  /\ \A w \in Processes : at[w].do \in {"check", "cast"} => at[w].i <= used.choices
  /\ \A p \in People : Counted(p) # {} =>
       Cardinality(Counted(p)) + Cardinality(Casting(p)) <= Cardinality(Processes)

LEMMA Finite ==
  /\ IsFiniteSet(Processes) /\ IsFiniteSet(Choices) /\ Cardinality(Processes) \in Nat
  /\ \A S \in SUBSET Processes : IsFiniteSet(S) /\ Cardinality(S) \in Nat /\ Cardinality(S) <= Cardinality(Processes)
  /\ \A S \in SUBSET Choices : IsFiniteSet(S) /\ Cardinality(S) \in Nat
<1>1. IsFiniteSet(Processes) /\ IsFiniteSet(Choices) BY ResponsesAssumption, FS_Interval DEF Choices
<1> QED BY <1>1, FS_CardinalityType, FS_Subset

\* Fewer votes and fewer that are about to be cast keep the bound.
LEMMA FewerVotes ==
  ASSUME Choosing, NEW p \in People, Counted(p)' \subseteq Counted(p), Casting(p)' \subseteq Casting(p), Counted(p)' # {}
  PROVE  Cardinality(Counted(p)') + Cardinality(Casting(p)') <= Cardinality(Processes)
<1>1. Counted(p) \in SUBSET Choices /\ Casting(p) \in SUBSET Processes BY DEF Counted, Offered, Casting
<1>2. /\ Cardinality(Counted(p)') <= Cardinality(Counted(p)) /\ Cardinality(Casting(p)') <= Cardinality(Casting(p))
      /\ Cardinality(Counted(p)') \in Nat /\ Cardinality(Casting(p)') \in Nat
  BY <1>1, Finite, FS_Subset
<1>3. Cardinality(Counted(p)) + Cardinality(Casting(p)) <= Cardinality(Processes) BY DEF Choosing
<1> QED BY <1>1, <1>2, <1>3, Finite

\* A step that neither votes nor changes the poll.
LEMMA VotesAside ==
  ASSUME ResponsesTypeOK, Choosing, NEW w \in Processes, NEW task, Becomes(w, task),
         task.do \notin {"check", "cast"}, choice' = choice, votes' = votes, used'.choices = used.choices
  PROVE  Choosing'
BY FewerVotes DEF Becomes, ResponsesTypeOK, Counted, Offered, Casting, Choosing

Polling(w) == Vote(w) \/ EditPoll(w) \/ CheckVotes(w) \/ Cast(w) \/ Clear(w) \/ Fill(w)

LEMMA OthersAside ==
  ASSUME ResponsesTypeOK, NEW w \in Processes, Ask(w) \/ Statement(w), ~Polling(w)
  PROVE  \E task : /\ Becomes(w, task) /\ task.do \notin {"check", "cast", "clear", "fill"}
                  /\ choice' = choice /\ votes' = votes /\ used'.choices = used.choices
<1>0. at[w] \in Job /\ used \in Counts BY AtTyped DEF ResponsesTypeOK, Counts
<1>1. \A task : Arrives(w, task) => Becomes(w, task) /\ used'.choices = used.choices BY <1>0 DEF Arrives, Counts
<1>2. \A on, by : NewComment(on, by) => used'.choices = used.choices BY <1>0 DEF NewComment, Counts
<1>3. CASE AddComment(w) BY <1>1, <1>3 DEF AddComment
<1>4. CASE SetFollow(w) BY <1>1, <1>4 DEF SetFollow
<1>5. CASE EditQuestion(w) \/ ToggleClosed(w) \/ ToggleBest(w)
  BY <1>5, <1>1 DEF EditQuestion, ToggleClosed, ToggleBest, Change
<1>6. CASE DeleteQuestion(w) BY <1>1, <1>6 DEF DeleteQuestion, Unasked
<1>7. CASE EditComment(w) BY <1>1, <1>7 DEF EditComment
<1>8. CASE DeleteComment(w)
  BY <1>8, <1>1 DEF DeleteComment
<1>9. CASE AskByMail(w) BY <1>1, <1>9 DEF AskByMail, Unasked
<1>10. CASE Confirm(w) BY <1>1, <1>10 DEF Confirm
<1>11. CASE Insert(w)
  <2>1. at[w] \in ChatJob BY <1>0, <1>11, JobKinds DEF Insert, ChatSteps
  <2> DEFINE task == [at[w] EXCEPT !.c = used.comments + 1, !.do = IF at[w].on \in Questions THEN "touch" ELSE "root"]
  <2>2. task.do \in {"touch", "root"} BY <2>1 DEF ChatJob
  <2>3. Becomes(w, task) BY <1>11 DEF Insert
  <2> HIDE DEF task
  <2> QED BY <1>2, <1>11, <2>2, <2>3 DEF Insert
<1>12. CASE LoadRoot(w) \/ Touch(w) \/ Follow(w) \/ Subscribe(w)
  <2>1. at[w] \in ChatJob BY <1>0, <1>12, JobKinds DEF LoadRoot, Touch, Follow, Subscribe, ChatSteps
  <2>2. /\ [at[w] EXCEPT !.do = "touch", !.copy = question[at[w].q]].do = "touch"
        /\ [at[w] EXCEPT !.do = "follow"].do = "follow" /\ [at[w] EXCEPT !.do = "link"].do = "link"
        /\ Tells(w).do \in {"idle", "tell"} /\ Unasked.do = "idle"
    BY <2>1 DEF ChatJob, Tells, Unasked
  <2>3. /\ LoadRoot(w) => Becomes(w, [at[w] EXCEPT !.do = "touch", !.copy = question[at[w].q]]) \/ Becomes(w, Unasked)
        /\ Touch(w) => Becomes(w, [at[w] EXCEPT !.do = "follow"]) \/ Becomes(w, Unasked)
        /\ Follow(w) => Becomes(w, [at[w] EXCEPT !.do = "link"]) \/ Becomes(w, Tells(w))
        /\ Subscribe(w) => Becomes(w, Tells(w)) \/ Becomes(w, Unasked)
    BY DEF LoadRoot, Touch, Follow, Subscribe, Finish
  <2>4. choice' = choice /\ votes' = votes /\ used' = used BY <1>12 DEF LoadRoot, Touch, Follow, Subscribe
  <2> QED BY <1>12, <2>2, <2>3, <2>4
<1>13. CASE Tell(w) \/ Unfollow(w) \/ SaveQuestion(w) \/ WriteComment(w) \/ Spend(w)
  BY <1>13 DEF Tell, Unfollow, SaveQuestion, WriteComment, Spend, Finish, Unasked
<1>14. CASE DropComment(w)
  BY <1>14 DEF DropComment, Unasked
<1>15. CASE CreateForGuest(w)
  BY <1>0, <1>15, JobKinds, <1>2 DEF CreateForGuest, GuestJob
<1> QED
  BY <1>3, <1>4, <1>5, <1>6, <1>7, <1>8, <1>9, <1>10, <1>11, <1>12, <1>13, <1>14, <1>15 DEF Ask, Statement, Polling

LEMMA PollStep ==
  ASSUME ResponsesTypeOK, Choosing, NEW w \in Processes, Polling(w)
  PROVE  Choosing'
<1>0. /\ at[w] \in Job /\ used \in Counts /\ used.choices \in Nat
      /\ \A task : Becomes(w, task) => at'[w] = task /\ \A v \in Processes : v # w => at'[v] = at[v]
  BY AtTyped DEF ResponsesTypeOK, Counts, Becomes
<1>1. \A task : Arrives(w, task) => Becomes(w, task) /\ used'.choices = used.choices BY <1>0 DEF Arrives, Counts
<1>2. CASE Vote(w)
  <2>1. PICK who \in People, i \in Offered : Arrives(w, [do |-> "check", who |-> who, i |-> i]) BY <1>2 DEF Vote
  <2>2. choice' = choice /\ votes' = votes /\ used'.choices = used.choices BY <1>1, <1>2, <2>1 DEF Vote
  <2>3. \A p \in People : Counted(p)' = Counted(p) /\ Casting(p)' \subseteq Casting(p)
    BY <1>0, <1>1, <2>1, <2>2 DEF Counted, Offered, Casting
  <2>4. i <= used.choices BY DEF Choosing, Offered
  <2>5. \A v \in Processes : at'[v].do \in {"check", "cast"} => at'[v].i <= used'.choices
    BY <1>0, <1>1, <2>1, <2>2, <2>4 DEF Choosing
  <2>6. \A p \in People : Counted(p)' # {} =>
          Cardinality(Counted(p)') + Cardinality(Casting(p)') <= Cardinality(Processes)
    BY <2>3, FewerVotes
  <2> QED BY <2>2, <2>5, <2>6 DEF Choosing
<1>3. CASE EditPoll(w) BY <1>1, <1>3, VotesAside DEF EditPoll
<1>4. CASE CheckVotes(w)
  <2>1. at[w] \in VoteJob BY <1>0, <1>4, JobKinds DEF CheckVotes
  <2>2. CASE Counted(at[w].who) # {} BY <1>4, <2>2, VotesAside DEF CheckVotes, Voted, Unasked
  <2>3. CASE Counted(at[w].who) = {}
    <3> DEFINE task == [at[w] EXCEPT !.do = "cast"]
    <3>1. Becomes(w, task) /\ choice' = choice /\ votes' = votes /\ used' = used BY <1>4, <2>3 DEF CheckVotes, Voted
    <3>2. task.do = "cast" /\ task.who = at[w].who /\ task.i = at[w].i BY <2>1 DEF VoteJob
    <3> HIDE DEF task
    <3>3. \A p \in People : Counted(p)' = Counted(p) /\ (p # at[w].who => Casting(p)' \subseteq Casting(p))
      BY <1>0, <3>1, <3>2 DEF Counted, Offered, Casting
    <3>4. \A p \in People : Counted(p)' # {} =>
            Cardinality(Counted(p)') + Cardinality(Casting(p)') <= Cardinality(Processes)
      BY <2>3, <3>3, FewerVotes
    <3>5. at[w].i <= used.choices BY <1>4 DEF CheckVotes, Choosing
    <3>6. \A v \in Processes : at'[v].do \in {"check", "cast"} => at'[v].i <= used'.choices
      BY <1>0, <3>1, <3>2, <3>5 DEF Choosing
    <3> QED BY <3>1, <3>4, <3>6 DEF Choosing
  <2> QED BY <2>2, <2>3
<1>5. CASE Cast(w)
  <2>1. at[w] \in VoteJob BY <1>0, <1>5, JobKinds DEF Cast
  <2>2. /\ at[w].do = "cast" /\ Becomes(w, Unasked) /\ choice' = choice /\ used' = used
        /\ votes' = votes \cup {<<at[w].who, at[w].i>>} /\ at[w].i <= used.choices
    BY <1>5 DEF Cast, Finish, Choosing
  <2>3. at'[w] = Unasked /\ \A v \in Processes : v # w => at'[v] = at[v] BY <1>0, <2>2
  <2>4. \A v \in Processes : at'[v].do \in {"check", "cast"} => at'[v].i <= used'.choices
    BY <2>2, <2>3 DEF Choosing, Unasked
  <2>5. \A p \in People, i \in Choices : <<p, i>> \in votes' => i <= used'.choices BY <2>1, <2>2 DEF Choosing, VoteJob
  <2>6. ASSUME NEW p \in People, p # at[w].who, Counted(p)' # {}
        PROVE  Cardinality(Counted(p)') + Cardinality(Casting(p)') <= Cardinality(Processes)
    <3>1. Counted(p)' \subseteq Counted(p) /\ Casting(p)' \subseteq Casting(p)
      BY <2>2, <2>3, <2>6 DEF Counted, Offered, Casting, Unasked
    <3> QED BY <2>6, <3>1, FewerVotes
  <2>7. ASSUME NEW p \in People, p = at[w].who
        PROVE  Cardinality(Counted(p)') + Cardinality(Casting(p)') <= Cardinality(Processes)
    <3>1. /\ Counted(p)' \subseteq Counted(p) \cup {at[w].i} /\ Counted(p)' \in SUBSET Choices
          /\ Counted(p) \in SUBSET Choices
      BY <2>2 DEF Counted, Offered
    <3>2. /\ Casting(p)' = Casting(p) \ {w} /\ w \in Casting(p) /\ Casting(p) \in SUBSET Processes
      BY <2>2, <2>3, <2>7 DEF Casting, Unasked
    <3>3. Cardinality(Casting(p)') = Cardinality(Casting(p)) - 1 /\ Cardinality(Casting(p)) \in Nat
      BY <3>2, Finite, FS_RemoveElement
    <3>4. /\ Cardinality(Counted(p)') <= Cardinality(Counted(p)) + 1 /\ Cardinality(Counted(p)) \in Nat
          /\ Cardinality(Counted(p)') \in Nat
      <4>1. IsFiniteSet(Counted(p)) /\ Cardinality(Counted(p)) \in Nat /\ Cardinality(Counted(p)') \in Nat
        BY <3>1, Finite
      <4>2. /\ IsFiniteSet(Counted(p) \cup {at[w].i})
            /\ Cardinality(Counted(p) \cup {at[w].i}) <= Cardinality(Counted(p)) + 1
        <5>1. /\ IsFiniteSet(Counted(p) \cup {at[w].i})
              /\ \/ Cardinality(Counted(p) \cup {at[w].i}) = Cardinality(Counted(p))
                 \/ Cardinality(Counted(p) \cup {at[w].i}) = Cardinality(Counted(p)) + 1
          <6> DEFINE S == Counted(p)
                     i == at[w].i
          <6>1. IsFiniteSet(S) BY <4>1
          <6> HIDE DEF S, i
          <6>2. IsFiniteSet(S \cup {i}) /\ Cardinality(S \cup {i}) = IF i \in S THEN Cardinality(S) ELSE Cardinality(S) + 1
            BY <6>1, FS_AddElement
          <6> QED BY <6>2 DEF S, i
        <5> QED BY <4>1, <5>1
      <4>3. Cardinality(Counted(p)') <= Cardinality(Counted(p) \cup {at[w].i}) BY <3>1, <4>2, FS_Subset
      <4> QED BY <4>1, <4>2, <4>3, FS_CardinalityType
    <3>5. Cardinality(Counted(p)) + Cardinality(Casting(p)) <= Cardinality(Processes)
      BY FS_EmptySet, <3>2, Finite DEF Choosing
    <3> QED BY <3>3, <3>4, <3>5, Finite
  <2> QED BY <2>2, <2>4, <2>5, <2>6, <2>7 DEF Choosing
<1>6. CASE Clear(w)
  <2>1. at[w] \in PollJob BY <1>0, <1>6, JobKinds DEF Clear
  <2> DEFINE task == [at[w] EXCEPT !.do = "fill"]
  <2>2. Becomes(w, task) /\ task.do = "fill" /\ used' = used /\ votes' = votes BY <1>6, <2>1 DEF Clear, PollJob
  <2>3. \A i \in Choices : choice'[i] = NoChoice BY <1>6 DEF Clear
  <2>4. \A p : Counted(p)' = {} BY <2>3 DEF Counted, Offered
  <2> HIDE DEF task
  <2>5. \A v \in Processes : at'[v].do \in {"check", "cast"} => at'[v].i <= used'.choices BY <1>0, <2>2 DEF Choosing
  <2> QED BY <2>2, <2>3, <2>4, <2>5 DEF Choosing
<1>7. CASE Fill(w)
  <2>1. at[w] \in PollJob BY <1>0, <1>7, JobKinds DEF Fill
  <2>2. PICK t \in at[w].texts :
          /\ choice' = [choice EXCEPT ![used.choices + 1] = t]
          /\ used' = [used EXCEPT !.choices = @ + 1]
          /\ Becomes(w, IF at[w].texts = {t} THEN Unasked ELSE [at[w] EXCEPT !.texts = @ \ {t}])
    BY <1>7 DEF Fill
  <2>3. used'.choices = used.choices + 1 /\ votes' = votes BY <1>0, <1>7, <2>2 DEF Fill, Counts
  <2>4. at'[w].do \in {"idle", "fill"} /\ \A v \in Processes : v # w => at'[v] = at[v]
    BY <1>7, <2>1, <1>0, <2>2 DEF Fill, PollJob, Unasked
  <2>5. \A i \in Choices : choice'[i] # NoChoice => i <= used'.choices
    BY <1>0, <2>2, <2>3 DEF Choosing, ResponsesTypeOK, Choices
  <2>6. \A p \in People : Counted(p)' \subseteq Counted(p) /\ Casting(p)' \subseteq Casting(p)
    <3>1. \A p \in People : <<p, used.choices + 1>> \in votes => FALSE BY <1>0 DEF Choosing, ResponsesTypeOK, Choices
    <3>2. \A p \in People : Casting(p)' \subseteq Casting(p) BY <2>4 DEF Casting
    <3> QED BY <2>2, <2>3, <3>1, <3>2 DEF Counted, Offered, ResponsesTypeOK
  <2>7. \A p \in People : Counted(p)' # {} =>
          Cardinality(Counted(p)') + Cardinality(Casting(p)') <= Cardinality(Processes)
    BY <2>6, FewerVotes
  <2>8. \A v \in Processes : at'[v].do \in {"check", "cast"} => at'[v].i <= used'.choices
    <3>1. \A v \in Processes : at[v].do \in {"check", "cast"} => at[v].i \in Nat
      BY AtTyped, JobKinds DEF VoteJob, Choices
    <3> QED BY <1>0, <2>3, <2>4, <3>1 DEF Choosing
  <2>9. \A p \in People, i \in Choices : <<p, i>> \in votes' => i <= used'.choices BY <1>0, <2>3 DEF Choosing, Choices
  <2> QED BY <2>5, <2>7, <2>8, <2>9 DEF Choosing
<1> QED BY <1>2, <1>3, <1>4, <1>5, <1>6, <1>7 DEF Polling

LEMMA ChoosingStep ==
  ASSUME ResponsesTypeOK, Choosing, NEW w \in Processes, Ask(w) \/ Statement(w) PROVE Choosing'
BY PollStep, OthersAside, VotesAside

(***************************************************************************)
(* Guests.  While a code stands, whoever made a comment with it is about   *)
(* to spend it; once it is spent nobody else starts.                       *)
(***************************************************************************)
Creating(r) == {w \in Processes : at[w].do = "create" /\ at[w].r = r}
Spending(r) == {w \in Processes : at[w].do = "spend" /\ at[w].r = r}
GuestSteps  == {"create", "spend"}

Coding ==
  /\ \A r \in 1..MaxAsks : made[r] + Cardinality(Creating(r)) <= Cardinality(Processes)
  /\ \A q \in Questions : \A r \in mails[q] :
       /\ made[r] <= Cardinality(Spending(r))
       /\ r <= used.asks
       /\ \A p \in Questions : r \in mails[p] => p = q
       /\ \A w \in Processes : at[w].do \in GuestSteps /\ at[w].r = r => at[w].q = q
  /\ \A r \in 1..MaxAsks : r > used.asks => made[r] = 0
  /\ \A w \in Processes : at[w].do \in GuestSteps => at[w].r <= used.asks

Confirming(w) == AskByMail(w) \/ Confirm(w) \/ CreateForGuest(w) \/ Spend(w)

LEMMA GuestTypes ==
  ASSUME ResponsesTypeOK
  PROVE  /\ used \in Counts /\ used.asks \in Nat /\ mails \in [Questions -> SUBSET (1..MaxAsks)]
         /\ \A r \in 1..MaxAsks : made[r] \in Nat
         /\ \A r : Creating(r) \in SUBSET Processes /\ Spending(r) \in SUBSET Processes
         /\ \A w \in Processes : at[w] \in Job /\ (at[w].do \in GuestSteps => at[w] \in GuestJob)
BY AtTyped, JobKinds, ConstantsType DEF ResponsesTypeOK, Counts, Creating, Spending, GuestSteps

\* A step that neither asks for a code, nor uses one.
LEMMA GuestsAside ==
  ASSUME ResponsesTypeOK, Coding, NEW w \in Processes, at[w].do \notin GuestSteps, NEW task, Becomes(w, task),
         task.do \notin GuestSteps, mails' = mails, made' = made,
         used'.asks \in Nat, used'.asks >= used.asks
  PROVE  Coding'
<1>1. at'[w] = task /\ \A v \in Processes : v # w => at'[v] = at[v] BY DEF Becomes, ResponsesTypeOK
<1>2. \A r : Creating(r)' = Creating(r) /\ Spending(r)' = Spending(r) BY <1>1 DEF Creating, Spending, GuestSteps
<1>3. \A v \in Processes : at'[v].do \in GuestSteps => at[v].do \in GuestSteps /\ at'[v] = at[v] BY <1>1
<1>4. \A v \in Processes : at'[v].do \in GuestSteps => at'[v].r <= used'.asks
  BY GuestTypes, <1>3 DEF Coding, GuestJob
<1>5. \A r \in 1..MaxAsks : r > used'.asks => made'[r] = 0 BY GuestTypes DEF Coding
<1>6. \A q \in Questions : \A r \in mails'[q] :
        /\ made'[r] <= Cardinality(Spending(r)')
        /\ r <= used'.asks
        /\ \A p \in Questions : r \in mails'[p] => p = q
        /\ \A v \in Processes : at'[v].do \in GuestSteps /\ at'[v].r = r => at'[v].q = q
  BY <1>2, GuestTypes, <1>3 DEF Coding
<1> QED BY <1>2, <1>4, <1>5, <1>6 DEF Coding

LEMMA NotGuests ==
  ASSUME ResponsesTypeOK, NEW w \in Processes, Ask(w) \/ Statement(w), ~Confirming(w)
  PROVE  /\ at[w].do \notin GuestSteps
         /\ \E task : Becomes(w, task) /\ task.do \notin GuestSteps
         /\ mails' = mails /\ made' = made /\ used'.asks \in Nat /\ used'.asks >= used.asks
<1>0. at[w] \in Job /\ used \in Counts /\ used.asks \in Nat BY GuestTypes
<1> USE DEF GuestSteps
<1>1. \A task : Arrives(w, task) =>
        Becomes(w, task) /\ used'.asks = used.asks + 1 /\ at[w].do = "idle"
  BY <1>0 DEF Arrives, Counts, Unasked
<1>2. \A on, by : NewComment(on, by) => used'.asks = used.asks BY <1>0 DEF NewComment, Counts
<1>3. CASE AddComment(w) BY <1>0, <1>1, <1>3 DEF AddComment
<1>4. CASE SetFollow(w) BY <1>0, <1>1, <1>4 DEF SetFollow
<1>5. CASE EditQuestion(w) \/ ToggleClosed(w) \/ ToggleBest(w)
  <2>1. PICK q, copy : Change(w, q, copy) BY <1>5 DEF EditQuestion, ToggleClosed, ToggleBest
  <2> QED BY <1>0, <1>1, <2>1 DEF Change
<1>6. CASE DeleteQuestion(w) BY <1>0, <1>1, <1>6 DEF DeleteQuestion, Unasked
<1>7. CASE EditComment(w) BY <1>0, <1>1, <1>7 DEF EditComment
<1>8. CASE DeleteComment(w)
  BY <1>8, <1>0, <1>1 DEF DeleteComment
<1>9. CASE Vote(w) BY <1>0, <1>1, <1>9 DEF Vote
<1>10. CASE EditPoll(w) BY <1>0, <1>1, <1>10 DEF EditPoll
<1>11. CASE Insert(w)
  <2>1. at[w] \in ChatJob BY <1>0, <1>11, JobKinds DEF Insert, ChatSteps
  <2> DEFINE task == [at[w] EXCEPT !.c = used.comments + 1, !.do = IF at[w].on \in Questions THEN "touch" ELSE "root"]
  <2>2. task.do \in {"touch", "root"} BY <2>1 DEF ChatJob
  <2>3. Becomes(w, task) BY <1>11 DEF Insert
  <2> HIDE DEF task
  <2> QED BY <1>0, <1>2, <1>11, <2>2, <2>3 DEF Insert
<1>12. CASE LoadRoot(w) \/ Touch(w) \/ Follow(w) \/ Subscribe(w)
  <2>1. at[w] \in ChatJob BY <1>0, <1>12, JobKinds DEF LoadRoot, Touch, Follow, Subscribe, ChatSteps
  <2>2. /\ [at[w] EXCEPT !.do = "touch", !.copy = question[at[w].q]].do = "touch"
        /\ [at[w] EXCEPT !.do = "follow"].do = "follow" /\ [at[w] EXCEPT !.do = "link"].do = "link"
        /\ Tells(w).do \in {"idle", "tell"} /\ Unasked.do = "idle"
    BY <2>1 DEF ChatJob, Tells, Unasked
  <2>3. /\ LoadRoot(w) => Becomes(w, [at[w] EXCEPT !.do = "touch", !.copy = question[at[w].q]]) \/ Becomes(w, Unasked)
        /\ Touch(w) => Becomes(w, [at[w] EXCEPT !.do = "follow"]) \/ Becomes(w, Unasked)
        /\ Follow(w) => Becomes(w, [at[w] EXCEPT !.do = "link"]) \/ Becomes(w, Tells(w))
        /\ Subscribe(w) => Becomes(w, Tells(w)) \/ Becomes(w, Unasked)
    BY DEF LoadRoot, Touch, Follow, Subscribe, Finish
  <2>4. mails' = mails /\ made' = made /\ used' = used /\ at[w].do \in ChatSteps
    BY <1>12 DEF LoadRoot, Touch, Follow, Subscribe, ChatSteps
  <2>5. \E task : Becomes(w, task) /\ task.do \notin {"create", "spend"}
    BY <1>12, <2>2, <2>3
  <2>6. at[w].do \notin {"create", "spend"} BY <2>4 DEF ChatSteps
  <2> QED BY <1>0, <2>4, <2>5, <2>6
<1>13. CASE Tell(w) \/ Unfollow(w) \/ SaveQuestion(w) \/ WriteComment(w) \/ Cast(w)
  BY <1>0, <1>13 DEF Tell, Unfollow, SaveQuestion, WriteComment, Cast, Finish, Unasked
<1>14. CASE DropComment(w)
  BY <1>14, <1>0 DEF DropComment, Unasked
<1>15. CASE CheckVotes(w)
  BY <1>0, <1>15, JobKinds DEF CheckVotes, VoteJob, Unasked
<1>16. CASE Clear(w) \/ Fill(w)
  <2>1. at[w] \in PollJob BY <1>0, <1>16, JobKinds DEF Clear, Fill
  <2>2. \E task : Becomes(w, task) /\ task.do \in {"idle", "fill"}
    <3>1. [at[w] EXCEPT !.do = "fill"].do = "fill" /\ Unasked.do = "idle" BY <2>1 DEF PollJob, Unasked
    <3>2. Fill(w) => \A S : [at[w] EXCEPT !.texts = S].do = "fill" BY <2>1 DEF PollJob, Fill
    <3>3. CASE Clear(w) BY <3>1, <3>3 DEF Clear
    <3>4. CASE Fill(w)
      BY <3>4, <3>1, <3>2 DEF Fill
    <3> QED BY <1>16, <3>3, <3>4
  <2>3. mails' = mails /\ made' = made /\ used'.asks = used.asks /\ at[w].do \in {"clear", "fill"}
    BY <1>0, <1>16 DEF Clear, Fill, Counts
  <2> QED BY <1>0, <2>2, <2>3
<1> QED
  BY <1>3, <1>4, <1>5, <1>6, <1>7, <1>8, <1>9, <1>10, <1>11, <1>12, <1>13, <1>14, <1>15, <1>16
     DEF Ask, Statement, Confirming

LEMMA GuestStep ==
  ASSUME ResponsesTypeOK, Coding, NEW w \in Processes, Confirming(w)
  PROVE  Coding'
<1> USE GuestTypes, Finite DEF GuestSteps
<1>0. /\ \A task : Becomes(w, task) => at'[w] = task /\ \A v \in Processes : v # w => at'[v] = at[v]
      /\ \A v \in Processes : at[v].do \in GuestSteps => at[v].r \in 1..MaxAsks /\ at[v].q \in Questions
  BY DEF ResponsesTypeOK, Becomes, GuestJob
<1>1. \A task : Arrives(w, task) => Becomes(w, task) /\ used'.asks = used.asks + 1 /\ at[w] = Unasked
  BY DEF Arrives, Counts
<1>2. CASE AskByMail(w)
  <2>1. PICK q \in Questions : Arrives(w, Unasked) /\ mails' = [mails EXCEPT ![q] = @ \cup {used.asks + 1}]
    BY <1>2 DEF AskByMail
  <2> DEFINE n == used.asks + 1
  <2>2. at' = at /\ made' = made /\ used'.asks = n /\ n \in 1..MaxAsks
    <3>1. at' = at BY <1>1, <2>1 DEF Becomes, ResponsesTypeOK
    <3> QED BY <1>1, <1>2, <2>1, <3>1, ArrivesType, UnaskedType DEF AskByMail
  <2>3. \A r : Creating(r)' = Creating(r) /\ Spending(r)' = Spending(r) BY <2>2 DEF Creating, Spending
  <2>4. \A p \in Questions : mails'[p] = IF p = q THEN mails[p] \cup {n} ELSE mails[p] BY <2>1
  <2>5. \A p \in Questions : \A r \in mails[p] : r <= used.asks /\ r \in 1..MaxAsks /\ r # n BY DEF Coding
  <2>6. made[n] = 0 /\ \A v \in Processes : at[v].do \in GuestSteps => at[v].r # n BY <1>0, <2>2 DEF Coding
  <2>7. \A p \in Questions : \A r \in mails'[p] :
          /\ made'[r] <= Cardinality(Spending(r)')
          /\ r <= used'.asks
          /\ \A x \in Questions : r \in mails'[x] => x = p
          /\ \A v \in Processes : at'[v].do \in GuestSteps /\ at'[v].r = r => at'[v].q = p
    <3> SUFFICES ASSUME NEW p \in Questions, NEW r \in mails'[p]
                 PROVE  /\ made[r] <= Cardinality(Spending(r))
                        /\ r <= n
                        /\ \A x \in Questions : r \in mails'[x] => x = p
                        /\ \A v \in Processes : at[v].do \in GuestSteps /\ at[v].r = r => at[v].q = p
      BY <2>2, <2>3
    <3>1. CASE r = n
      <4>1. p = q /\ \A x \in Questions : r \in mails'[x] => x = q BY <2>4, <2>5, <3>1
      <4> QED BY <2>6, <3>1, <4>1
    <3>2. CASE r # n
      <4>1. r \in mails[p] /\ \A x \in Questions : r \in mails'[x] => r \in mails[x] BY <2>4, <3>2
      <4>2. r <= n BY <2>5, <4>1
      <4> QED BY <4>1, <4>2 DEF Coding
    <3> QED BY <3>1, <3>2
  <2>8. \A r \in 1..MaxAsks : r > used'.asks => made'[r] = 0 BY <2>2 DEF Coding
  <2>9. \A v \in Processes : at'[v].do \in GuestSteps => at'[v].r <= used'.asks BY <1>0, <2>2 DEF Coding
  <2> QED BY <2>2, <2>3, <2>7, <2>8, <2>9 DEF Coding
<1>3. CASE Confirm(w)
  <2>1. PICK q \in Questions : \E r \in mails[q] : Arrives(w, [do |-> "create", q |-> q, r |-> r]) BY <1>3 DEF Confirm
  <2>2. PICK c \in mails[q] : Arrives(w, [do |-> "create", q |-> q, r |-> c]) BY <2>1
  <2>3. /\ at'[w] = [do |-> "create", q |-> q, r |-> c] /\ at[w].do = "idle"
        /\ \A v \in Processes : v # w => at'[v] = at[v]
        /\ mails' = mails /\ made' = made /\ used'.asks = used.asks + 1 /\ c \in 1..MaxAsks
    BY <1>0, <1>1, <1>3, <2>2 DEF Confirm, Unasked
  <2>4. \A r : Spending(r)' = Spending(r) /\ (r # c => Creating(r)' = Creating(r)) BY <2>3 DEF Creating, Spending
  <2>5. made[c] + Cardinality(Creating(c)') <= Cardinality(Processes)
    <3>1. made[c] <= Cardinality(Spending(c)) BY DEF Coding
    <3>2. Creating(c)' \cap Spending(c) = {} /\ Creating(c)' \in SUBSET Processes BY <2>3 DEF Creating, Spending
    <3>3. /\ Creating(c)' \cup Spending(c) \in SUBSET Processes
          /\ IsFiniteSet(Creating(c)') /\ IsFiniteSet(Spending(c))
      BY <3>2
    <3>4. Cardinality(Creating(c)' \cup Spending(c)) = Cardinality(Creating(c)') + Cardinality(Spending(c))
      <4> DEFINE S == Creating(c)'
                 T == Spending(c)
      <4>1. IsFiniteSet(S) /\ IsFiniteSet(T) /\ S \cap T = {} BY <3>2, <3>3
      <4> HIDE DEF S, T
      <4>2. Cardinality(S \cup T) = Cardinality(S) + Cardinality(T) - Cardinality(S \cap T) BY <4>1, FS_Union
      <4>3. Cardinality(S \cap T) = 0 /\ Cardinality(S) \in Nat /\ Cardinality(T) \in Nat
        BY <4>1, FS_EmptySet, FS_CardinalityType
      <4> QED BY <4>2, <4>3 DEF S, T
    <3>5. Cardinality(Creating(c)' \cup Spending(c)) <= Cardinality(Processes) BY <3>3
    <3>6. Cardinality(Creating(c)') \in Nat /\ Cardinality(Spending(c)) \in Nat /\ made[c] \in Nat BY <2>3, <3>2
    <3> QED BY <3>1, <3>4, <3>5, <3>6
  <2>6. \A p \in Questions : \A r \in mails[p] :
          /\ made[r] <= Cardinality(Spending(r)) /\ r <= used'.asks
          /\ \A v \in Processes : at'[v].do \in GuestSteps /\ at'[v].r = r => at'[v].q = p
    BY <2>3 DEF Coding
  <2>7. \A r \in 1..MaxAsks : r > used'.asks => made[r] = 0 BY <2>3 DEF Coding
  <2>8. \A v \in Processes : at'[v].do \in GuestSteps => at'[v].r <= used'.asks BY <1>0, <2>3 DEF Coding
  <2> QED BY <2>3, <2>4, <2>5, <2>6, <2>7, <2>8 DEF Coding
<1>4. CASE CreateForGuest(w)
  <2>1. at[w] \in GuestJob /\ at[w].do = "create" BY <1>4 DEF CreateForGuest
  <2> DEFINE c == at[w].r
  <2>2. /\ at'[w] = [at[w] EXCEPT !.do = "spend"]
        /\ \A v \in Processes : v # w => at'[v] = at[v]
        /\ mails' = mails /\ made' = [made EXCEPT ![c] = @ + 1] /\ used'.asks = used.asks /\ c \in 1..MaxAsks
    BY <1>0, <1>4, <2>1 DEF CreateForGuest, NewComment, Counts
  <2>3. at'[w].do = "spend" /\ at'[w].r = c /\ at'[w].q = at[w].q BY <2>1, <2>2 DEF GuestJob
  <2>4. /\ \A r : Spending(r)' = (IF r = c THEN Spending(r) \cup {w} ELSE Spending(r))
        /\ \A r : Creating(r)' = (IF r = c THEN Creating(r) \ {w} ELSE Creating(r))
        /\ w \notin Spending(c) /\ w \in Creating(c)
    BY <2>1, <2>2, <2>3, ZenonT(30) DEF Creating, Spending
  <2>5. ASSUME NEW r, r = c
        PROVE  /\ Cardinality(Spending(r)') = Cardinality(Spending(r)) + 1
               /\ Cardinality(Creating(r)') = Cardinality(Creating(r)) - 1
               /\ Cardinality(Spending(r)) \in Nat /\ Cardinality(Creating(r)) \in Nat
    <3> DEFINE S == Spending(r)
               T == Creating(r)
    <3>1. S \in SUBSET Processes /\ T \in SUBSET Processes OBVIOUS
    <3>2. IsFiniteSet(S) /\ w \notin S /\ IsFiniteSet(T) /\ w \in T /\ Cardinality(S) \in Nat /\ Cardinality(T) \in Nat
      BY <2>4, <2>5, <3>1
    <3>3. Spending(r)' = S \cup {w} /\ Creating(r)' = T \ {w} BY <2>4, <2>5
    <3> HIDE DEF S, T
    <3>4. Cardinality(S \cup {w}) = Cardinality(S) + 1 BY <3>2, FS_AddElement
    <3>5. Cardinality(T \ {w}) = Cardinality(T) - 1 BY <3>2, FS_RemoveElement
    <3> QED BY <3>2, <3>3, <3>4, <3>5 DEF S, T
  <2>6. \A r \in 1..MaxAsks : made'[r] = IF r = c THEN made[r] + 1 ELSE made[r] BY <2>2 DEF ResponsesTypeOK
  <2> HIDE DEF c
  <2>7. ASSUME NEW r \in 1..MaxAsks PROVE made'[r] + Cardinality(Creating(r)') <= Cardinality(Processes)
    BY <2>5, <2>6, <2>4 DEF Coding
  <2>8. ASSUME NEW p \in Questions, NEW r \in mails[p] PROVE made'[r] <= Cardinality(Spending(r)')
    BY <2>5, <2>6, <2>4 DEF Coding
  <2>9. \A v \in Processes : at'[v].do \in GuestSteps =>
          at[v].do \in GuestSteps /\ at'[v].r = at[v].r /\ at'[v].q = at[v].q
    BY <2>1, <2>2, <2>3 DEF c
  <2>10. \A r \in 1..MaxAsks : r > used'.asks => made'[r] = 0 BY <2>1, <2>2, <2>6 DEF Coding, c
  <2> QED BY <2>2, <2>7, <2>8, <2>9, <2>10 DEF Coding
<1>5. CASE Spend(w)
  <2>1. at[w] \in GuestJob /\ at[w].do = "spend" BY <1>5 DEF Spend
  <2> DEFINE c == at[w].r
  <2>2. /\ at'[w] = Unasked /\ \A v \in Processes : v # w => at'[v] = at[v]
        /\ mails' = [mails EXCEPT ![at[w].q] = @ \ {c}] /\ made' = made /\ used' = used
    BY <1>0, <1>5 DEF Spend, Finish
  <2>3. \A r : Creating(r)' = Creating(r) /\ (r # c => Spending(r)' = Spending(r))
    BY <2>1, <2>2 DEF Creating, Spending, Unasked
  <2>4. \A p \in Questions : mails'[p] \subseteq mails[p] /\ c \notin mails'[p] BY <1>0, <2>1, <2>2 DEF Coding
  <2>5. \A v \in Processes : at'[v].do \in GuestSteps => at'[v] = at[v] BY <2>2 DEF Unasked
  <2> HIDE DEF c
  <2> QED BY <2>2, <2>3, <2>4, <2>5 DEF Coding
<1> QED BY <1>2, <1>3, <1>4, <1>5 DEF Confirming

LEMMA CodingStep ==
  ASSUME ResponsesTypeOK, Coding, NEW w \in Processes, Ask(w) \/ Statement(w) PROVE Coding'
BY GuestStep, NotGuests, GuestsAside

(***************************************************************************)
(* Requests served one after the other.  At most one process has something *)
(* to do, and what it holds is what is there.                              *)
(***************************************************************************)
\* q is the post that comment c is about.
Home(c, q) ==
  \/ comment[c].on = q
  \/ comment[c].on \in Ids /\ comment[comment[c].on].there /\ comment[comment[c].on].on = q

Anchored == \A c \in Ids : comment[c].there => \E q \in Questions : question[q].there /\ Home(c, q)
Distinct == \A i, j \in Offered : choice[i] = choice[j] => i = j
Settled(c) == c \in told /\ \A q \in Questions : Home(c, q) => question[q].last >= c
Underway(w, c) == at[w].do \in {"root", "touch", "follow", "link", "tell"} /\ at[w].c = c
Pending == \A c \in Ids : comment[c].there /\ comment[c].by \in People =>
             Settled(c) \/ \E w \in Processes : Underway(w, c)

\* What the one process that is at work holds.
Fits(w) ==
  LET j == at[w]
  IN  /\ j.do \in ChatSteps \cup {"save", "create"} => question[j.q].there
      /\ j.do = "insert" => j.copy = question[j.q] /\ (j.on = j.q \/ j.on \in Answers(j.q))
      /\ j.do \in {"root", "touch", "follow", "link", "tell"} /\ j.c # 0 => Home(j.c, j.q)
      /\ j.do = "touch" => j.copy = question[j.q]
      /\ j.do \in {"follow", "link", "tell"} /\ j.c # 0 => question[j.q].last >= j.c
      /\ j.do = "link" => <<j.who, j.q>> \notin followers
      /\ j.do = "save" => j.copy.there /\ j.copy.last = question[j.q].last
      /\ j.do = "drop" /\ j.copy.there => question[j.q].there /\ j.copy.last = question[j.q].last
      /\ j.do = "write" => comment[j.c] = [there |-> TRUE, on |-> j.on, by |-> j.by]
      /\ j.do = "fill" => \A i \in Offered : choice[i] \notin j.texts

Others(w) == \A v \in Processes : v # w => at[v] = Unasked
Order(w) == Anchored /\ Distinct /\ Pending /\ Fits(w)
Orderly ==
  ~overlap => /\ Anchored /\ Distinct /\ Pending
              /\ \A w \in Processes : Fits(w) /\ (at[w] # Unasked => Others(w))

LEMMA IdleFits == ASSUME NEW w, at[w] = Unasked PROVE Fits(w)
BY DEF Fits, Unasked, ChatSteps

LEMMA HomeIsOne ==
  ASSUME NEW c, NEW p \in Questions, NEW q \in Questions, Home(c, p), Home(c, q)
  PROVE  p = q
BY ConstantsType DEF Home

\* Nothing is about a comment of the only process, but what that one is about to do.
LEMMA NobodyElse ==
  ASSUME Pending, NEW w \in Processes, Others(w), NEW c \in Ids, comment[c].there, comment[c].by \in People
  PROVE  Settled(c) \/ Underway(w, c)
BY DEF Pending, Underway, Others, Unasked

\* The rows that say where a comment belongs stay, and so does what was settled.
LEMMA RowsStay ==
  ASSUME UNCHANGED <<question, comment, told, choice>>
  PROVE  /\ Anchored' <=> Anchored
         /\ Distinct' <=> Distinct
         /\ \A c, q : Home(c, q)' <=> Home(c, q)
         /\ \A c \in Ids : Settled(c)' <=> Settled(c)
BY DEF Anchored, Distinct, Home, Settled, Offered

\* A process takes a task; it had none that was to announce a comment.
LEMMA JobTaken ==
  ASSUME ResponsesTypeOK, NEW w \in Processes, Order(w), Others(w), Others(w)',
         UNCHANGED <<question, comment, told, choice>>, \A c : ~Underway(w, c), Fits(w)'
  PROVE  Order(w)'
BY RowsStay, NobodyElse DEF Order, Pending

\* Rows of questions change in what the order does not depend on.
LEMMA QuestionsStay ==
  ASSUME ResponsesTypeOK, UNCHANGED <<comment, told, choice>>,
         \A q \in Questions : question[q].there => question'[q].there /\ question'[q].last >= question[q].last,
         \A q \in Questions : question'[q] \in Question
  PROVE  /\ Anchored => Anchored'
         /\ Distinct => Distinct'
         /\ \A c, q : Home(c, q)' <=> Home(c, q)
         /\ \A c \in Ids : Anchored /\ comment[c].there /\ Settled(c) => Settled(c)'
<1>1. \A c, q : Home(c, q)' <=> Home(c, q) BY DEF Home
<1>2. Anchored => Anchored' BY <1>1 DEF Anchored
<1>3. Distinct => Distinct' BY DEF Distinct, Offered
<1>4. ASSUME NEW c \in Ids, Anchored, comment[c].there, Settled(c) PROVE Settled(c)'
  <2>1. PICK q \in Questions : question[q].there /\ Home(c, q) BY <1>4 DEF Anchored
  <2>2. \A p \in Questions : Home(c, p) => p = q BY <2>1, HomeIsOne
  <2>3. question[q].last >= c /\ question'[q].last >= question[q].last BY <1>4, <2>1 DEF Settled
  <2>4. question[q].last \in Nat /\ question'[q].last \in Nat /\ c \in Nat
    BY QuestionTyped, ConstantsType DEF Question
  <2>5. question'[q].last >= c BY <2>3, <2>4
  <2> QED BY <1>1, <1>4, <2>2, <2>5 DEF Settled
<1> QED BY <1>1, <1>2, <1>3, <1>4

\* Comments that go, go with their replies: what is left keeps its place.
LEMMA HomesStay ==
  ASSUME ResponsesTypeOK, Anchored, NEW cs \in SUBSET Ids, Remove(Thread(cs)),
         NEW c \in Ids, comment'[c].there
  PROVE  comment[c].there /\ comment'[c] = comment[c] /\ \A q \in Questions : Home(c, q)' <=> Home(c, q)
<1>1. comment[c].there /\ comment'[c] = comment[c] /\ c \notin Thread(cs) BY RemoveType
<1>2. \A d \in Ids : comment'[d].there => comment'[d] = comment[d] BY RemoveType
<1>3. ASSUME NEW q \in Questions, Home(c, q) PROVE Home(c, q)'
  <2>1. CASE comment[c].on = q BY <1>1, <2>1 DEF Home
  <2>2. CASE comment[c].on \in Ids /\ comment[comment[c].on].there /\ comment[comment[c].on].on = q
    <3> DEFINE d == comment[c].on
    <3>1. d \notin cs BY <1>1 DEF Thread, Replies
    <3>2. d \notin Replies(cs) BY <2>2, ConstantsType DEF Replies
    <3>3. d \notin Thread(cs) BY <3>1, <3>2 DEF Thread
    <3>4. comment'[d] = comment[d] BY <2>2, <3>3, RemoveType
    <3> QED BY <1>1, <2>2, <3>4 DEF Home
  <2> QED BY <1>3, <2>1, <2>2 DEF Home
<1>4. ASSUME NEW q \in Questions, Home(c, q)' PROVE Home(c, q) BY <1>1, <1>2, <1>4 DEF Home
<1> QED BY <1>1, <1>3, <1>4

\* A comment that is added changes nothing for the others.
LEMMA HomesKept ==
  ASSUME ResponsesTypeOK, NEW on \in Questions \cup Ids, NEW by \in People \cup {Guest}, NewComment(on, by),
         NEW c \in Ids, comment[c].there
  PROVE  /\ comment'[c] = comment[c] /\ c # used.comments + 1
         /\ \A q \in Questions : Home(c, q) => Home(c, q)'
         /\ Anchored => \A q \in Questions : Home(c, q)' => Home(c, q)
<1>1. \A d \in Ids : comment[d].there => d # used.comments + 1 /\ comment'[d] = comment[d]
  <2>1. \A d \in Ids : comment[d].there => d <= used.comments /\ d \in Nat /\ used.comments \in Nat
    BY ConstantsType DEF ResponsesTypeOK
  <2>2. \A d \in Ids : comment[d].there => d # used.comments + 1 BY <2>1
  <2> QED BY <2>2, NewCommentType
<1>2. \A q \in Questions : Home(c, q) => Home(c, q)' BY <1>1 DEF Home
<1>3. ASSUME Anchored, NEW q \in Questions, Home(c, q)' PROVE Home(c, q)
  BY <1>3, <1>2, ConstantsType DEF Anchored, Home
<1> QED BY <1>1, <1>2, <1>3

LEMMA AskOrder ==
  ASSUME IInv, NEW w \in Processes, Ask(w), Order(w), Others(w), Others(w)'
  PROVE  Order(w)'
<1>0. ResponsesTypeOK /\ \A q \in Questions : question[q] \in Question BY QuestionTyped DEF IInv
<1>1. \A task : Arrives(w, task) => at[w] = Unasked /\ at'[w] = task BY <1>0 DEF Arrives, Becomes, ResponsesTypeOK
<1>2. at[w] = Unasked => \A c : ~Underway(w, c) BY DEF Underway, Unasked
<1>3. CASE AddComment(w)
  <2>1. PICK who \in People, q \in Questions : \E on \in {q} \cup Answers(q) :
          question[q].there /\ Arrives(w, [do |-> "insert", who |-> who, on |-> on, c |-> 0, q |-> q, copy |-> question[q]])
    BY <1>3 DEF AddComment
  <2>2. PICK on \in {q} \cup Answers(q) :
          question[q].there /\ Arrives(w, [do |-> "insert", who |-> who, on |-> on, c |-> 0, q |-> q, copy |-> question[q]])
    BY <2>1
  <2>3. at'[w] = [do |-> "insert", who |-> who, on |-> on, c |-> 0, q |-> q, copy |-> question[q]] BY <1>1, <2>2
  <2>4. UNCHANGED <<question, comment, told, choice>> /\ question[q].there /\ (on = q \/ on \in Answers(q))
    BY <1>3, <2>2 DEF AddComment
  <2>5. Fits(w)' BY <2>3, <2>4 DEF Fits, Answers, ChatSteps
  <2> QED BY <1>0, <1>1, <1>2, <2>2, <2>4, <2>5, JobTaken
<1>4. CASE SetFollow(w)
  <2>1. PICK who \in People, q \in Questions :
          /\ question[q].there
          /\ Arrives(w, [do |-> IF <<who, q>> \in followers THEN "unfollow" ELSE "follow",
                         who |-> who, on |-> q, c |-> 0, q |-> q, copy |-> question[q]])
    BY <1>4 DEF SetFollow
  <2>2. at'[w] = [do |-> IF <<who, q>> \in followers THEN "unfollow" ELSE "follow",
                  who |-> who, on |-> q, c |-> 0, q |-> q, copy |-> question[q]]
    BY <1>1, <2>1
  <2>3. UNCHANGED <<question, comment, told, choice>> BY <1>4 DEF SetFollow
  <2>4. Fits(w)' BY <2>1, <2>2, <2>3 DEF Fits, ChatSteps
  <2> QED BY <1>0, <1>1, <1>2, <2>1, <2>3, <2>4, JobTaken
<1>5. CASE EditQuestion(w) \/ ToggleClosed(w) \/ ToggleBest(w)
  <2>1. \A q \in Questions : \A c : /\ [question[q] EXCEPT !.closed = ~@].last = question[q].last
                                  /\ [question[q] EXCEPT !.closed = ~@].there = question[q].there
                                  /\ [question[q] EXCEPT !.best = c].last = question[q].last
                                  /\ [question[q] EXCEPT !.best = c].there = question[q].there
    BY <1>0 DEF Question
  <2>2. \E q \in Questions : \E copy :
          Change(w, q, copy) /\ copy.last = question[q].last /\ copy.there = question[q].there
    <3>1. CASE EditQuestion(w) BY <3>1 DEF EditQuestion
    <3>2. CASE ToggleClosed(w) BY <2>1, <3>2 DEF ToggleClosed
    <3>3. CASE ToggleBest(w)
      <4>1. PICK q, c : /\ q \in Questions
                        /\ Change(w, q, [question[q] EXCEPT !.best = IF question[q].best = c THEN 0 ELSE c])
        BY <3>3 DEF ToggleBest
      <4> DEFINE best == IF question[q].best = c THEN 0 ELSE c
      <4>2. q \in Questions /\ Change(w, q, [question[q] EXCEPT !.best = best]) BY <4>1
      <4> HIDE DEF best
      <4>3. /\ [question[q] EXCEPT !.best = best].last = question[q].last
            /\ [question[q] EXCEPT !.best = best].there = question[q].there
        BY <2>1
      <4> QED BY <4>2, <4>3
    <3> QED BY <1>5, <3>1, <3>2, <3>3
  <2>3. PICK q, copy :
          q \in Questions /\ Change(w, q, copy) /\ copy.last = question[q].last /\ copy.there = question[q].there
    BY <2>2
  <2>4. /\ at'[w] = [do |-> "save", q |-> q, copy |-> copy] /\ at[w] = Unasked
        /\ UNCHANGED <<question, comment, told, choice>> /\ question[q].there
    BY <1>1, <2>3 DEF Change
  <2>5. question'[q].there /\ copy.there /\ copy.last = question'[q].last BY <2>3, <2>4
  <2>6. /\ at'[w].do = "save" /\ at'[w].q = q /\ at'[w].copy = copy BY <2>4
  <2>7. Fits(w)' BY <2>5, <2>6 DEF Fits, ChatSteps
  <2> QED BY <1>0, <1>2, <2>4, <2>7, JobTaken
<1>6. CASE DeleteQuestion(w)
  <2>1. PICK q \in Questions :
          /\ Arrives(w, Unasked)
          /\ question' = [question EXCEPT ![q] = NoQuestion]
          /\ Remove(Thread(Answers(q)))
    BY <1>6 DEF DeleteQuestion
  <2>2. at[w] = Unasked /\ at'[w] = Unasked /\ told' = told /\ choice' = choice BY <1>1, <1>6, <2>1 DEF DeleteQuestion
  <2>3. Fits(w)' BY <2>2 DEF Fits, Unasked, ChatSteps
  <2>4. ASSUME NEW c \in Ids, comment'[c].there
        PROVE  /\ comment[c].there /\ comment'[c] = comment[c]
               /\ \E p \in Questions : question[p].there /\ Home(c, p)' /\ p # q
               /\ \A p \in Questions : Home(c, p)' => Home(c, p) /\ p # q
    <3>1. Answers(q) \in SUBSET Ids BY DEF Answers
    <3>2. comment[c].there /\ comment'[c] = comment[c] /\ \A p \in Questions : Home(c, p)' <=> Home(c, p)
      BY <1>0, <2>1, <2>4, <3>1, HomesStay DEF Order
    <3>3. c \notin Answers(q) /\ c \notin Replies(Answers(q)) BY <1>0, <2>1, <2>4, RemoveType DEF Thread
    <3>4. ~Home(c, q) BY <3>2, <3>3 DEF Home, Answers, Replies
    <3> QED BY <3>2, <3>4 DEF Order, Anchored
  <2>5. \A p \in Questions : p # q => question'[p] = question[p] BY <1>0, <2>1 DEF ResponsesTypeOK
  <2>6. Anchored' BY <2>4, <2>5 DEF Anchored
  <2>7. Distinct' BY <2>2 DEF Order, Distinct, Offered
  <2>8. ASSUME NEW c \in Ids, comment'[c].there, comment'[c].by \in People
        PROVE  Settled(c)'
    <3>1. comment[c].there /\ comment[c].by \in People BY <2>4, <2>8
    <3>2. Settled(c) BY <1>2, <2>2, <3>1, NobodyElse DEF Order
    <3> QED BY <2>2, <2>4, <2>5, <2>8, <3>2 DEF Settled
  <2> QED BY <2>3, <2>6, <2>7, <2>8 DEF Order, Pending
<1>7. CASE EditComment(w)
  <2>1. PICK c \in Ids : comment[c].there
                        /\ Arrives(w, [do |-> "write", c |-> c, on |-> comment[c].on, by |-> comment[c].by])
    BY <1>7 DEF EditComment
  <2>2. /\ at'[w] = [do |-> "write", c |-> c, on |-> comment[c].on, by |-> comment[c].by]
        /\ UNCHANGED <<question, comment, told, choice>> /\ at[w] = Unasked
    BY <1>1, <1>7, <2>1 DEF EditComment
  <2>3. comment[c] = [there |-> TRUE, on |-> comment[c].on, by |-> comment[c].by]
    <3>1. comment[c] \in CommentRow /\ Gone.there = FALSE BY <1>0 DEF ResponsesTypeOK, Gone
    <3> QED BY <2>1, <3>1 DEF CommentRow
  <2>4. Fits(w)' BY <2>2, <2>3 DEF Fits, ChatSteps
  <2> QED BY <1>0, <1>2, <2>2, <2>4, JobTaken
<1>8. CASE DeleteComment(w)
  <2>1. PICK c \in Ids, q \in Questions :
          /\ comment[c].there /\ (OnPost(c) \/ OnReply(c) => q = Root(c))
          /\ Arrives(w, [do |-> "drop", c |-> c, q |-> q,
                         copy |-> IF OnPost(c) \/ OnReply(c) THEN question[q] ELSE NoQuestion])
    BY <1>8 DEF DeleteComment
  <2>2. /\ at'[w] = [do |-> "drop", c |-> c, q |-> q,
                     copy |-> IF OnPost(c) \/ OnReply(c) THEN question[q] ELSE NoQuestion]
        /\ UNCHANGED <<question, comment, told, choice>> /\ at[w] = Unasked
    BY <1>1, <1>8, <2>1 DEF DeleteComment
  <2>3. (IF OnPost(c) \/ OnReply(c) THEN question[q] ELSE NoQuestion).there =>
          question[q].there /\ (IF OnPost(c) \/ OnReply(c) THEN question[q] ELSE NoQuestion).last = question[q].last
    BY DEF NoQuestion
  <2> DEFINE copy == IF OnPost(c) \/ OnReply(c) THEN question[q] ELSE NoQuestion
  <2>4. copy.there => question[q].there /\ copy.last = question[q].last BY <2>3
  <2>5. at'[w] = [do |-> "drop", c |-> c, q |-> q, copy |-> copy] BY <2>2
  <2> HIDE DEF copy
  <2>6. Fits(w)' BY <2>2, <2>4, <2>5 DEF Fits, ChatSteps
  <2> QED BY <1>0, <1>2, <2>2, <2>6, JobTaken
<1>9. CASE AskByMail(w)
  <2>1. at'[w] = Unasked /\ at[w] = Unasked /\ UNCHANGED <<question, comment, told, choice>>
    BY <1>1, <1>9 DEF AskByMail
  <2>2. Fits(w)' BY <2>1 DEF Fits, Unasked, ChatSteps
  <2> QED BY <1>0, <1>2, <2>1, <2>2, JobTaken
<1>10. CASE Confirm(w)
  <2>1. PICK q \in Questions : \E r : question[q].there /\ Arrives(w, [do |-> "create", q |-> q, r |-> r])
    BY <1>10 DEF Confirm
  <2>2. PICK r : question[q].there /\ Arrives(w, [do |-> "create", q |-> q, r |-> r]) BY <2>1
  <2>3. /\ at'[w] = [do |-> "create", q |-> q, r |-> r] /\ at[w] = Unasked
        /\ UNCHANGED <<question, comment, told, choice>>
    BY <1>1, <1>10, <2>2 DEF Confirm
  <2>4. Fits(w)' BY <2>2, <2>3 DEF Fits, ChatSteps
  <2> QED BY <1>0, <1>2, <2>3, <2>4, JobTaken
<1>11. CASE Vote(w) \/ EditPoll(w)
  <2>1. \E task : Arrives(w, task) /\ task.do \in {"check", "clear"}
    <3>1. CASE Vote(w)
      BY <3>1 DEF Vote
    <3>2. CASE EditPoll(w)
      BY <3>2 DEF EditPoll
    <3> QED BY <1>11, <3>1, <3>2
  <2>2. at'[w].do \in {"check", "clear"} /\ at[w] = Unasked /\ UNCHANGED <<question, comment, told, choice>>
    BY <1>1, <1>11, <2>1 DEF Vote, EditPoll
  <2>3. Fits(w)' BY <2>2 DEF Fits, ChatSteps
  <2> QED BY <1>0, <1>2, <2>2, <2>3, JobTaken
<1> QED BY <1>3, <1>4, <1>5, <1>6, <1>7, <1>8, <1>9, <1>10, <1>11 DEF Ask

\* A process goes on; a comment it does not care about any more is settled.
LEMMA JobGoesOn ==
  ASSUME ResponsesTypeOK, NEW w \in Processes, Order(w), Others(w), Others(w)',
         UNCHANGED <<question, comment, told, choice>>, Fits(w)',
         \A c \in Ids : Underway(w, c) => Underway(w, c)'
  PROVE  Order(w)'
BY RowsStay, NobodyElse DEF Order, Pending

LEMMA Turned ==
  ASSUME ResponsesTypeOK, NEW w \in Processes
  PROVE  /\ at[w] \in Job /\ (at[w].do \in ChatSteps => at[w] \in ChatJob)
         /\ \A task : Becomes(w, task) => at'[w] = task
         /\ Finish(w) => at'[w] = Unasked
BY AtTyped, JobKinds DEF ResponsesTypeOK, Becomes, Finish

LEMMA InsertOrder ==
  ASSUME IInv, NEW w \in Processes, Insert(w), Order(w), Others(w), Others(w)'
  PROVE  Order(w)'
<1> PICK j, n : j = at[w] /\ n = used.comments + 1 OBVIOUS
<1>0. ResponsesTypeOK BY DEF IInv
<1>1. j \in ChatJob /\ j.do = "insert" BY <1>0, Turned DEF Insert, ChatSteps
<1>2. /\ NewComment(j.on, j.who) /\ j.on \in Questions \cup Ids /\ j.who \in People \cup {Guest} /\ j.q \in Questions
      /\ question' = question /\ told' = told /\ choice' = choice
  BY <1>1 DEF Insert, ChatJob
<1>3. question[j.q].there /\ j.copy = question[j.q] /\ (j.on = j.q \/ j.on \in Answers(j.q))
  BY <1>1 DEF Order, Fits, ChatSteps
<1>4. n \in Ids /\ comment'[n] = [there |-> TRUE, on |-> j.on, by |-> j.who] BY <1>0, <1>2, NewCommentType
<1>5. /\ at'[w].do \in {"touch", "root"} /\ at'[w].c = n /\ at'[w].q = j.q /\ at'[w].copy = j.copy
  <2>1. at'[w] = [j EXCEPT !.c = n, !.do = IF j.on \in Questions THEN "touch" ELSE "root"] BY <1>0, Turned DEF Insert
  <2> QED BY <1>1, <2>1 DEF ChatJob
<1>6. Home(n, j.q)'
  <2>1. CASE j.on = j.q BY <1>4, <2>1 DEF Home
  <2>2. CASE j.on \in Answers(j.q)
    <3>1. j.on \in Ids /\ comment[j.on].there /\ comment[j.on].on = j.q BY <2>2 DEF Answers
    <3>2. comment'[j.on] = comment[j.on] BY <1>0, <1>2, <3>1, HomesKept
    <3> QED BY <1>4, <3>1, <3>2 DEF Home
  <2> QED BY <1>3, <2>1, <2>2
<1>7. \A c \in Ids : c # n => comment'[c] = comment[c] BY <1>0, <1>2, NewCommentType
<1>8. ASSUME NEW c \in Ids, c # n, comment'[c].there
      PROVE  comment[c].there /\ \A q \in Questions : Home(c, q)' <=> Home(c, q)
  BY <1>0, <1>2, <1>7, <1>8, HomesKept DEF Order
<1>9. Anchored' BY <1>2, <1>3, <1>6, <1>8 DEF Order, Anchored
<1>10. Distinct' BY <1>2 DEF Order, Distinct, Offered
<1>11. ASSUME NEW c \in Ids, comment'[c].there, comment'[c].by \in People
       PROVE  Settled(c)' \/ Underway(w, c)'
  <2>1. CASE c = n BY <1>5, <2>1 DEF Underway
  <2>2. CASE c # n
    <3>1. Settled(c) BY <1>1, <1>7, <1>8, <1>11, <2>2, NobodyElse DEF Order, Underway
    <3> QED BY <1>2, <1>8, <1>11, <2>2, <3>1 DEF Settled
  <2> QED BY <2>1, <2>2
<1>12. Pending' BY <1>11 DEF Pending
<1>13. Fits(w)' BY <1>2, <1>3, <1>5, <1>6 DEF Fits, ChatSteps
<1> QED BY <1>9, <1>10, <1>12, <1>13 DEF Order

LEMMA TouchOrder ==
  ASSUME IInv, NEW w \in Processes, Touch(w), Order(w), Others(w), Others(w)'
  PROVE  Order(w)'
<1> PICK j, new : j = at[w] /\ new = [j.copy EXCEPT !.last = j.c] OBVIOUS
<1>0. ResponsesTypeOK /\ \A q \in Questions : question[q] \in Question BY QuestionTyped DEF IInv
<1>1. j \in ChatJob /\ j.do = "touch" /\ j.c # 0 /\ j.q \in Questions /\ j.c \in 0..MaxComments
  BY <1>0, Turned DEF Touch, ChatSteps, ChatJob
<1>2. question[j.q].there /\ j.copy = question[j.q] /\ Home(j.c, j.q) BY <1>1 DEF Order, Fits, ChatSteps
<1>3. /\ new \in Question /\ new.best = question[j.q].best /\ new.there = question[j.q].there /\ new.last = j.c
  BY <1>0, <1>1, <1>2 DEF Question
<1>4. ~BestGone(new) BY <1>0, <1>1, <1>3, BestTyped DEF BestGone, IsThere, IInv, Alive
<1>5. /\ IF j.c > j.copy.last THEN Store(j.q, new) ELSE question' = question
      /\ at'[w] = [j EXCEPT !.do = "follow"] /\ comment' = comment /\ told' = told /\ choice' = choice
  BY <1>0, <1>4, Turned DEF Touch, Newer
<1>6. at'[w].do = "follow" /\ at'[w].c = j.c /\ at'[w].q = j.q BY <1>1, <1>5 DEF ChatJob
<1>7. /\ \A q \in Questions : q # j.q => question'[q] = question[q]
      /\ question'[j.q] = IF j.c > question[j.q].last THEN new ELSE question[j.q]
  BY <1>0, <1>1, <1>2, <1>3, <1>5, StoreType
<1>8. question'[j.q].there /\ question'[j.q].last >= question[j.q].last /\ question'[j.q].last >= j.c /\ question'[j.q] \in Question
  BY <1>0, <1>1, ConstantsType, <1>2, <1>3, <1>7 DEF Question
<1>9. /\ \A q \in Questions : question[q].there => question'[q].there /\ question'[q].last >= question[q].last
      /\ \A q \in Questions : question'[q] \in Question
  <2>1. \A q \in Questions : question[q].last \in Nat BY <1>0, ConstantsType DEF Question
  <2>2. ASSUME NEW q \in Questions, question[q].there PROVE question'[q].there /\ question'[q].last >= question[q].last
    <3>1. CASE q = j.q BY <1>8, <3>1
    <3>2. CASE q # j.q
      BY <1>7, <3>2, <2>1, <2>2
    <3> QED BY <3>1, <3>2
  <2> QED BY <1>0, <1>7, <1>8, <2>2
<1>10. /\ Anchored' /\ Distinct' /\ \A c, q : Home(c, q)' <=> Home(c, q)
       /\ \A c \in Ids : comment[c].there /\ Settled(c) => Settled(c)'
  BY <1>0, <1>5, <1>9, QuestionsStay DEF Order
<1>11. Pending'
  BY <1>5, NobodyElse, <1>6, <1>10 DEF Pending, Order, Underway
<1>12. Fits(w)' BY <1>2, <1>6, <1>8, <1>10 DEF Fits, ChatSteps
<1> QED BY <1>10, <1>11, <1>12 DEF Order

LEMMA TellsOrder ==
  ASSUME ResponsesTypeOK, NEW w \in Processes, Order(w), Others(w), Others(w)',
         at[w] \in ChatJob, at[w].do \in {"follow", "link"}, at'[w] = Tells(w),
         UNCHANGED <<question, comment, told, choice>>
  PROVE  Order(w)'
<1> PICK j : j = at[w] OBVIOUS
<1>1. CASE j.c = 0
  <2>1. at'[w] = Unasked BY <1>1 DEF Tells
  <2>2. \A c \in Ids : ~Underway(w, c) BY <1>1, ConstantsType DEF Underway
  <2>3. Fits(w)' BY <2>1 DEF Fits, Unasked, ChatSteps
  <2> QED BY <2>2, <2>3, JobGoesOn
<1>2. CASE j.c # 0
  <2>1. at'[w].do = "tell" /\ at'[w].c = j.c /\ at'[w].q = j.q
    BY <1>2 DEF Tells, ChatJob
  <2>2. question[j.q].there /\ Home(j.c, j.q) /\ question[j.q].last >= j.c BY <1>2 DEF Order, Fits, ChatSteps
  <2>3. Home(j.c, j.q)' BY <2>2, RowsStay
  <2>4. Fits(w)' BY <2>1, <2>2, <2>3 DEF Fits, ChatSteps
  <2>5. \A c \in Ids : Underway(w, c) => Underway(w, c)' BY <2>1 DEF Underway
  <2> QED BY <2>4, <2>5, JobGoesOn
<1> QED BY <1>1, <1>2

\* The statements that change neither posts, comments, announcements nor choices.
LEMMA QuietOrder ==
  ASSUME IInv, NEW w \in Processes, Order(w), Others(w), Others(w)',
         LoadRoot(w) \/ Follow(w) \/ Subscribe(w) \/ Unfollow(w) \/ Spend(w) \/ CheckVotes(w) \/ Cast(w)
  PROVE  Order(w)'
<1> PICK j : j = at[w] OBVIOUS
<1>0. ResponsesTypeOK BY DEF IInv
<1>1. CASE LoadRoot(w)
  <2>1. j \in ChatJob /\ j.do = "root" /\ j.c # 0 /\ UNCHANGED <<question, comment, told, choice>>
    BY <1>0, <1>1, Turned DEF LoadRoot, ChatSteps, ChatJob
  <2>2. question[j.q].there /\ Home(j.c, j.q) BY <2>1 DEF Order, Fits, ChatSteps
  <2>3. at'[w] = [j EXCEPT !.do = "touch", !.copy = question[j.q]] BY <1>0, <1>1, <2>2, Turned DEF LoadRoot
  <2>4. at'[w].do = "touch" /\ at'[w].c = j.c /\ at'[w].q = j.q /\ at'[w].copy = question[j.q]
    BY <2>1, <2>3 DEF ChatJob
  <2>5. Home(j.c, j.q)' BY <2>1, <2>2, RowsStay
  <2>6. Fits(w)' BY <2>1, <2>2, <2>4, <2>5 DEF Fits, ChatSteps
  <2>7. \A c \in Ids : Underway(w, c) => Underway(w, c)' BY <2>4 DEF Underway
  <2> QED BY <1>0, <2>1, <2>6, <2>7, JobGoesOn
<1>2. CASE Follow(w)
  <2>1. /\ j \in ChatJob /\ j.do = "follow" /\ UNCHANGED <<question, comment, followers, told, choice>>
        /\ at'[w] = IF <<j.who, j.q>> \in followers THEN Tells(w) ELSE [j EXCEPT !.do = "link"]
    BY <1>0, <1>2, Turned DEF Follow, ChatSteps
  <2>2. CASE <<j.who, j.q>> \in followers BY <1>0, <2>1, <2>2, TellsOrder
  <2>3. CASE <<j.who, j.q>> \notin followers
    <3>1. at'[w].do = "link" /\ at'[w].c = j.c /\ at'[w].q = j.q /\ at'[w].who = j.who BY <2>1, <2>3 DEF ChatJob
    <3>2. question[j.q].there /\ (j.c # 0 => Home(j.c, j.q) /\ question[j.q].last >= j.c)
      BY <2>1 DEF Order, Fits, ChatSteps
    <3>3. j.c # 0 => Home(j.c, j.q)' BY <2>1, <3>2, RowsStay
    <3>4. Fits(w)' BY <2>1, <2>3, <3>1, <3>2, <3>3 DEF Fits, ChatSteps
    <3>5. \A c \in Ids : Underway(w, c) => Underway(w, c)' BY <3>1 DEF Underway
    <3> QED BY <1>0, <2>1, <3>4, <3>5, JobGoesOn
  <2> QED BY <2>2, <2>3
<1>3. CASE Subscribe(w)
  <2>1. j \in ChatJob /\ j.do = "link" /\ UNCHANGED <<question, comment, told, choice>>
    BY <1>0, <1>3, Turned DEF Subscribe, ChatSteps
  <2>2. <<j.who, j.q>> \notin followers BY <2>1 DEF Order, Fits
  <2>3. at'[w] = Tells(w) BY <1>0, <1>3, <2>2, Turned DEF Subscribe
  <2> QED BY <1>0, <2>1, <2>3, TellsOrder
<1>4. CASE Unfollow(w) \/ Spend(w) \/ CheckVotes(w) \/ Cast(w)
  <2>1. /\ j.do \in {"unfollow", "spend", "check", "cast"} /\ UNCHANGED <<question, comment, told, choice>>
        /\ at'[w] = Unasked \/ at'[w].do = "cast"
    <3>1. CASE CheckVotes(w)
      BY <1>0, <3>1, Turned, JobKinds DEF CheckVotes, VoteJob
    <3>2. CASE Unfollow(w) \/ Spend(w) \/ Cast(w) BY <1>0, <3>2, Turned DEF Unfollow, Spend, Cast
    <3> QED BY <1>4, <3>1, <3>2
  <2>2. Fits(w)' BY <2>1 DEF Fits, Unasked, ChatSteps
  <2>3. \A c \in Ids : ~Underway(w, c) BY <2>1 DEF Underway
  <2> QED BY <1>0, <2>1, <2>2, <2>3, JobGoesOn
<1> QED BY <1>1, <1>2, <1>3, <1>4

LEMMA TellOrder ==
  ASSUME IInv, NEW w \in Processes, Tell(w), Order(w), Others(w), Others(w)'
  PROVE  Order(w)'
<1> PICK j : j = at[w] OBVIOUS
<1>0. ResponsesTypeOK BY DEF IInv
<1>1. /\ j \in ChatJob /\ j.do = "tell" /\ j.c # 0 /\ j.q \in Questions /\ at'[w] = Unasked
      /\ told' = told \cup {j.c} /\ UNCHANGED <<question, comment, choice>>
  BY <1>0, Turned DEF Tell, ChatSteps, ChatJob
<1>2. Home(j.c, j.q) /\ question[j.q].last >= j.c BY <1>1 DEF Order, Fits
<1>3. \A c, q : Home(c, q)' <=> Home(c, q) BY <1>1 DEF Home
<1>4. Anchored' /\ Distinct' BY <1>1, <1>3 DEF Order, Anchored, Distinct, Offered
<1>5. \A c : Settled(c) => Settled(c)' BY <1>1, <1>3 DEF Settled
<1>6. Settled(j.c)'
  BY <1>1, <1>2, HomeIsOne, <1>3 DEF Settled
<1>7. \A c \in Ids : comment'[c].there /\ comment'[c].by \in People => Settled(c)'
  <2>1. ASSUME NEW c \in Ids, comment[c].there, comment[c].by \in People PROVE Settled(c)'
    <3>1. Settled(c) \/ c = j.c BY <2>1, NobodyElse DEF Order, Underway
    <3> QED BY <1>5, <1>6, <3>1
  <2> QED BY <1>1, <2>1
<1>8. Fits(w)' BY <1>1 DEF Fits, Unasked, ChatSteps
<1> QED BY <1>4, <1>7, <1>8 DEF Order, Pending

LEMMA SaveOrder ==
  ASSUME IInv, NEW w \in Processes, SaveQuestion(w), Order(w), Others(w), Others(w)'
  PROVE  Order(w)'
<1> PICK j : j = at[w] OBVIOUS
<1>0. ResponsesTypeOK /\ \A q \in Questions : question[q] \in Question BY QuestionTyped DEF IInv
<1>1. /\ j \in SaveJob /\ j.do = "save" /\ at'[w] = Unasked /\ UNCHANGED <<comment, told, choice>>
      /\ question' = question \/ Store(j.q, j.copy)
  BY <1>0, Turned, JobKinds DEF SaveQuestion
<1>2. question[j.q].there /\ j.copy.there /\ j.copy.last = question[j.q].last /\ j.q \in Questions /\ j.copy \in Question
  BY <1>1 DEF Order, Fits, SaveJob
<1>3. /\ \A q \in Questions : question[q].there => question'[q].there /\ question'[q].last >= question[q].last
      /\ \A q \in Questions : question'[q] \in Question
  BY <1>0, ConstantsType, <1>2, StoreType, <1>1 DEF Question
<1>4. /\ Anchored' /\ Distinct' /\ \A c \in Ids : comment[c].there /\ Settled(c) => Settled(c)'
  BY <1>0, <1>1, <1>3, QuestionsStay DEF Order
<1>5. \A c \in Ids : ~Underway(w, c) BY <1>1 DEF Underway
<1>6. Pending' BY <1>1, <1>4, <1>5, NobodyElse DEF Order, Pending
<1>7. Fits(w)' BY <1>1 DEF Fits, Unasked, ChatSteps
<1> QED BY <1>4, <1>6, <1>7 DEF Order

LEMMA WriteOrder ==
  ASSUME IInv, NEW w \in Processes, WriteComment(w), Order(w), Others(w), Others(w)'
  PROVE  Order(w)'
<1> PICK j : j = at[w] OBVIOUS
<1>0. ResponsesTypeOK BY DEF IInv
<1>1. /\ j.do = "write" /\ at'[w] = Unasked /\ UNCHANGED <<question, told, choice>>
      /\ comment' = [comment EXCEPT ![j.c] = [there |-> TRUE, on |-> j.on, by |-> j.by]]
  BY <1>0, Turned DEF WriteComment
<1>2. comment[j.c] = [there |-> TRUE, on |-> j.on, by |-> j.by] BY <1>1 DEF Order, Fits
<1>3. comment' = comment BY <1>0, <1>1, <1>2 DEF ResponsesTypeOK
<1>4. Fits(w)' BY <1>1 DEF Fits, Unasked, ChatSteps
<1>5. \A c \in Ids : ~Underway(w, c) BY <1>1 DEF Underway
<1> QED BY <1>0, <1>1, <1>3, <1>4, <1>5, JobGoesOn

LEMMA DropOrder ==
  ASSUME IInv, NEW w \in Processes, DropComment(w), Order(w), Others(w), Others(w)'
  PROVE  Order(w)'
<1> PICK j, cs : j = at[w] /\ cs = {j.c} OBVIOUS
<1>0. ResponsesTypeOK /\ \A q \in Questions : question[q] \in Question BY QuestionTyped DEF IInv
<1>1. /\ j \in DropJob /\ j.do = "drop" /\ UNCHANGED <<told, choice>>
      /\ Remove(Thread(cs)) /\ question' = Cleared(Thread(cs))
      /\ at'[w] = IF j.copy.there THEN [do |-> "save", q |-> j.q, copy |-> j.copy] ELSE Unasked
  BY <1>0, Turned, JobKinds DEF DropComment
<1>2. cs \in SUBSET Ids /\ j.q \in Questions BY <1>1 DEF DropJob
<1>3. \A q \in Questions : question'[q].there = question[q].there /\ question'[q].last = question[q].last
  BY <1>1, <1>0 DEF Cleared, Question
<1>4. ASSUME NEW c \in Ids, comment'[c].there
      PROVE  comment[c].there /\ comment'[c] = comment[c] /\ \A q \in Questions : Home(c, q)' <=> Home(c, q)
  BY <1>0, <1>1, <1>2, <1>4, HomesStay DEF Order
<1>5. Anchored' BY <1>3, <1>4 DEF Order, Anchored
<1>6. Distinct' BY <1>1 DEF Order, Distinct, Offered
<1>7. ASSUME NEW c \in Ids, comment'[c].there, comment'[c].by \in People
      PROVE  Settled(c)'
  <2>1. comment[c].there /\ comment[c].by \in People BY <1>4, <1>7
  <2>2. Settled(c) BY <1>1, <2>1, NobodyElse DEF Order, Underway
  <2> QED BY <1>1, <1>3, <1>4, <1>7, <2>2 DEF Settled
<1>8. Fits(w)'
  <2>1. j.copy.there => question[j.q].there /\ j.copy.last = question[j.q].last BY <1>1 DEF Order, Fits
  <2>2. CASE j.copy.there
    <3>1. at'[w].do = "save" /\ at'[w].q = j.q /\ at'[w].copy = j.copy BY <1>1, <2>2
    <3>2. question'[j.q].there /\ j.copy.last = question'[j.q].last BY <1>2, <1>3, <2>1, <2>2
    <3> QED BY <2>2, <3>1, <3>2 DEF Fits, ChatSteps
  <2>3. CASE ~j.copy.there BY <1>1, <2>3 DEF Fits, Unasked, ChatSteps
  <2> QED BY <2>2, <2>3
<1> QED BY <1>5, <1>6, <1>7, <1>8 DEF Order, Pending

LEMMA GuestOrder ==
  ASSUME IInv, NEW w \in Processes, CreateForGuest(w), Order(w), Others(w), Others(w)'
  PROVE  Order(w)'
<1> PICK j, n : j = at[w] /\ n = used.comments + 1 OBVIOUS
<1>0. ResponsesTypeOK BY DEF IInv
<1>1. /\ j \in GuestJob /\ j.do = "create" /\ NewComment(j.q, Guest) /\ at'[w] = [j EXCEPT !.do = "spend"]
      /\ question' = question /\ told' = told /\ choice' = choice
  BY <1>0, Turned, JobKinds DEF CreateForGuest
<1>2. j.q \in Questions /\ at'[w].do = "spend" BY <1>1 DEF GuestJob
<1>3. question[j.q].there BY <1>1 DEF Order, Fits
<1>4. n \in Ids /\ comment'[n] = [there |-> TRUE, on |-> j.q, by |-> Guest] /\ \A c \in Ids : c # n => comment'[c] = comment[c]
  BY <1>0, <1>1, <1>2, NewCommentType
<1>5. ASSUME NEW c \in Ids, c # n, comment'[c].there
      PROVE  comment[c].there /\ \A q \in Questions : Home(c, q)' <=> Home(c, q)
  BY <1>0, <1>1, <1>2, <1>4, <1>5, HomesKept DEF Order
<1>6. Home(n, j.q)' BY <1>4 DEF Home
<1>7. Anchored' BY <1>1, <1>2, <1>3, <1>5, <1>6 DEF Order, Anchored
<1>8. Distinct' BY <1>1 DEF Order, Distinct, Offered
<1>9. ASSUME NEW c \in Ids, comment'[c].there, comment'[c].by \in People
      PROVE  Settled(c)'
  <2>1. c # n BY <1>4, <1>9, ConstantsType
  <2>2. Settled(c) BY <1>1, <1>4, <1>5, <1>9, <2>1, NobodyElse DEF Order, Underway
  <2> QED BY <1>1, <1>5, <1>9, <2>1, <2>2 DEF Settled
<1>10. Fits(w)' BY <1>2 DEF Fits, ChatSteps
<1> QED BY <1>7, <1>8, <1>9, <1>10 DEF Order, Pending

LEMMA PollOrder ==
  ASSUME IInv, NEW w \in Processes, Clear(w) \/ Fill(w), Order(w), Others(w), Others(w)'
  PROVE  Order(w)'
<1> PICK j, n : j = at[w] /\ n = used.choices + 1 OBVIOUS
<1>0. ResponsesTypeOK BY DEF IInv
<1>1. /\ j \in PollJob /\ j.do \in {"clear", "fill"} /\ UNCHANGED <<question, comment, told>>
  BY <1>0, Turned, JobKinds DEF Clear, Fill
<1>2. \A c, q : Home(c, q)' <=> Home(c, q) BY <1>1 DEF Home
<1>3. Anchored' BY <1>1, <1>2 DEF Order, Anchored
<1>4. Pending'
  BY <1>1, NobodyElse, <1>2 DEF Pending, Order, Underway, Settled
<1>5. CASE Clear(w)
  <2>1. choice' = [i \in Choices |-> NoChoice] /\ at'[w] = [j EXCEPT !.do = "fill"] BY <1>0, <1>5, Turned DEF Clear
  <2>2. at'[w].do = "fill" /\ Offered' = {} BY <1>1, <2>1 DEF PollJob, Offered
  <2>3. Distinct' BY <2>2 DEF Distinct
  <2>4. Fits(w)' BY <2>2 DEF Fits, ChatSteps
  <2> QED BY <1>3, <1>4, <2>3, <2>4 DEF Order
<1>6. CASE Fill(w)
  <2>1. PICK t \in j.texts :
          /\ choice' = [choice EXCEPT ![n] = t]
          /\ at'[w] = IF j.texts = {t} THEN Unasked ELSE [j EXCEPT !.texts = @ \ {t}]
    BY <1>0, <1>6, Turned DEF Fill
  <2>2. \A i \in Offered : choice[i] \notin j.texts BY <1>6 DEF Order, Fits, Fill
  <2>3. \A i \in Choices : choice'[i] = IF i = n THEN t ELSE choice[i] BY <1>0, <2>1 DEF ResponsesTypeOK
  <2>4. \A i \in Offered' : i \in Choices /\ (i # n => i \in Offered) BY <2>3 DEF Offered
  <2>5. Distinct'
    BY <2>1, <2>2, <2>3, <2>4 DEF Distinct, Order
  <2>6. Fits(w)'
    <3>1. CASE j.texts = {t} BY <2>1, <3>1 DEF Fits, Unasked, ChatSteps
    <3>2. CASE j.texts # {t}
      <4>1. at'[w].do = "fill" /\ at'[w].texts = j.texts \ {t} BY <1>1, <1>6, <2>1, <3>2 DEF PollJob, Fill
      <4>2. \A i \in Offered' : choice'[i] \notin j.texts \ {t} BY <2>2, <2>3, <2>4
      <4> QED BY <4>1, <4>2 DEF Fits, ChatSteps
    <3> QED BY <3>1, <3>2
  <2> QED BY <1>3, <1>4, <2>5, <2>6 DEF Order
<1> QED BY <1>5, <1>6

LEMMA StatementOrder ==
  ASSUME IInv, NEW w \in Processes, Statement(w), Order(w), Others(w), Others(w)'
  PROVE  Order(w)'
BY InsertOrder, TouchOrder, QuietOrder, TellOrder, SaveOrder, WriteOrder, DropOrder, GuestOrder, PollOrder DEF Statement

\* Only an arrival can find others at work, and it is then remembered.
LEMMA OrderlyStep ==
  ASSUME IInv, Orderly, NEW w \in Processes, Ask(w) \/ Statement(w)
  PROVE  Orderly'
<1> SUFFICES ASSUME ~overlap'
             PROVE  (/\ Anchored /\ Distinct /\ Pending
                     /\ \A v \in Processes : Fits(v) /\ (at[v] # Unasked => Others(v)))'
  BY DEF Orderly
<1>0. at \in [Processes -> Job] BY DEF IInv, ResponsesTypeOK
<1>1. ~overlap /\ Others(w) /\ \E task : Becomes(w, task)
  <2>1. CASE Ask(w)
    <3>1. \E task : Arrives(w, task)
      BY <2>1 DEF Ask, AddComment, SetFollow, EditQuestion, ToggleClosed, ToggleBest, Change, DeleteQuestion,
                  EditComment, DeleteComment, AskByMail, Confirm, Vote, EditPoll
    <3> QED BY <3>1 DEF Arrives, Others
  <2>2. CASE Statement(w)
    <3>1. at[w].do # "idle" /\ overlap' = overlap
      BY <2>2 DEF Statement, Insert, LoadRoot, Touch, Follow, Subscribe, Tell, Unfollow, SaveQuestion, WriteComment,
                  DropComment, CreateForGuest, Spend, CheckVotes, Cast, Clear, Fill
    <3>2. at[w] # Unasked BY <3>1 DEF Unasked
    <3>3. \E task : Becomes(w, task)
      <4>1. CASE Insert(w) \/ LoadRoot(w) \/ Touch(w) BY <4>1 DEF Insert, LoadRoot, Touch, Finish
      <4>2. CASE Follow(w) \/ Subscribe(w) \/ Tell(w) \/ Unfollow(w) \/ SaveQuestion(w) \/ WriteComment(w)
        BY <4>2 DEF Follow, Subscribe, Tell, Unfollow, SaveQuestion, WriteComment, Finish
      <4>3. CASE DropComment(w) \/ CreateForGuest(w) \/ Spend(w) \/ CheckVotes(w) \/ Cast(w) \/ Clear(w)
        BY <4>3 DEF DropComment, CreateForGuest, Spend, CheckVotes, Cast, Clear, Finish
      <4>4. CASE Fill(w) BY <4>4 DEF Fill
      <4> QED BY <2>2, <4>1, <4>2, <4>3, <4>4 DEF Statement
    <3> QED BY <3>1, <3>2, <3>3 DEF Orderly
  <2> QED BY <2>1, <2>2
<1>2. Others(w)' BY <1>0, <1>1 DEF Others, Becomes
<1>3. Order(w) BY <1>1 DEF Orderly, Order
<1>4. Order(w)' BY <1>1, <1>2, <1>3, AskOrder, StatementOrder
<1>5. ASSUME NEW v \in Processes PROVE Fits(v)' /\ (at'[v] # Unasked => Others(v)')
  <2>1. CASE v = w BY <1>2, <1>4, <2>1 DEF Order
  <2>2. CASE v # w
    <3>1. at'[v] = Unasked BY <1>2, <2>2 DEF Others
    <3> QED BY <3>1 DEF Fits, Unasked, ChatSteps
  <2> QED BY <2>1, <2>2
<1> QED BY <1>4, <1>5 DEF Order

LEMMA PollsBounded == ResponsesTypeOK /\ Choosing => PollVotesBound
<1> SUFFICES ASSUME ResponsesTypeOK, Choosing, NEW p \in People
             PROVE  Cardinality(Counted(p)) <= Cardinality(Processes)
  BY DEF PollVotesBound
<1>1. Counted(p) \in SUBSET Choices /\ Casting(p) \in SUBSET Processes BY DEF Counted, Offered, Casting
<1>2. /\ Cardinality(Counted(p)) \in Nat /\ Cardinality(Casting(p)) \in Nat /\ Cardinality(Processes) \in Nat
  BY <1>1, Finite
<1>3. CASE Counted(p) = {} BY <1>2, <1>3, FS_EmptySet
<1>4. CASE Counted(p) # {} BY <1>2, <1>4 DEF Choosing
<1> QED BY <1>3, <1>4

LEMMA GuestsBounded == ResponsesTypeOK /\ Coding => GuestCommentBound
<1> SUFFICES ASSUME ResponsesTypeOK, Coding, NEW r \in 1..MaxAsks
             PROVE  made[r] <= Cardinality(Processes)
  BY DEF GuestCommentBound
<1>1. Creating(r) \in SUBSET Processes /\ made[r] \in Nat BY DEF Creating, ResponsesTypeOK
<1>2. Cardinality(Creating(r)) \in Nat /\ Cardinality(Processes) \in Nat BY <1>1, Finite
<1> QED BY <1>1, <1>2 DEF Coding

LEMMA OrderShows ==
  ASSUME IInv, Orderly
  PROVE  CommentsAnchored /\ Announced /\ ChoicesAsListed
<1>1. ASSUME NEW c, NEW q \in Questions, Home(c, q)
      PROVE  (OnPost(c) \/ OnReply(c)) /\ Root(c) = q
  BY <1>1, ConstantsType DEF Home, OnPost, OnReply, Root, IsThere
<1>2. CommentsAnchored BY <1>1 DEF Orderly, Anchored, CommentsAnchored
<1>3. ChoicesAsListed BY DEF Orderly, Distinct, ChoicesAsListed
<1>4. ASSUME ~overlap, AllIdle, NEW c \in Ids, comment[c].there, comment[c].by \in People
      PROVE  c \in told /\ question[Root(c)].last >= c
  <2>1. \A w \in Processes : ~Underway(w, c) BY <1>4 DEF AllIdle, Underway, Unasked
  <2>2. Settled(c) BY <1>4, <2>1 DEF Orderly, Pending
  <2>3. PICK q \in Questions : Home(c, q) BY <1>4 DEF Orderly, Anchored
  <2> QED BY <1>1, <2>2, <2>3 DEF Settled
<1> QED BY <1>2, <1>3, <1>4 DEF Announced

SoundInv == IInv /\ Choosing /\ Coding /\ Orderly

LEMMA InitSound == ResponsesInit => SoundInv
<1> SUFFICES ASSUME ResponsesInit
             PROVE  SoundInv
  OBVIOUS
<1>1. IInv /\ ResponsesTypeOK BY InitIInv DEF IInv
<1>2. \A w \in Processes : at[w] = Unasked /\ at[w].do = "idle" BY DEF ResponsesInit, Unasked
<1>3. Choosing
  BY <1>2 DEF ResponsesInit, Counted, Choosing
<1>4. Coding
  BY <1>2, Finite, FS_EmptySet DEF Creating, ResponsesInit, GuestSteps, Coding
<1>5. Orderly
  <2>1. \A c \in Ids : ~comment[c].there BY DEF ResponsesInit, Gone
  <2>2. Distinct BY DEF ResponsesInit, Distinct, Offered
  <2>3. \A w \in Processes : Fits(w) BY <1>2, IdleFits
  <2> QED BY <1>2, <2>1, <2>2, <2>3 DEF Orderly, Anchored, Pending
<1> QED BY <1>1, <1>3, <1>4, <1>5 DEF SoundInv

LEMMA StepSound ==
  ASSUME SoundInv, [ResponsesNext]_responses
  PROVE  SoundInv'
<1>1. IInv' /\ ResponsesTypeOK BY StepIInv DEF SoundInv, IInv
<1>2. CASE UNCHANGED responses
  <2>1. Choosing' BY <1>2 DEF responses, SoundInv, Choosing, Counted, Offered, Casting
  <2>2. Coding' BY <1>2 DEF responses, SoundInv, Coding, Creating, Spending
  <2>3. Orderly'
    BY <1>2 DEF responses, SoundInv, Orderly, Anchored, Distinct, Pending, Settled, Underway, Home, Offered, Fits, Answers, Others
  <2> QED BY <1>1, <2>1, <2>2, <2>3 DEF SoundInv
<1>3. CASE \E w \in Processes : Ask(w) \/ Statement(w)
  BY <1>1, <1>3, ChoosingStep, CodingStep, OrderlyStep DEF SoundInv
<1> QED BY <1>2, <1>3 DEF ResponsesNext

\* However requests overlap, nobody has more votes in a poll and no mailed code
\* has made more comments than there are processes; and as long as requests
\* are served one after the other, every comment keeps its post and its
\* parent, is announced and marks its post once it is answered, and a poll
\* offers no choice twice.
THEOREM ResponsesHold == ResponsesSpec => []ResponsesSound
<1>1. SoundInv => ResponsesSound BY PollsBounded, GuestsBounded, OrderShows DEF SoundInv, IInv, ResponsesSound
<1> QED BY <1>1, InitSound, StepSound, PTL DEF ResponsesSpec

(***************************************************************************)
(* The control panel.                                                      *)
(***************************************************************************)
\* What a task does, step by step.
StepsOf(kind) ==
  CASE kind = "add"     -> {"insert", "createSchema", "addDomain"}
    [] kind = "restore" -> {"verify", "restoreSchema", "restoreData", "restoreFiles", "insert", "addDomain"}
    [] kind = "delete"  -> {"load", "dropSchema", "dropRow", "dropFiles"}
    [] kind = "backup"  -> {"load", "makeFolder", "dumpData", "copyFiles"}
    [] kind = "check"   -> {"clean", "record"}
    [] OTHER            -> {"load", "update"}

SiteRow == [there : BOOLEAN, schema : Schemas \cup {"none"}, active : BOOLEAN]
Kinds   == {"add", "restore", "delete", "disable", "enable", "backup", "check"}
TaskJob == [kind : Kinds \cup {"none"}, site : 0..MaxSites, schema : Schemas \cup {"none"},
            host : Domains \cup {"none"}, state : {"none", "queued", "started", "done", "failed"}]
Steps   == {"insert", "createSchema", "addDomain", "verify", "restoreSchema", "restoreData", "restoreFiles", "load",
            "dropSchema", "dropRow", "dropFiles", "makeFolder", "dumpData", "copyFiles", "clean", "record", "update"}
Hand    == [do : Steps, t : Tasks, site : 0..MaxSites, copy : SiteRow, from : Archive]
Reader  == [do : {"read"}, t : {0}, left : SUBSET Tasks, ended : SUBSET Tasks]
Writer  == [do : {"write"}, t : Tasks, left : SUBSET Tasks, ended : SUBSET Tasks,
            state : Final \cup {"PENDING", "STARTED"}]

JobFits(j) ==
  /\ j.kind = "none" <=> j.state = "none"
  /\ j.kind = "none" => j = NoJob
  /\ j.kind \in {"add", "restore"} => j.schema \in Schemas /\ j.host \in Domains
  /\ j.kind \in Kinds \ {"add", "restore"} => j.site \in Sites
\* What a worker that does h with job j has in hand.
HandFits(h, j) ==
  /\ j.state = "started" /\ h.do \in StepsOf(j.kind)
  /\ j.kind \notin {"add", "restore"} => h.site = j.site
  /\ h.do \in {"createSchema", "addDomain"} => h.site \in Sites
  /\ h.do \in {"dropSchema", "dropRow", "dropFiles", "makeFolder", "dumpData", "copyFiles", "update"} =>
       h.copy.there /\ h.copy.schema \in Schemas

PanelTyped ==
  /\ PanelTypeOK
  /\ \A i \in Sites : client[i].there => client[i].schema \in Schemas
  /\ origin \in [Sites -> [how : {"unmade", "inserted", "added", "restored"}, from : Archive]]
  /\ job \in [Tasks -> TaskJob] /\ \A t \in Tasks : JobFits(job[t])
  /\ busy \in [CeleryWorkers -> {Resting} \cup Hand \cup Reader \cup Writer]
  /\ crossed \in BOOLEAN /\ met \in BOOLEAN /\ deaths \in Nat
  /\ form # 0 => job[form] # NoJob /\ row[form] = "none"
HandsFit ==
  /\ \A w \in CeleryWorkers : busy[w] \in Hand => HandFits(busy[w], Mine(w))
  /\ \A v, w \in CeleryWorkers : busy[v] \in Hand /\ busy[w] \in Hand /\ busy[v].t = busy[w].t => v = w
  /\ \A w \in CeleryWorkers : busy[w] \in Reader \cup Writer => \A t \in busy[w].left : row[t] # "none"
  /\ \A w \in CeleryWorkers : busy[w] \in Writer => row[busy[w].t] # "none"
\* Each follow-up was submitted by a task that is done.
DoneTasks == {t \in Tasks : job[t].state = "done"}
PollsPaid == polls <= Cardinality(DoneTasks)
\* Records of the index that are there, or about to be.
Recorders(i) == {w \in CeleryWorkers : At(w, "record") /\ busy[w].site = i}
StatusInv ==
  /\ status \in [Sites -> Nat]
  /\ \A i \in Sites : status[i] + Cardinality(Recorders(i)) <= 2 + Cardinality(CeleryWorkers)

-----------------------------------------------------------------------------
\* Tasks on sites that are executed one at a time.
SiteWork(w)  == busy[w] \in Hand /\ OnSites(Mine(w))
OneOnSites   == \A v, w \in CeleryWorkers : SiteWork(v) /\ SiteWork(w) => v = w
Restores(w, s) == SiteWork(w) /\ Mine(w).kind = "restore" /\ Mine(w).schema = s

\* What the only one may count on.
HandTrue(w) ==
  /\ busy[w].do \in {"restoreSchema", "restoreData", "restoreFiles"} => disk[Mine(w).schema] = 0
  /\ busy[w].do \in {"restoreSchema", "restoreData", "restoreFiles", "insert"} /\ Mine(w).kind = "restore" => Named(Mine(w).schema) = {}
  /\ busy[w].do \in {"restoreData", "restoreFiles", "insert"} /\ Mine(w).kind = "restore" =>
       (busy[w].from.listed => busy[w].from = archive)
  /\ busy[w].do = "restoreData" => db[Mine(w).schema] = Nobodys
  /\ busy[w].do \in {"restoreFiles", "insert"} /\ Mine(w).kind = "restore" => (busy[w].from.listed => db[Mine(w).schema] = Tables(archive))
  /\ busy[w].do = "insert" /\ Mine(w).kind = "restore" => (busy[w].from.listed => disk[Mine(w).schema] = archive.files)
  /\ busy[w].do = "createSchema" =>
       LET c == client[busy[w].site] IN c.there /\ c.schema = Mine(w).schema /\ origin[busy[w].site].how = "inserted"
  /\ busy[w].do \in {"dropSchema", "dropRow", "update"} => client[busy[w].site] = busy[w].copy
  /\ busy[w].do = "dropRow" => db[busy[w].copy.schema] = 0
  /\ busy[w].do = "dropFiles" => Named(busy[w].copy.schema) = {}
\* One backup is made; one that is listed is whole and stays.
ArchiveInv ==
  /\ \A t, u \in Tasks : job[t].kind = "backup" /\ job[u].kind = "backup" => t = u
  /\ archive.listed => \A t \in Tasks : job[t].kind = "backup" => job[t].state = "done"
RestoredInv ==
  \A i \in Sites : client[i].there =>
    /\ origin[i] # Unmade
    /\ (origin[i].how = "restored" /\ origin[i].from.listed /\ ~Deleting(i) =>
       LET s == client[i].schema IN
         /\ db[s] = Tables(origin[i].from)
         /\ IF origin[i].from.files = 0 THEN disk[s] \in {0, i} ELSE disk[s] = origin[i].from.files)
OneAtATime == OneOnSites /\ ArchiveInv /\ RestoredInv /\ \A w \in CeleryWorkers : SiteWork(w) => HandTrue(w)
Uncrossed  == ~crossed => OneAtATime

\* Where no worker died: a site has its own schema and files, and a name without a
\* site has neither, but for what the only task is about to do or to undo.
Dropped(i)  == \E w \in CeleryWorkers : SiteWork(w) /\ At(w, "dropRow") /\ busy[w].site = i
Started(i)  == \E w \in CeleryWorkers : SiteWork(w) /\ At(w, "createSchema") /\ busy[w].site = i
Filling(s)  == \E w \in CeleryWorkers : Restores(w, s) /\ busy[w].do \in {"restoreData", "restoreFiles", "insert"}
Filled(s)   == \E w \in CeleryWorkers : Restores(w, s) /\ At(w, "insert")
Emptying(s) == \E w \in CeleryWorkers : SiteWork(w) /\ At(w, "dropFiles") /\ busy[w].copy.schema = s
SitesFresh ==
  \A i \in Sites : client[i].there /\ origin[i].how \in {"inserted", "added"} =>
    LET s == client[i].schema IN
      /\ disk[s] \in {0, i, Nobodys}
      /\ origin[i].how = "added" => (db[s] = i \/ Dropped(i))
      /\ origin[i].how = "inserted" => (db[s] = 0 /\ Started(i))
NamesFree ==
  \A s \in Schemas : Named(s) = {} => (db[s] = 0 \/ Filling(s)) /\ (disk[s] \in {0, Nobodys} \/ Filled(s) \/ Emptying(s))
FreshSites == SitesFresh /\ NamesFree
Fresh      == Alone => FreshSites

\* Follow-ups one at a time.
FollowsUp(w) == busy[w] \in Reader \cup Writer
FollowTrue(w) ==
  /\ \A t \in busy[w].left : row[t] \notin Final
  /\ busy[w].ended \subseteq Tasks /\ \A t \in busy[w].ended : row[t] # "none" /\ Ended(t)
  /\ \A t \in busy[w].ended : (row[t] \in Final \/ t \in busy[w].left) \/ (busy[w] \in Writer /\ t = busy[w].t /\ busy[w].state \in Final)
  /\ busy[w] \in Writer => row[busy[w].t] \notin Final /\ busy[w].t \notin busy[w].left
Followers ==
  /\ \A v, w \in CeleryWorkers : FollowsUp(v) /\ FollowsUp(w) => v = w
  /\ \A w \in CeleryWorkers : FollowsUp(w) => FollowTrue(w)
FollowUps == ~met => Followers

\* The inductive invariant.
PanelInv == PanelTyped /\ HandsFit /\ PollsPaid /\ StatusInv /\ Uncrossed /\ Fresh /\ FollowUps

-----------------------------------------------------------------------------
\* What a worker holds, by the statement it is at.
LEMMA TheHand ==
  ASSUME PanelTyped, NEW w \in CeleryWorkers
  PROVE  /\ busy[w].do \in Steps <=> busy[w] \in Hand
         /\ busy[w].do = "read" <=> busy[w] \in Reader
         /\ busy[w].do = "write" <=> busy[w] \in Writer
         /\ busy[w].do = "rest" <=> busy[w] = Resting
         /\ busy[w].do \in Steps \cup {"read", "write", "rest"}
BY DEF PanelTyped, Resting, Hand, Reader, Writer, Steps

\* What kind of task has a step.
LEMMA StepKinds ==
  ASSUME NEW kind \in Kinds, NEW do \in StepsOf(kind)
  PROVE  /\ do \in Steps
         /\ do = "load" => kind \in {"delete", "backup", "disable", "enable"}
         /\ do = "update" => kind \in {"disable", "enable"}
         /\ do = "insert" => kind \in {"add", "restore"}
         /\ do = "createSchema" => kind = "add"
         /\ do = "addDomain" => kind \in {"add", "restore"}
         /\ do \in {"verify", "restoreSchema", "restoreData", "restoreFiles"} => kind = "restore"
         /\ do \in {"dropSchema", "dropRow", "dropFiles"} => kind = "delete"
         /\ do \in {"makeFolder", "dumpData", "copyFiles"} => kind = "backup"
         /\ do \in {"clean", "record"} => kind = "check"
BY DEF StepsOf, Steps, Kinds

\* The task a worker executes.
LEMMA TheTask ==
  ASSUME PanelTyped, HandsFit, NEW w \in CeleryWorkers, busy[w] \in Hand
  PROVE  /\ Mine(w) \in TaskJob /\ JobFits(Mine(w)) /\ Mine(w).kind \in Kinds /\ Mine(w).state = "started"
         /\ busy[w].t \in Tasks /\ busy[w].do \in StepsOf(Mine(w).kind) /\ HandFits(busy[w], Mine(w))
         /\ Mine(w) = job[busy[w].t]
<1>1. HandFits(busy[w], Mine(w)) /\ busy[w].t \in Tasks BY DEF HandsFit, Hand
<1>2. Mine(w) \in TaskJob /\ JobFits(Mine(w)) BY <1>1 DEF PanelTyped, Mine
<1>3. Mine(w).state = "started" BY <1>1 DEF HandFits
<1>4. Mine(w).kind \in Kinds BY <1>2, <1>3 DEF JobFits, TaskJob, Kinds
<1> QED BY <1>1, <1>2, <1>3, <1>4 DEF HandFits, Mine

-----------------------------------------------------------------------------
\* A step of a worker that has not finished with its task, and the last one.
Goes(w, next) ==
  /\ next \in Hand /\ next.t = busy[w].t /\ HandFits(next, Mine(w))
  /\ busy' = [busy EXCEPT ![w] = next] /\ job' = job /\ polls' = polls
GoesTo(w, do) == \E next : Goes(w, next) /\ next.do = do
Ends(w) == \E state \in {"done", "failed"} : End(w, state)

TaskStep(w) ==
  \/ Load(w) \/ InsertSite(w) \/ CreateSchema(w) \/ AddDomain(w) \/ DropSchema(w) \/ DropRow(w)
  \/ DropFiles(w) \/ UpdateSite(w) \/ MakeFolder(w) \/ DumpData(w) \/ CopyFiles(w)
  \/ Verify(w) \/ RestoreSchema(w) \/ RestoreData(w) \/ RestoreFiles(w) \/ CleanUp(w) \/ Record(w)

LEMMA StepAt ==
  ASSUME PanelTyped, NEW w \in CeleryWorkers, TaskStep(w)
  PROVE  busy[w] \in Hand
<1>1. busy[w].do \in Steps
  BY DEF TaskStep, Load, InsertSite, CreateSchema, AddDomain, DropSchema, DropRow, DropFiles, UpdateSite, MakeFolder,
     DumpData, CopyFiles, Verify, RestoreSchema, RestoreData, RestoreFiles, CleanUp, Record, At, Steps
<1> QED BY <1>1, TheHand

\* The next statement.
LEMMA ThenGoes ==
  ASSUME PanelTyped, HandsFit, NEW w \in CeleryWorkers, busy[w] \in Hand, NEW do, Then(w, do),
         do \in StepsOf(Mine(w).kind), do \in {"addDomain"} => busy[w].site \in Sites, do # "createSchema",
         do \in {"dropRow", "dropFiles", "dumpData", "copyFiles"} => busy[w].copy.there /\ busy[w].copy.schema \in Schemas,
         do \notin {"dropSchema", "makeFolder", "update"}
  PROVE  GoesTo(w, do) /\ Goes(w, [busy[w] EXCEPT !.do = do])
<1> DEFINE next == [busy[w] EXCEPT !.do = do]
<1>1. do \in Steps BY TheTask, StepKinds
<1>2. next \in Hand /\ next.t = busy[w].t /\ next.do = do /\ next.site = busy[w].site /\ next.copy = busy[w].copy
  BY <1>1 DEF Hand
<1>3. busy' = [busy EXCEPT ![w] = next] /\ job' = job /\ polls' = polls BY DEF Then
<1> HIDE DEF next
<1>4. HandFits(busy[w], Mine(w)) BY TheTask
<1>5. HandFits(next, Mine(w)) BY <1>2, <1>4 DEF HandFits
<1>6. Goes(w, next) BY <1>2, <1>3, <1>5 DEF Goes
<1> QED BY <1>2, <1>6 DEF GoesTo, next

\* The row that a task has loaded.
Loaded(w) == [busy[w] EXCEPT !.copy = client[busy[w].site],
                             !.do = CASE Mine(w).kind = "delete" -> "dropSchema"
                                      [] Mine(w).kind = "backup" -> "makeFolder"
                                      [] OTHER -> "update"]
LEMMA LoadGoes ==
  ASSUME PanelTyped, HandsFit, NEW w \in CeleryWorkers, busy[w] \in Hand, Load(w)
  PROVE  End(w, "failed") \/ (client[busy[w].site].there /\ Goes(w, Loaded(w)))
<1>1. CASE ~client[busy[w].site].there BY <1>1 DEF Load
<1>2. CASE client[busy[w].site].there
  <2> DEFINE do == CASE Mine(w).kind = "delete" -> "dropSchema"
                     [] Mine(w).kind = "backup" -> "makeFolder"
                     [] OTHER -> "update"
  <2>1. /\ Mine(w).kind \in {"delete", "backup", "disable", "enable"} /\ JobFits(Mine(w))
        /\ HandFits(busy[w], Mine(w))
    BY TheTask, StepKinds DEF Load, At
  <2>2. do \in StepsOf(Mine(w).kind) /\ do \in {"dropSchema", "makeFolder", "update"} BY <2>1 DEF StepsOf
  <2>3. do \in Steps BY <2>2 DEF Steps
  <2>4. busy' = [busy EXCEPT ![w] = Loaded(w)] /\ job' = job /\ polls' = polls BY <1>2 DEF Load, Loaded
  <2>5. Loaded(w) = [busy[w] EXCEPT !.copy = client[busy[w].site], !.do = do] BY DEF Loaded
  <2> HIDE DEF do
  <2>6. busy[w].site \in Sites BY <2>1 DEF JobFits, HandFits, Kinds
  <2>7. client[busy[w].site] \in SiteRow /\ client[busy[w].site].schema \in Schemas
    BY <1>2, <2>6 DEF PanelTyped, PanelTypeOK, SiteRow
  <2>8. /\ Loaded(w) \in Hand /\ Loaded(w).t = busy[w].t /\ Loaded(w).do = do /\ Loaded(w).site = busy[w].site
        /\ Loaded(w).copy = client[busy[w].site]
    BY <2>3, <2>5, <2>7 DEF Hand
  <2>9. HandFits(Loaded(w), Mine(w)) BY <1>2, <2>1, <2>2, <2>7, <2>8 DEF HandFits
  <2> QED BY <1>2, <2>4, <2>8, <2>9 DEF Goes
<1> QED BY <1>1, <1>2

\* The row that a task has made.
Inserted(w, i) == [busy[w] EXCEPT !.site = i, !.do = IF Mine(w).kind = "add" THEN "createSchema" ELSE "addDomain"]
Inserts(w, i) ==
  /\ NewSite(i) /\ Named(Mine(w).schema) = {}
  /\ client' = [client EXCEPT ![i] = [there |-> TRUE, schema |-> Mine(w).schema, active |-> TRUE]]
  /\ origin' = [origin EXCEPT ![i] = IF Mine(w).kind = "add" THEN [Unmade EXCEPT !.how = "inserted"]
                                     ELSE [how |-> "restored", from |-> busy[w].from]]
  /\ UNCHANGED <<domain, db, disk, archive, status>>
LEMMA InsertGoes ==
  ASSUME PanelTyped, HandsFit, NEW w \in CeleryWorkers, busy[w] \in Hand, InsertSite(w)
  PROVE  \/ Ends(w) /\ UNCHANGED sites /\ Named(Mine(w).schema) # {}
         \/ \E i \in Sites : Goes(w, Inserted(w, i)) /\ Inserts(w, i)
<1>1. CASE Named(Mine(w).schema) # {} BY <1>1 DEF InsertSite, Ends
<1>2. CASE Named(Mine(w).schema) = {}
  <2>1. PICK i \in Sites :
          /\ NewSite(i)
          /\ client' = [client EXCEPT ![i] = [there |-> TRUE, schema |-> Mine(w).schema, active |-> TRUE]]
          /\ origin' = [origin EXCEPT ![i] = IF Mine(w).kind = "add" THEN [Unmade EXCEPT !.how = "inserted"]
                                             ELSE [how |-> "restored", from |-> busy[w].from]]
          /\ busy' = [busy EXCEPT ![w].site = i, ![w].do = IF Mine(w).kind = "add" THEN "createSchema" ELSE "addDomain"]
    BY <1>2 DEF InsertSite
  <2>0. busy' = [busy EXCEPT ![w] = Inserted(w, i)] BY <2>1 DEF Inserted, PanelTyped
  <2>2. Mine(w).kind \in {"add", "restore"} /\ HandFits(busy[w], Mine(w)) BY TheTask, StepKinds DEF InsertSite, At
  <2> DEFINE do == IF Mine(w).kind = "add" THEN "createSchema" ELSE "addDomain"
  <2>3. do \in StepsOf(Mine(w).kind) /\ do \in Steps /\ do \in {"createSchema", "addDomain"}
    BY <2>2 DEF StepsOf, Steps
  <2>4. Inserted(w, i) = [busy[w] EXCEPT !.site = i, !.do = do] BY DEF Inserted
  <2> HIDE DEF do
  <2>5. /\ Inserted(w, i) \in Hand /\ Inserted(w, i).t = busy[w].t /\ Inserted(w, i).do = do /\ Inserted(w, i).site = i
        /\ Inserted(w, i).copy = busy[w].copy
    <3>1. i \in 0..MaxSites BY PanelAssumption DEF Sites
    <3> QED BY <2>3, <2>4, <3>1 DEF Hand
  <2>6. HandFits(Inserted(w, i), Mine(w)) BY <2>2, <2>3, <2>5 DEF HandFits
  <2>7. job' = job /\ polls' = polls /\ UNCHANGED <<domain, db, disk, archive, status>> BY <1>2 DEF InsertSite
  <2> QED BY <1>2, <2>0, <2>1, <2>5, <2>6, <2>7 DEF Goes, Inserts
<1> QED BY <1>1, <1>2

LEMMA RestoreSchemaGoes ==
  ASSUME PanelTyped, HandsFit, NEW w \in CeleryWorkers, busy[w] \in Hand, RestoreSchema(w)
  PROVE  \/ Ends(w) /\ UNCHANGED sites /\ db[Mine(w).schema] # 0
         \/ /\ Goes(w, [busy[w] EXCEPT !.do = "restoreData", !.from = archive])
            /\ db[Mine(w).schema] = 0 /\ db' = [db EXCEPT ![Mine(w).schema] = Nobodys]
            /\ UNCHANGED <<client, domain, disk, archive, status, origin>>
<1>1. CASE db[Mine(w).schema] # 0 BY <1>1 DEF RestoreSchema, Ends, sites
<1>2. CASE db[Mine(w).schema] = 0
  <2> DEFINE next == [busy[w] EXCEPT !.do = "restoreData", !.from = archive]
  <2>1. HandFits(busy[w], Mine(w)) /\ Mine(w).kind = "restore" BY TheTask, StepKinds DEF RestoreSchema, At
  <2>2. archive \in Archive BY DEF PanelTyped, PanelTypeOK
  <2>3. /\ next \in Hand /\ next.t = busy[w].t /\ next.do = "restoreData"
        /\ next.site = busy[w].site /\ next.copy = busy[w].copy
    BY <2>2 DEF Hand, Steps
  <2>4. busy' = [busy EXCEPT ![w] = next] /\ job' = job /\ polls' = polls BY <1>2 DEF RestoreSchema
  <2>5. db' = [db EXCEPT ![Mine(w).schema] = Nobodys] /\ UNCHANGED <<client, domain, disk, archive, status, origin>>
    BY <1>2 DEF RestoreSchema
  <2> HIDE DEF next
  <2>6. HandFits(next, Mine(w)) BY <2>1, <2>3 DEF HandFits, StepsOf
  <2>7. Goes(w, next) BY <2>3, <2>4, <2>6 DEF Goes
  <2> QED BY <1>2, <2>5, <2>7 DEF next
<1> QED BY <1>1, <1>2

\* Every step goes on or ends.
LEMMA StepGoes ==
  ASSUME PanelTyped, HandsFit, NEW w \in CeleryWorkers, TaskStep(w)
  PROVE  (Ends(w) \/ \E next : Goes(w, next)) /\ UNCHANGED <<row, old, form, crossed, met, deaths>>
<1>1. busy[w] \in Hand BY StepAt
<1>2. UNCHANGED <<row, old, form, crossed, met, deaths>>
  BY DEF TaskStep, Load, InsertSite, CreateSchema, AddDomain, DropSchema, DropRow, DropFiles, UpdateSite, MakeFolder,
     DumpData, CopyFiles, Verify, RestoreSchema, RestoreData, RestoreFiles, CleanUp, Record, Panel
<1>3. HandFits(busy[w], Mine(w)) /\ Mine(w).kind \in Kinds /\ busy[w].do \in StepsOf(Mine(w).kind) BY <1>1, TheTask
<1>4. CASE Load(w) BY <1>1, <1>2, <1>4, LoadGoes DEF Ends
<1>5. CASE InsertSite(w) BY <1>1, <1>2, <1>5, InsertGoes
<1>6. CASE RestoreSchema(w) BY <1>1, <1>2, <1>6, RestoreSchemaGoes
<1>7. CASE CreateSchema(w)
  <2>1. Then(w, "addDomain") /\ "addDomain" \in StepsOf(Mine(w).kind) /\ busy[w].site \in Sites
    BY <1>3, <1>7, StepKinds DEF CreateSchema, At, HandFits, StepsOf
  <2>2. GoesTo(w, "addDomain") BY <1>1, <2>1, ThenGoes
  <2> QED BY <1>2, <2>2 DEF GoesTo
<1>8. CASE DropSchema(w) \/ DropRow(w)
  <2>1. Mine(w).kind = "delete" /\ busy[w].copy.there /\ busy[w].copy.schema \in Schemas
    BY <1>3, <1>8, StepKinds DEF DropSchema, DropRow, At, HandFits
  <2>2. Then(w, "dropRow") \/ Then(w, "dropFiles") BY <1>8 DEF DropSchema, DropRow
  <2>3. "dropRow" \in StepsOf(Mine(w).kind) /\ "dropFiles" \in StepsOf(Mine(w).kind) BY <2>1 DEF StepsOf
  <2>4. GoesTo(w, "dropRow") \/ GoesTo(w, "dropFiles") BY <1>1, <2>1, <2>2, <2>3, ThenGoes
  <2> QED BY <1>2, <2>4 DEF GoesTo
<1>9. CASE MakeFolder(w) \/ DumpData(w)
  <2>1. Mine(w).kind = "backup" /\ busy[w].copy.there /\ busy[w].copy.schema \in Schemas
    BY <1>3, <1>9, StepKinds DEF MakeFolder, DumpData, At, HandFits
  <2>2. Then(w, "dumpData") \/ Then(w, "copyFiles") \/ End(w, "failed") BY <1>9 DEF MakeFolder, DumpData
  <2>3. "dumpData" \in StepsOf(Mine(w).kind) /\ "copyFiles" \in StepsOf(Mine(w).kind) BY <2>1 DEF StepsOf
  <2>4. GoesTo(w, "dumpData") \/ GoesTo(w, "copyFiles") \/ Ends(w) BY <1>1, <2>1, <2>2, <2>3, ThenGoes DEF Ends
  <2> QED BY <1>2, <2>4 DEF GoesTo
<1>10. CASE Verify(w) \/ RestoreData(w) \/ RestoreFiles(w)
  <2>1. Mine(w).kind = "restore" BY <1>3, <1>10, StepKinds DEF Verify, RestoreData, RestoreFiles, At
  <2>2. Then(w, "restoreSchema") \/ Then(w, "restoreFiles") \/ Then(w, "insert") \/ End(w, "failed")
    BY <1>10 DEF Verify, RestoreData, RestoreFiles, Then
  <2>3. \A do \in {"restoreSchema", "restoreFiles", "insert"} : do \in StepsOf(Mine(w).kind) BY <2>1 DEF StepsOf
  <2>4. GoesTo(w, "restoreSchema") \/ GoesTo(w, "restoreFiles") \/ GoesTo(w, "insert") \/ Ends(w)
    BY <1>1, <2>1, <2>2, <2>3, ThenGoes DEF Ends
  <2> QED BY <1>2, <2>4 DEF GoesTo
<1>11. CASE CleanUp(w)
  <2>1. Mine(w).kind = "check" /\ (Then(w, "record") \/ End(w, "failed")) BY <1>3, <1>11, StepKinds DEF CleanUp, At
  <2>2. "record" \in StepsOf(Mine(w).kind) BY <2>1 DEF StepsOf
  <2>3. GoesTo(w, "record") \/ Ends(w) BY <1>1, <2>1, <2>2, ThenGoes DEF Ends
  <2> QED BY <1>2, <2>3 DEF GoesTo
<1>12. CASE AddDomain(w) \/ DropFiles(w) \/ UpdateSite(w) \/ CopyFiles(w) \/ Record(w)
  BY <1>2, <1>12 DEF AddDomain, DropFiles, UpdateSite, CopyFiles, Record, Ends
<1> QED BY <1>4, <1>5, <1>6, <1>7, <1>8, <1>9, <1>10, <1>11, <1>12 DEF TaskStep

-----------------------------------------------------------------------------
\* Sites, schemas and folders keep their types, and sites their own names.
SitesTyped ==
  /\ client \in [Sites -> SiteRow] /\ domain \in [Domains -> 0..MaxSites]
  /\ db \in [Schemas -> Content] /\ disk \in [Schemas -> Content] /\ archive \in Archive
  /\ origin \in [Sites -> [how : {"unmade", "inserted", "added", "restored"}, from : Archive]]
  /\ \A i \in Sites : client[i].there => client[i].schema \in Schemas
  /\ \A i, j \in Sites : client[i].there /\ client[j].there /\ client[i].schema = client[j].schema => i = j

LEMMA TypedSites == PanelTyped => SitesTyped
BY DEF PanelTyped, PanelTypeOK, SitesTyped, SiteRow

LEMMA Consts == /\ 0 \in Content /\ Nobodys \in Content /\ Sites \subseteq Content /\ Sites \subseteq Nat \ {0}
                /\ NoSite \in SiteRow /\ ~NoSite.there /\ NoArchive \in Archive /\ ~NoArchive.listed
                /\ Unmade.how = "unmade" /\ Unmade.from = NoArchive /\ Sites \subseteq 0..MaxSites /\ 0 \in 0..MaxSites
BY PanelAssumption DEF Content, Nobodys, Sites, NoSite, SiteRow, NoArchive, Archive, Unmade

LEMMA InsertsTyped ==
  ASSUME PanelTyped, HandsFit, NEW w \in CeleryWorkers, busy[w] \in Hand, InsertSite(w)
  PROVE  SitesTyped'
<1> USE TypedSites, Consts
<1>1. CASE UNCHANGED sites BY <1>1 DEF sites, SitesTyped
<1>2. ASSUME NEW i \in Sites, Inserts(w, i) PROVE SitesTyped'
  <2> DEFINE new == [there |-> TRUE, schema |-> Mine(w).schema, active |-> TRUE]
             from == IF Mine(w).kind = "add" THEN [Unmade EXCEPT !.how = "inserted"]
                     ELSE [how |-> "restored", from |-> busy[w].from]
  <2>1. Mine(w).schema \in Schemas /\ busy[w].from \in Archive
    BY TheTask, StepKinds DEF InsertSite, At, JobFits, Hand
  <2>2. new \in SiteRow /\ new.there /\ new.schema = Mine(w).schema BY <2>1 DEF SiteRow
  <2>3. from \in [how : {"unmade", "inserted", "added", "restored"}, from : Archive] BY <2>1 DEF Unmade
  <2>4. client' = [client EXCEPT ![i] = new] /\ origin' = [origin EXCEPT ![i] = from]
        /\ UNCHANGED <<domain, db, disk, archive>>
    BY <1>2 DEF Inserts
  <2>5. \A j \in Sites : client[j].there => client[j].schema # Mine(w).schema BY <1>2 DEF Inserts, Named
  <2> HIDE DEF new, from
  <2> QED BY <2>1, <2>2, <2>3, <2>4, <2>5 DEF SitesTyped
<1> QED BY <1>1, <1>2, InsertGoes

LEMMA StepSitesTyped ==
  ASSUME PanelTyped, HandsFit, NEW w \in CeleryWorkers, TaskStep(w)
  PROVE  SitesTyped'
<1> USE TypedSites, Consts
<1>1. busy[w] \in Hand BY StepAt
<1>2. HandFits(busy[w], Mine(w)) /\ Mine(w).kind \in Kinds /\ busy[w].do \in StepsOf(Mine(w).kind) /\ JobFits(Mine(w))
  BY <1>1, TheTask
<1>3. busy[w].site \in 0..MaxSites /\ busy[w].copy \in SiteRow /\ busy[w].from \in Archive BY <1>1 DEF Hand
<1>4. CASE InsertSite(w) BY <1>1, <1>4, InsertsTyped
<1>5. CASE UNCHANGED sites BY <1>5 DEF sites, SitesTyped
<1>6. CASE CreateSchema(w)
  <2>1. Mine(w).kind = "add" BY <1>2, <1>6, StepKinds DEF CreateSchema, At
  <2>2. Mine(w).schema \in Schemas /\ busy[w].site \in Sites
    BY <1>2, <1>6, <2>1 DEF JobFits, HandFits, CreateSchema, At
  <2>3. /\ db' = [db EXCEPT ![Mine(w).schema] = IF @ = 0 THEN busy[w].site ELSE @]
        /\ origin' = [origin EXCEPT ![busy[w].site].how = "added"]
        /\ UNCHANGED <<client, domain, disk, archive>>
    BY <1>6 DEF CreateSchema
  <2> QED BY <2>2, <2>3 DEF SitesTyped
<1>7. CASE AddDomain(w)
  BY <1>7, <1>3 DEF AddDomain, SitesTyped
<1>8. CASE DropSchema(w) BY <1>8 DEF SitesTyped, DropSchema
<1>9. CASE DropRow(w)
  BY <1>9 DEF DropRow, SitesTyped
<1>10. CASE DropFiles(w) BY <1>10 DEF SitesTyped, DropFiles
<1>11. CASE UpdateSite(w)
  <2>1. UNCHANGED <<domain, db, disk, archive, origin>> BY <1>11 DEF UpdateSite
  <2>2. CASE client' = client BY <2>1, <2>2 DEF SitesTyped
  <2>3. CASE Named(busy[w].copy.schema) \subseteq {busy[w].site}
    <3> DEFINE new == [busy[w].copy EXCEPT !.active = (Mine(w).kind = "enable")]
    <3>1. client' = [client EXCEPT ![busy[w].site] = new] BY <1>11, <2>3 DEF UpdateSite
    <3>2. busy[w].copy.there /\ busy[w].copy.schema \in Schemas BY <1>2, <1>11 DEF HandFits, UpdateSite, At
    <3>3. new \in SiteRow /\ new.there = busy[w].copy.there /\ new.schema = busy[w].copy.schema BY <1>3 DEF SiteRow
    <3> HIDE DEF new
    <3>4. \A j \in Sites : client[j].there /\ client[j].schema = new.schema => j = busy[w].site
      BY <2>3, <3>3 DEF Named
    <3> QED BY <2>1, <3>1, <3>2, <3>3, <3>4 DEF SitesTyped
  <2> QED BY <1>11, <2>2, <2>3 DEF UpdateSite
<1>12. CASE MakeFolder(w) \/ DumpData(w) \/ CopyFiles(w)
  <2>1. UNCHANGED <<client, domain, db, disk, origin>> BY <1>12 DEF MakeFolder, DumpData, CopyFiles
  <2>2. busy[w].copy.schema \in Schemas BY <1>2, <1>12 DEF HandFits, MakeFolder, DumpData, CopyFiles, At
  <2>3. db[busy[w].copy.schema] \in Content /\ disk[busy[w].copy.schema] \in Content /\ archive \in Archive
    BY <2>2 DEF SitesTyped
  <2>4. archive' \in Archive
    BY <2>3, <1>12 DEF MakeFolder, Archive, DumpData, CopyFiles
  <2> QED BY <2>1, <2>4 DEF SitesTyped
<1>13. CASE RestoreSchema(w) \/ RestoreData(w) \/ RestoreFiles(w)
  <2>1. archive.data \in Content /\ archive.files \in Content BY DEF SitesTyped, Archive
  <2>2. CASE RestoreSchema(w)
    <3>1. UNCHANGED <<client, domain, disk, archive, origin>> BY <2>2 DEF RestoreSchema
    <3>2. db' = db \/ db' = [db EXCEPT ![Mine(w).schema] = Nobodys] BY <2>2 DEF RestoreSchema
    <3> QED BY <3>1, <3>2 DEF SitesTyped
  <2>3. CASE RestoreData(w) BY <2>1, <2>3 DEF RestoreData, SitesTyped
  <2>4. CASE RestoreFiles(w) BY <2>1, <2>4 DEF RestoreFiles, SitesTyped
  <2> QED BY <1>13, <2>2, <2>3, <2>4
<1>14. CASE Load(w) \/ Verify(w) BY <1>5, <1>14 DEF Load, Verify
<1>15. CASE CleanUp(w) \/ Record(w)
  BY <1>15 DEF CleanUp, Record, SitesTyped
<1> QED BY <1>4, <1>6, <1>7, <1>8, <1>9, <1>10, <1>11, <1>12, <1>13, <1>14, <1>15 DEF TaskStep

-----------------------------------------------------------------------------
\* Types, from a step of a task.
LEMMA TasksCount ==
  ASSUME NEW S \in SUBSET Tasks
  PROVE  IsFiniteSet(S) /\ Cardinality(S) \in Nat /\ Cardinality(S) <= MaxTasks
<1>1. MaxTasks \in Int /\ 1 \in Int /\ MaxTasks \in Nat BY PanelAssumption
<1>2. IsFiniteSet(Tasks) /\ Cardinality(Tasks) = IF 1 > MaxTasks THEN 0 ELSE MaxTasks - 1 + 1
  BY <1>1, FS_Interval DEF Tasks
<1>3. IsFiniteSet(S) /\ Cardinality(S) <= Cardinality(Tasks) BY <1>2, FS_Subset
<1>4. Cardinality(S) \in Nat BY <1>3, FS_CardinalityType
<1> QED BY <1>1, <1>2, <1>3, <1>4

\* The task goes on.
LEMMA GoesKeeps ==
  ASSUME PanelTyped, HandsFit, PollsPaid, NEW w \in CeleryWorkers, busy[w] \in Hand, NEW next, Goes(w, next),
         SitesTyped', UNCHANGED <<row, old, form, crossed, met, deaths>>
  PROVE  PanelTyped' /\ HandsFit' /\ PollsPaid'
<1>1. /\ next \in Hand /\ next.t = busy[w].t /\ HandFits(next, Mine(w))
      /\ busy' = [busy EXCEPT ![w] = next] /\ job' = job /\ polls' = polls
  BY DEF Goes
<1>2. busy \in [CeleryWorkers -> {Resting} \cup Hand \cup Reader \cup Writer] BY DEF PanelTyped
<1>3. busy'[w] = next /\ \A v \in CeleryWorkers : v # w => busy'[v] = busy[v] BY <1>1, <1>2
<1>4. busy' \in [CeleryWorkers -> {Resting} \cup Hand \cup Reader \cup Writer] BY <1>1, <1>2
<1>5. PanelTypeOK' BY <1>1 DEF PanelTyped, PanelTypeOK, SitesTyped, SiteRow
<1>6. PanelTyped' BY <1>1, <1>4, <1>5 DEF PanelTyped, SitesTyped
<1>7. Mine(w)' = Mine(w) /\ \A v \in CeleryWorkers : Mine(v)' = job[busy'[v].t] BY <1>1, <1>3 DEF Mine
<1>8. next \notin Reader \cup Writer BY <1>1 DEF Hand, Reader, Writer, Steps
<1>9. HandsFit'
  <2>1. \A v \in CeleryWorkers : busy'[v] \in Hand => HandFits(busy'[v], Mine(v)')
    <3>1. TAKE v \in CeleryWorkers
    <3>2. CASE v = w BY <1>1, <1>3, <1>7, <3>2
    <3>3. CASE v # w
      BY <1>3, <1>7, <3>3 DEF Mine, HandsFit
    <3> QED BY <3>2, <3>3
  <2>2. \A v \in CeleryWorkers : busy'[v] \in Hand => busy[v] \in Hand /\ busy'[v].t = busy[v].t BY <1>1, <1>3
  <2>3. \A u, v \in CeleryWorkers : busy'[u] \in Hand /\ busy'[v] \in Hand /\ busy'[u].t = busy'[v].t => u = v
    BY <2>2 DEF HandsFit
  <2>4. \A v \in CeleryWorkers : busy'[v] \in Reader \cup Writer => busy'[v] = busy[v] BY <1>3, <1>8
  <2> QED BY <2>1, <2>3, <2>4 DEF HandsFit
<1>10. PollsPaid' BY <1>1 DEF PollsPaid, DoneTasks
<1> QED BY <1>6, <1>9, <1>10

\* It ends, and its follow-up may be submitted.
LEMMA EndsKeeps ==
  ASSUME PanelTyped, HandsFit, PollsPaid, NEW w \in CeleryWorkers, busy[w] \in Hand, Ends(w),
         SitesTyped', UNCHANGED <<row, old, form, crossed, met, deaths>>
  PROVE  PanelTyped' /\ HandsFit' /\ PollsPaid'
<1> PICK state \in {"done", "failed"} : End(w, state) BY DEF Ends
<1> DEFINE t == busy[w].t
           ended == [job[t] EXCEPT !.state = state]
<1>1. Mine(w) \in TaskJob /\ JobFits(Mine(w)) /\ Mine(w).kind \in Kinds /\ Mine(w).state = "started" /\ t \in Tasks
      /\ Mine(w) = job[t]
  BY TheTask
<1>2. /\ ended \in TaskJob /\ ended.kind = job[t].kind /\ ended.site = job[t].site /\ ended.schema = job[t].schema
      /\ ended.host = job[t].host /\ ended.state = state
  BY <1>1 DEF TaskJob
<1>3. job' = [job EXCEPT ![t] = ended] /\ busy' = [busy EXCEPT ![w] = Resting]
      /\ (polls' = polls \/ (state = "done" /\ polls' = polls + 1))
  BY DEF End
<1> PICK end : end = ended OBVIOUS
<1> PICK u \in Tasks : u = t BY <1>1
<1> HIDE DEF ended, t
<1>4. busy \in [CeleryWorkers -> {Resting} \cup Hand \cup Reader \cup Writer] /\ job \in [Tasks -> TaskJob]
  BY DEF PanelTyped
<1>5. busy'[w] = Resting /\ \A v \in CeleryWorkers : v # w => busy'[v] = busy[v] BY <1>3, <1>4
<1>6. job'[u] = end /\ \A v \in Tasks : v # u => job'[v] = job[v] BY <1>3, <1>4
<1>7. job' \in [Tasks -> TaskJob] /\ busy' \in [CeleryWorkers -> {Resting} \cup Hand \cup Reader \cup Writer]
  BY <1>2, <1>3, <1>4
<1>8. end.kind # "none" /\ end # NoJob /\ JobFits(end) /\ job[u] # NoJob
  BY <1>1, <1>2 DEF JobFits, Kinds, NoJob, Request, TaskJob
<1>9. \A v \in Tasks : JobFits(job'[v]) /\ (job[v] # NoJob => job'[v] # NoJob) BY <1>6, <1>8 DEF PanelTyped
<1>10. Resting \notin Hand \cup Reader \cup Writer BY DEF Hand, Reader, Writer, Resting, Steps
<1>11. DoneTasks' = IF state = "done" THEN DoneTasks \cup {u} ELSE DoneTasks BY <1>1, <1>2, <1>6 DEF DoneTasks
<1>12. u \notin DoneTasks BY <1>1 DEF DoneTasks
<1>13. PollsPaid' /\ polls' \in 0..MaxTasks
  <2>1. polls \in Nat /\ polls <= Cardinality(DoneTasks) BY PanelAssumption DEF PanelTyped, PanelTypeOK, PollsPaid
  <2>2. /\ IsFiniteSet(DoneTasks) /\ Cardinality(DoneTasks) \in Nat
        /\ Cardinality(DoneTasks') \in Nat /\ Cardinality(DoneTasks') <= MaxTasks
    BY TasksCount DEF DoneTasks
  <2>3. CASE state = "done"
    <3>1. Cardinality(DoneTasks') = Cardinality(DoneTasks) + 1 BY <1>11, <1>12, <2>2, <2>3, FS_AddElement
    <3> QED BY <1>3, <2>1, <2>2, <3>1, PanelAssumption DEF PollsPaid
  <2>4. CASE state # "done"
    BY <1>11, <2>4, <1>3, <2>1, <2>2, PanelAssumption DEF PollsPaid
  <2> QED BY <2>3, <2>4
<1>14. PanelTypeOK' BY <1>9, <1>13 DEF PanelTyped, PanelTypeOK, SitesTyped, SiteRow
<1>15. form # 0 => job'[form] # NoJob
  BY PanelAssumption, <1>9 DEF PanelTyped, PanelTypeOK, Tasks
<1>16. PanelTyped' BY <1>7, <1>9, <1>14, <1>15 DEF PanelTyped, SitesTyped
<1>17. HandsFit'
  <2>1. \A v \in CeleryWorkers : busy'[v] \in Hand => v # w /\ busy'[v] = busy[v] BY <1>5, <1>10
  <2>2. ASSUME NEW v \in CeleryWorkers, busy'[v] \in Hand
        PROVE  HandFits(busy'[v], Mine(v)')
    <3>1. v # w /\ busy[v] \in Hand /\ busy[v].t # u BY <2>1, <2>2 DEF HandsFit, t
    <3>2. Mine(v)' = Mine(v)
      BY <3>1, <1>5, <1>6 DEF Hand, Mine
    <3> QED BY <2>1, <2>2, <3>1, <3>2 DEF HandsFit
  <2>3. \A v, x \in CeleryWorkers : busy'[v] \in Hand /\ busy'[x] \in Hand /\ busy'[v].t = busy'[x].t => v = x
    BY <2>1 DEF HandsFit
  <2>4. \A v \in CeleryWorkers : busy'[v] \in Reader \cup Writer => busy'[v] = busy[v] BY <1>5, <1>10
  <2> QED BY <2>2, <2>3, <2>4 DEF HandsFit
<1> QED BY <1>13, <1>16, <1>17

LEMMA StepKeeps ==
  ASSUME PanelTyped, HandsFit, PollsPaid, NEW w \in CeleryWorkers, TaskStep(w)
  PROVE  PanelTyped' /\ HandsFit' /\ PollsPaid'
BY StepAt, StepSitesTyped, StepGoes, EndsKeeps, GoesKeeps

-----------------------------------------------------------------------------
\* What a view may ask.
Asked(request) ==
  /\ request \in TaskJob /\ JobFits(request) /\ request.kind \in Kinds /\ request.state = "queued"
  /\ request.kind = "backup" => archive = NoArchive /\ \A t \in Tasks : job[t].kind # "backup"
Submits == SitesAdd \/ SitesDelete \/ SitesDisable \/ SitesEnable \/ SitesBackup \/ StatusRound
\* What it does to the tasks.
Queues(t, request) ==
  /\ t \in Tasks /\ job[t] = NoJob /\ job' = [job EXCEPT ![t] = request] /\ Asked(request)
  /\ UNCHANGED <<sites, row, old, polls, busy, crossed, met, deaths>>

LEMMA Requested ==
  ASSUME NEW kind \in Kinds, NEW site \in 0..MaxSites, NEW schema \in Schemas \cup {"none"},
         NEW host \in Domains \cup {"none"}
  PROVE  LET request == Request(kind, site, schema, host)
         IN  /\ request \in TaskJob /\ request.kind = kind /\ request.site = site /\ request.schema = schema
             /\ request.host = host /\ request.state = "queued" /\ request # NoJob
BY DEF Request, TaskJob, NoJob, Kinds

LEMMA SubmitsAsked ==
  ASSUME Submits
  PROVE  \E request : Asked(request) /\ Submit(request)
<1>1. CASE SitesAdd
  BY <1>1, Consts, Requested DEF SitesAdd, Kinds, JobFits, Asked
<1>2. ASSUME NEW kind \in {"delete", "disable", "enable", "backup", "check"}, NEW i \in Present,
             Submit(Request(kind, i, "none", "none")),
             kind = "backup" => archive = NoArchive /\ \A t \in Tasks : job[t].kind # "backup"
      PROVE  \E request : Asked(request) /\ Submit(request)
  BY Consts, Requested, <1>2 DEF Kinds, Present, JobFits, Asked
<1>3. CASE SitesDelete
  BY <1>3, <1>2 DEF SitesDelete
<1>4. CASE SitesDisable
  BY <1>4, <1>2 DEF SitesDisable
<1>5. CASE SitesEnable
  BY <1>5, <1>2 DEF SitesEnable
<1>6. CASE SitesBackup
  BY <1>6, <1>2 DEF SitesBackup
<1>7. CASE StatusRound
  BY <1>7, <1>2 DEF StatusRound
<1> QED BY <1>1, <1>3, <1>4, <1>5, <1>6, <1>7 DEF Submits

LEMMA SubmitsQueues ==
  ASSUME Submits
  PROVE  form = 0 /\ \E t, request : Queues(t, request) /\ form' \in {0, t}
BY SubmitsAsked DEF Submit, Submitted, Queues

\* What nobody has saved shows no state; a queued task is not one that a worker has.
LEMMA QueuesKeeps ==
  ASSUME PanelTyped, HandsFit, PollsPaid, NEW t, NEW request, Queues(t, request), form' \in {0, t}
  PROVE  PanelTyped' /\ HandsFit' /\ PollsPaid'
<1>1. /\ t \in Tasks /\ job[t] = NoJob /\ job' = [job EXCEPT ![t] = request] /\ Asked(request)
      /\ UNCHANGED <<client, domain, db, disk, archive, status, origin, row, old, polls, busy, crossed, met, deaths>>
  BY DEF Queues, sites
<1>2. request \in TaskJob /\ JobFits(request) /\ request.kind \in Kinds /\ request.state = "queued" BY <1>1 DEF Asked
<1>3. request # NoJob /\ NoJob.state = "none" BY <1>2 DEF NoJob, Request, Kinds
<1>4. job'[t] = request /\ \A u \in Tasks : u # t => job'[u] = job[u] BY <1>1 DEF PanelTyped
<1>5. job' \in [Tasks -> TaskJob] /\ \A u \in Tasks : JobFits(job'[u]) /\ (job[u] # NoJob => job'[u] # NoJob)
  BY <1>1, <1>2, <1>3, <1>4 DEF PanelTyped
<1>6. row[t] = "none" BY <1>1 DEF PanelTyped, PanelTypeOK
<1>7. form' \in 0..MaxTasks /\ (form' # 0 => form' = t) BY <1>1, PanelAssumption DEF Tasks
<1>8. PanelTypeOK' BY <1>1, <1>5, <1>7 DEF PanelTyped, PanelTypeOK
<1>9. PanelTyped' BY <1>1, <1>3, <1>4, <1>5, <1>6, <1>7, <1>8 DEF PanelTyped
<1>10. HandsFit'
  BY TheTask, <1>1, <1>3, <1>4 DEF Mine, HandsFit
<1>11. DoneTasks' = DoneTasks BY <1>1, <1>2, <1>3, <1>4 DEF DoneTasks
<1> QED BY <1>1, <1>9, <1>10, <1>11 DEF PollsPaid

LEMMA SaveTaskKeeps ==
  ASSUME PanelTyped, HandsFit, PollsPaid, SaveTask
  PROVE  PanelTyped' /\ HandsFit' /\ PollsPaid'
<1>1. /\ form # 0 /\ row' = [row EXCEPT ![form] = "PENDING"] /\ form' = 0
      /\ UNCHANGED <<client, domain, db, disk, archive, status, origin, job, old, polls, busy, crossed, met, deaths>>
  BY DEF SaveTask, sites
<1>2. form \in Tasks /\ job[form] # NoJob /\ 0 \in 0..MaxTasks
  BY <1>1, PanelAssumption DEF PanelTyped, PanelTypeOK, Tasks
<1>3. row' \in [Tasks -> Final \cup {"none", "PENDING", "STARTED"}]
      /\ \A t \in Tasks : (row[t] # "none" => row'[t] # "none") /\ (row'[t] # "none" => job[t] # NoJob)
  BY <1>1, <1>2 DEF PanelTyped, PanelTypeOK
<1>4. PanelTypeOK' BY <1>1, <1>2, <1>3 DEF PanelTyped, PanelTypeOK
<1>5. PanelTyped' BY <1>1, <1>4 DEF PanelTyped
<1>6. HandsFit'
  BY <1>1, <1>3 DEF Mine, Reader, Writer, HandsFit
<1>7. DoneTasks' = DoneTasks BY <1>1 DEF DoneTasks
<1> QED BY <1>1, <1>5, <1>6, <1>7 DEF PollsPaid

LEMMA WorldKeeps ==
  ASSUME PanelTyped, HandsFit, PollsPaid, Upload \/ DayPasses \/ \E w \in CeleryWorkers : ListBackup(w)
  PROVE  PanelTyped' /\ HandsFit' /\ PollsPaid'
<1>1. /\ UNCHANGED <<client, domain, db, status, origin, row, job, form, polls, busy, crossed, met, deaths>>
      /\ old' = old \/ old' = {t \in Tasks : row[t] # "none"}
      /\ archive' = archive \/ archive' = [archive EXCEPT !.listed = TRUE]
      /\ disk' = disk \/ Upload
  BY DEF Upload, DayPasses, ListBackup, sites
<1>2. disk' \in [Schemas -> Content]
  BY TypedSites, Consts, <1>1 DEF SitesTyped, Upload, Present
<1>3. archive' \in Archive
  BY TypedSites, <1>1 DEF SitesTyped, Archive
<1>4. old' \subseteq Tasks BY <1>1 DEF PanelTyped, PanelTypeOK
<1>5. PanelTyped' BY <1>1, <1>2, <1>3, <1>4 DEF PanelTyped, PanelTypeOK
<1>6. HandsFit' /\ PollsPaid' BY <1>1 DEF HandsFit, PollsPaid, DoneTasks, Mine
<1> QED BY <1>5, <1>6

-----------------------------------------------------------------------------
\* A task on sites is taken while another one is executed.
CrossesWith(t) ==
  /\ OnSites(job[t])
  /\ \E u \in Tasks : OnSites(job[u]) /\ job[u].state = "started" /\ \E v \in CeleryWorkers : busy[v] # Resting /\ busy[v].t = u

LEMMA TakesHand ==
  ASSUME PanelTyped, NEW w \in CeleryWorkers, Take(w)
  PROVE  \E t \in Tasks, hand \in Hand :
           /\ busy[w] = Resting /\ job[t].state = "queued" /\ job' = [job EXCEPT ![t].state = "started"]
           /\ busy' = [busy EXCEPT ![w] = hand] /\ hand.t = t /\ hand.do = First(job[t].kind)
           /\ hand.do \in StepsOf(job[t].kind) /\ hand.site = job[t].site /\ ~hand.from.listed
           /\ crossed' = (crossed \/ CrossesWith(t))
<1>1. PICK t \in Tasks :
        /\ job[t].state = "queued" /\ job' = [job EXCEPT ![t].state = "started"]
        /\ busy' = [busy EXCEPT ![w] = [do |-> First(job[t].kind), t |-> t, site |-> job[t].site,
                                        copy |-> NoSite, from |-> NoArchive]]
        /\ crossed' = (crossed \/ CrossesWith(t))
  BY DEF Take, CrossesWith
<1> DEFINE hand == [do |-> First(job[t].kind), t |-> t, site |-> job[t].site, copy |-> NoSite, from |-> NoArchive]
<1>2. job[t] \in TaskJob /\ JobFits(job[t]) BY DEF PanelTyped
<1>3. job[t].kind \in Kinds BY <1>1, <1>2 DEF JobFits, TaskJob
<1>4. First(job[t].kind) \in StepsOf(job[t].kind) /\ First(job[t].kind) \in Steps
  BY <1>3 DEF First, StepsOf, Steps, Kinds
<1>5. hand \in Hand /\ ~hand.from.listed BY <1>2, <1>4, Consts DEF Hand, TaskJob
<1>6. hand.t = t /\ hand.do = First(job[t].kind) /\ hand.site = job[t].site OBVIOUS
<1>7. busy[w] = Resting BY DEF Take
<1>8. busy' = [busy EXCEPT ![w] = hand] BY <1>1
<1> HIDE DEF hand
<1> QED BY <1>1, <1>4, <1>5, <1>6, <1>7, <1>8

LEMMA TakeKeeps ==
  ASSUME PanelTyped, HandsFit, PollsPaid, NEW w \in CeleryWorkers, Take(w)
  PROVE  PanelTyped' /\ HandsFit' /\ PollsPaid'
<1>1. PICK t \in Tasks, hand \in Hand :
        /\ busy[w] = Resting /\ job[t].state = "queued" /\ job' = [job EXCEPT ![t].state = "started"]
        /\ busy' = [busy EXCEPT ![w] = hand] /\ hand.t = t /\ hand.do = First(job[t].kind)
        /\ hand.do \in StepsOf(job[t].kind) /\ hand.site = job[t].site /\ ~hand.from.listed
        /\ crossed' = (crossed \/ CrossesWith(t))
  BY TakesHand
<1>2. UNCHANGED <<client, domain, db, disk, archive, status, origin, row, old, form, polls, met, deaths>>
  BY DEF Take, sites
<1>3. PICK taken : taken = [job[t] EXCEPT !.state = "started"] OBVIOUS
<1>4. job[t] \in TaskJob /\ JobFits(job[t]) /\ job[t].kind \in Kinds BY <1>1 DEF PanelTyped, JobFits, TaskJob
<1>5. /\ taken \in TaskJob /\ JobFits(taken) /\ taken.kind = job[t].kind /\ taken.site = job[t].site
      /\ taken.state = "started" /\ taken # NoJob
  BY <1>3, <1>4 DEF TaskJob, JobFits, NoJob, Request, Kinds
<1>6. job' = [job EXCEPT ![t] = taken] BY <1>1, <1>3
<1>7. job \in [Tasks -> TaskJob] /\ busy \in [CeleryWorkers -> {Resting} \cup Hand \cup Reader \cup Writer]
  BY DEF PanelTyped
<1>8. job'[t] = taken /\ \A u \in Tasks : u # t => job'[u] = job[u] BY <1>6, <1>7
<1>9. busy'[w] = hand /\ \A v \in CeleryWorkers : v # w => busy'[v] = busy[v] BY <1>1, <1>7
<1>10. job' \in [Tasks -> TaskJob] /\ \A u \in Tasks : JobFits(job'[u]) /\ (job[u] # NoJob => job'[u] # NoJob)
  BY <1>5, <1>6, <1>7, <1>8 DEF PanelTyped
<1>11. busy' \in [CeleryWorkers -> {Resting} \cup Hand \cup Reader \cup Writer] BY <1>1, <1>7
<1>12. crossed' \in BOOLEAN BY <1>1 DEF PanelTyped
<1>13. PanelTypeOK' BY <1>2, <1>10 DEF PanelTyped, PanelTypeOK
<1>14. form # 0 => job'[form] # NoJob
  BY PanelAssumption, <1>10 DEF PanelTyped, PanelTypeOK, Tasks
<1>15. PanelTyped' BY <1>2, <1>10, <1>11, <1>12, <1>13, <1>14 DEF PanelTyped
<1>16. HandsFit'
  <2>1. HandFits(hand, taken)
    BY <1>1, <1>4, <1>5 DEF First, Kinds, HandFits
  <2>2. ASSUME NEW v \in CeleryWorkers, v # w, busy[v] \in Hand
        PROVE  busy[v].t # t /\ Mine(v)' = Mine(v)
    BY <2>2, TheTask, <1>1, <1>8, <1>9 DEF Mine
  <2>3. Mine(w)' = taken BY <1>1, <1>8, <1>9 DEF Mine
  <2>4. \A v \in CeleryWorkers : busy'[v] \in Hand => HandFits(busy'[v], Mine(v)')
    <3> TAKE v \in CeleryWorkers
    <3>1. CASE v = w BY <1>9, <2>1, <2>3, <3>1
    <3>2. CASE v # w BY <1>9, <2>2, <3>2 DEF HandsFit
    <3> QED BY <3>1, <3>2
  <2>5. \A u, v \in CeleryWorkers : busy'[u] \in Hand /\ busy'[v] \in Hand /\ busy'[u].t = busy'[v].t => u = v
    <3> TAKE u, v \in CeleryWorkers
    <3>1. CASE u = w \/ v = w BY <1>1, <1>9, <2>2, <3>1
    <3>2. CASE u # w /\ v # w BY <1>9, <3>2 DEF HandsFit
    <3> QED BY <3>1, <3>2
  <2>6. hand \notin Reader \cup Writer BY DEF Hand, Reader, Writer, Steps
  <2>7. \A v \in CeleryWorkers : busy'[v] \in Reader \cup Writer => busy'[v] = busy[v] BY <1>9, <2>6
  <2> QED BY <1>2, <2>4, <2>5, <2>7 DEF HandsFit
<1>17. DoneTasks' = DoneTasks BY <1>1, <1>5, <1>8 DEF DoneTasks
<1> QED BY <1>2, <1>15, <1>16, <1>17 DEF PollsPaid

-----------------------------------------------------------------------------
\* Workers that come or go without a task.
LEMMA HoldsKeeps ==
  ASSUME PanelTyped, HandsFit, PollsPaid, NEW w \in CeleryWorkers, NEW next \in {Resting} \cup Reader \cup Writer,
         busy' = [busy EXCEPT ![w] = next],
         next \in Reader \cup Writer => \A t \in next.left : row[t] # "none",
         next \in Writer => row[next.t] # "none",
         UNCHANGED <<client, domain, db, disk, archive, status, origin, job, old, form, crossed>>,
         polls' \in Nat, polls' <= polls, met' \in BOOLEAN, deaths' \in Nat,
         row' \in [Tasks -> Final \cup {"none", "PENDING", "STARTED"}],
         \A t \in Tasks : row'[t] = "none" <=> row[t] = "none"
  PROVE  PanelTyped' /\ HandsFit' /\ PollsPaid'
<1>1. busy \in [CeleryWorkers -> {Resting} \cup Hand \cup Reader \cup Writer] BY DEF PanelTyped
<1>2. /\ busy'[w] = next /\ \A v \in CeleryWorkers : v # w => busy'[v] = busy[v]
      /\ busy' \in [CeleryWorkers -> {Resting} \cup Hand \cup Reader \cup Writer]
  BY <1>1
<1>3. next \notin Hand BY DEF Hand, Reader, Writer, Resting, Steps
<1>4. polls' \in 0..MaxTasks BY PanelAssumption DEF PanelTyped, PanelTypeOK
<1>5. PanelTypeOK' BY <1>4 DEF PanelTyped, PanelTypeOK
<1>6. PanelTyped'
  BY PanelAssumption, <1>2, <1>5 DEF PanelTyped, PanelTypeOK, Tasks
<1>7. HandsFit'
  BY <1>2, <1>3 DEF Mine, Reader, Writer, HandsFit
<1>8. PollsPaid'
  BY TasksCount, PanelAssumption DEF DoneTasks, PanelTyped, PanelTypeOK, PollsPaid
<1> QED BY <1>6, <1>7, <1>8

FollowStep(w) == BeginPoll(w) \/ ReadRemote(w) \/ WriteTask(w) \/ WorkerDies(w)
Begun(S)    == [do |-> "read", t |-> 0, left |-> S, ended |-> {t \in Tasks : row[t] # "none" /\ Ended(t)}]
RestOf(w)   == [do |-> "read", t |-> 0, left |-> busy[w].left, ended |-> busy[w].ended]
Looked(w, t) == [do |-> "write", t |-> t, left |-> busy[w].left \ {t}, ended |-> busy[w].ended, state |-> Remote(t)]

LEMMA FollowKeeps ==
  ASSUME PanelTyped, HandsFit, PollsPaid, NEW w \in CeleryWorkers, FollowStep(w)
  PROVE  PanelTyped' /\ HandsFit' /\ PollsPaid'
<1>1. row \in [Tasks -> Final \cup {"none", "PENDING", "STARTED"}] /\ polls \in Nat /\ met \in BOOLEAN /\ deaths \in Nat
  BY PanelAssumption DEF PanelTyped, PanelTypeOK
<1>2. CASE BeginPoll(w)
  <2>1. PICK next : next = IF Open = {} THEN Resting ELSE Begun(Open) OBVIOUS
  <2>2. busy' = [busy EXCEPT ![w] = next] BY <1>2, <2>1 DEF BeginPoll, Begun
  <2>3. Begun(Open) \in Reader /\ Begun(Open).left = Open BY DEF Begun, Reader, Open
  <2>4. \A t \in Open : row[t] # "none" BY DEF Open
  <2>5. next \in {Resting} \cup Reader \cup Writer /\ next \notin Writer
        /\ (next \in Reader \cup Writer => \A t \in next.left : row[t] # "none")
    BY <2>3, <2>4, <2>1 DEF Resting, Reader, Writer
  <2>6. polls' \in Nat /\ polls' <= polls /\ met' \in BOOLEAN BY <1>1, <1>2 DEF BeginPoll
  <2>7. UNCHANGED <<client, domain, db, disk, archive, status, origin, row, job, old, form, crossed, deaths>>
    BY <1>2 DEF BeginPoll, sites
  <2> QED BY <1>1, <2>2, <2>5, <2>6, <2>7, HoldsKeeps
<1>3. CASE ReadRemote(w)
  <2>1. PICK t \in busy[w].left : busy' = [busy EXCEPT ![w] = Looked(w, t)] BY <1>3 DEF ReadRemote, Looked
  <2>2. busy[w] \in Reader BY <1>3, TheHand DEF ReadRemote, At
  <2>3. t \in Tasks /\ busy[w].left \subseteq Tasks /\ busy[w].ended \subseteq Tasks /\ \A u \in busy[w].left : row[u] # "none"
    BY <2>2 DEF Reader, HandsFit
  <2>4. Remote(t) \in Final \cup {"PENDING", "STARTED"} BY DEF Remote, Final
  <2>5. Looked(w, t) \in Writer /\ Looked(w, t).left = busy[w].left \ {t} /\ Looked(w, t).t = t
    BY <2>3, <2>4 DEF Looked, Writer
  <2>6. UNCHANGED <<client, domain, db, disk, archive, status, origin, row, job, old, form, polls, crossed, met, deaths>>
    BY <1>3 DEF ReadRemote, sites
  <2>7. polls' <= polls /\ polls' \in Nat BY <1>1, <2>6
  <2>8. PICK next : next = Looked(w, t) OBVIOUS
  <2> QED BY <1>1, <2>1, <2>3, <2>5, <2>6, <2>7, <2>8, HoldsKeeps
<1>4. CASE WriteTask(w)
  <2>1. busy[w] \in Writer BY <1>4, TheHand DEF WriteTask, At
  <2>2. /\ busy[w].t \in Tasks /\ busy[w].left \subseteq Tasks /\ busy[w].ended \subseteq Tasks
        /\ busy[w].state \in Final \cup {"PENDING", "STARTED"}
        /\ row[busy[w].t] # "none" /\ \A u \in busy[w].left : row[u] # "none"
    BY <2>1 DEF Writer, HandsFit
  <2>3. PICK next : next = IF busy[w].left = {} THEN Resting ELSE RestOf(w) OBVIOUS
  <2>4. busy' = [busy EXCEPT ![w] = next] /\ row' = [row EXCEPT ![busy[w].t] = busy[w].state]
    BY <1>4, <2>3 DEF WriteTask, RestOf
  <2>5. RestOf(w) \in Reader /\ RestOf(w).left = busy[w].left BY <2>2 DEF RestOf, Reader
  <2>6. next \in {Resting} \cup Reader \cup Writer /\ next \notin Writer
        /\ (next \in Reader \cup Writer => \A t \in next.left : row[t] # "none")
    BY <2>2, <2>5, <2>3 DEF Resting, Reader, Writer
  <2>7. row' \in [Tasks -> Final \cup {"none", "PENDING", "STARTED"}] /\ \A t \in Tasks : row'[t] = "none" <=> row[t] = "none"
    BY <2>2, <1>1, <2>4 DEF Final
  <2>8. UNCHANGED <<client, domain, db, disk, archive, status, origin, job, old, form, polls, crossed, met, deaths>>
    BY <1>4 DEF WriteTask, sites
  <2>9. polls' <= polls /\ polls' \in Nat BY <1>1, <2>8
  <2> QED BY <1>1, <2>4, <2>6, <2>7, <2>8, <2>9, HoldsKeeps
<1>5. CASE WorkerDies(w)
  <2>1. /\ busy' = [busy EXCEPT ![w] = Resting] /\ deaths' \in Nat
        /\ UNCHANGED <<client, domain, db, disk, archive, status, origin, row, job, old, form, polls, crossed, met>>
    BY <1>1, <1>5 DEF WorkerDies, sites
  <2>2. Resting \notin Reader \cup Writer BY DEF Resting, Reader, Writer
  <2>3. polls' <= polls /\ polls' \in Nat BY <1>1, <2>1
  <2> QED BY <1>1, <2>1, <2>2, <2>3, HoldsKeeps
<1> QED BY <1>2, <1>3, <1>4, <1>5 DEF FollowStep

LEMMA PanelStep ==
  ASSUME PanelNext
  PROVE  \/ Submits \/ SaveTask \/ Upload \/ DayPasses
         \/ \E w \in CeleryWorkers : TaskStep(w) \/ Take(w) \/ ListBackup(w) \/ FollowStep(w)
BY DEF PanelNext, View, Work, Submits, TaskStep, FollowStep

LEMMA TypesKeep ==
  ASSUME PanelTyped, HandsFit, PollsPaid, PanelNext
  PROVE  PanelTyped' /\ HandsFit' /\ PollsPaid'
<1>1. CASE Submits BY <1>1, SubmitsQueues, QueuesKeeps
<1>2. CASE SaveTask BY <1>2, SaveTaskKeeps
<1>3. CASE Upload \/ DayPasses \/ \E w \in CeleryWorkers : ListBackup(w) BY <1>3, WorldKeeps
<1>4. ASSUME NEW w \in CeleryWorkers, TaskStep(w) \/ Take(w) \/ FollowStep(w)
      PROVE  PanelTyped' /\ HandsFit' /\ PollsPaid'
  BY <1>4, StepKeeps, TakeKeeps, FollowKeeps
<1> QED BY <1>1, <1>2, <1>3, <1>4, PanelStep

-----------------------------------------------------------------------------
\* The records of the search index: who is about to write one.
LEMMA RecordersCount ==
  ASSUME NEW S \in SUBSET CeleryWorkers, NEW T \in SUBSET S, NEW w \in S
  PROVE  /\ IsFiniteSet(S) /\ Cardinality(S) \in Nat /\ Cardinality(S) <= Cardinality(CeleryWorkers)
         /\ Cardinality(CeleryWorkers) \in Nat
         /\ Cardinality(T) \in Nat /\ Cardinality(T) <= Cardinality(S)
         /\ Cardinality(S \ {w}) = Cardinality(S) - 1
BY PanelAssumption, FS_Subset, FS_RemoveElement, FS_CardinalityType

LEMMA SubsetCount ==
  ASSUME NEW S \in SUBSET CeleryWorkers, NEW T \in SUBSET S
  PROVE  /\ Cardinality(S) \in Nat /\ Cardinality(S) <= Cardinality(CeleryWorkers)
         /\ Cardinality(CeleryWorkers) \in Nat
         /\ Cardinality(T) \in Nat /\ Cardinality(T) <= Cardinality(S)
BY PanelAssumption, FS_Subset, FS_CardinalityType

\* Only cleaning up makes a worker one that is.
LEMMA OneShrinks ==
  ASSUME PanelTyped, NEW w \in CeleryWorkers, NEW next, busy' = [busy EXCEPT ![w] = next], next.do # "record"
  PROVE  \A i \in Sites : Recorders(i)' \subseteq Recorders(i)
BY DEF PanelTyped, Recorders, At

LEMMA TaskShrinks ==
  ASSUME PanelTyped, HandsFit, NEW w \in CeleryWorkers, TaskStep(w), ~CleanUp(w), ~Record(w)
  PROVE  (status' = status \/ DropRow(w)) /\ \A i \in Sites : Recorders(i)' \subseteq Recorders(i)
<1>1. busy[w] \in Hand BY StepAt
<1>2. Mine(w).kind \in Kinds /\ busy[w].do \in StepsOf(Mine(w).kind) /\ Mine(w).kind # "check"
  <2>1. Mine(w).kind \in Kinds /\ busy[w].do \in StepsOf(Mine(w).kind) BY <1>1, TheTask
  <2>2. busy[w].do \notin {"clean", "record"}
    BY DEF TaskStep, Load, InsertSite, CreateSchema, AddDomain, DropSchema, DropRow, DropFiles, UpdateSite, MakeFolder,
       DumpData, CopyFiles, Verify, RestoreSchema, RestoreData, RestoreFiles, CleanUp, Record, At
  <2>3. Mine(w).kind # "check" BY <2>1, <2>2 DEF StepsOf
  <2> QED BY <2>1, <2>3
<1>3. \A i \in Sites : Recorders(i)' \subseteq Recorders(i)
  <2>1. CASE Ends(w)
    <3>1. busy' = [busy EXCEPT ![w] = Resting] /\ Resting.do # "record" BY <2>1 DEF Ends, End, Resting
    <3> QED BY <3>1, OneShrinks
  <2>2. ASSUME NEW next, Goes(w, next) PROVE \A i \in Sites : Recorders(i)' \subseteq Recorders(i)
    <3>1. next.do \in StepsOf(Mine(w).kind) /\ busy' = [busy EXCEPT ![w] = next] BY <2>2 DEF Goes, HandFits
    <3>2. next.do # "record" BY <1>2, <3>1, StepKinds
    <3> QED BY <3>1, <3>2, OneShrinks
  <2> QED BY <2>1, <2>2, StepGoes
<1>4. status' = status \/ DropRow(w)
  <2>1. CASE InsertSite(w) BY <2>1 DEF InsertSite, sites
  <2>2. CASE Load(w) \/ Verify(w) BY <2>2 DEF Load, Verify, sites
  <2> QED BY <2>1, <2>2 DEF TaskStep, CreateSchema, AddDomain, DropSchema, DropFiles, UpdateSite, MakeFolder,
       DumpData, CopyFiles, RestoreSchema, RestoreData, RestoreFiles
<1> QED BY <1>3, <1>4

LEMMA ElseShrinks ==
  ASSUME PanelTyped, HandsFit,
         \/ Submits \/ SaveTask \/ Upload \/ DayPasses
         \/ \E w \in CeleryWorkers : Take(w) \/ ListBackup(w) \/ FollowStep(w)
  PROVE  status' = status /\ \A i \in Sites : Recorders(i)' \subseteq Recorders(i)
<1>1. CASE Submits
  BY <1>1, SubmitsQueues DEF Queues, sites, Recorders, At
<1>2. CASE SaveTask \/ Upload \/ DayPasses \/ \E w \in CeleryWorkers : ListBackup(w)
  <2>1. status' = status /\ busy' = busy BY <1>2 DEF SaveTask, Upload, DayPasses, ListBackup, sites
  <2> QED BY <2>1 DEF Recorders, At
<1>3. ASSUME NEW w \in CeleryWorkers, Take(w)
      PROVE  status' = status /\ \A i \in Sites : Recorders(i)' \subseteq Recorders(i)
  BY <1>3, TakesHand, OneShrinks DEF First, Take, sites
<1>4. ASSUME NEW w \in CeleryWorkers, BeginPoll(w)
      PROVE  status' = status /\ \A i \in Sites : Recorders(i)' \subseteq Recorders(i)
  BY <1>4, OneShrinks DEF BeginPoll, Begun, sites, Resting
<1>5. ASSUME NEW w \in CeleryWorkers, ReadRemote(w)
      PROVE  status' = status /\ \A i \in Sites : Recorders(i)' \subseteq Recorders(i)
  <2>1. PICK t \in busy[w].left : busy' = [busy EXCEPT ![w] = Looked(w, t)] BY <1>5 DEF ReadRemote, Looked
  <2>2. Looked(w, t).do # "record" /\ status' = status BY <1>5 DEF Looked, ReadRemote, sites
  <2>3. PICK next : next = Looked(w, t) OBVIOUS
  <2> QED BY <2>1, <2>2, <2>3, OneShrinks
<1>6. ASSUME NEW w \in CeleryWorkers, WriteTask(w)
      PROVE  status' = status /\ \A i \in Sites : Recorders(i)' \subseteq Recorders(i)
  <2>1. PICK next : next = IF busy[w].left = {} THEN Resting ELSE RestOf(w) OBVIOUS
  <2>2. busy' = [busy EXCEPT ![w] = next] /\ status' = status BY <1>6, <2>1 DEF WriteTask, RestOf, sites
  <2>3. next.do # "record" BY <2>1 DEF RestOf, Resting
  <2> QED BY <2>2, <2>3, OneShrinks
<1>7. ASSUME NEW w \in CeleryWorkers, WorkerDies(w)
      PROVE  status' = status /\ \A i \in Sites : Recorders(i)' \subseteq Recorders(i)
  <2>1. busy' = [busy EXCEPT ![w] = Resting] /\ Resting.do # "record" /\ status' = status
    BY <1>7 DEF WorkerDies, Resting, sites
  <2> QED BY <2>1, OneShrinks
<1> QED BY <1>1, <1>2, <1>3, <1>4, <1>5, <1>6, <1>7 DEF FollowStep

\* A status that no step raises stays within its bound.
LEMMA QuietStatus ==
  ASSUME StatusInv, status' \in [Sites -> Nat], \A i \in Sites : status'[i] <= status[i],
         \A i \in Sites : Recorders(i)' \subseteq Recorders(i)
  PROVE  StatusInv'
<1>1. SUFFICES ASSUME NEW i \in Sites
               PROVE  status'[i] + Cardinality(Recorders(i)') <= 2 + Cardinality(CeleryWorkers)
  BY DEF StatusInv
<1>2. status[i] \in Nat /\ status'[i] \in Nat /\ status'[i] <= status[i]
      /\ status[i] + Cardinality(Recorders(i)) <= 2 + Cardinality(CeleryWorkers)
  BY DEF StatusInv
<1>3. Recorders(i) \in SUBSET CeleryWorkers /\ Recorders(i)' \in SUBSET Recorders(i) BY DEF Recorders
<1>4. /\ Cardinality(Recorders(i)) \in Nat /\ Cardinality(Recorders(i)') \in Nat /\ Cardinality(CeleryWorkers) \in Nat
      /\ Cardinality(Recorders(i)') <= Cardinality(Recorders(i))
  BY <1>3, SubsetCount
<1> QED BY <1>2, <1>4

\* Cleaning up leaves two, and each worker adds one.
LEMMA StatusKeeps ==
  ASSUME PanelTyped, HandsFit, StatusInv, PanelNext
  PROVE  StatusInv'
<1>1. \A i \in Sites : status[i] \in Nat /\ status[i] <= status[i] BY DEF StatusInv
<1>2. CASE Submits \/ SaveTask \/ Upload \/ DayPasses
           \/ \E w \in CeleryWorkers : Take(w) \/ ListBackup(w) \/ FollowStep(w)
  BY <1>2, ElseShrinks, <1>1, QuietStatus DEF StatusInv
<1>3. ASSUME NEW w \in CeleryWorkers, TaskStep(w) PROVE StatusInv'
  <2>1. busy[w] \in Hand /\ Mine(w).kind \in Kinds /\ JobFits(Mine(w)) /\ HandFits(busy[w], Mine(w))
        /\ busy[w].do \in StepsOf(Mine(w).kind)
    BY <1>3, StepAt, TheTask
  <2>2. busy \in [CeleryWorkers -> {Resting} \cup Hand \cup Reader \cup Writer] BY DEF PanelTyped
  <2>3. CASE ~CleanUp(w) /\ ~Record(w) /\ ~DropRow(w)
    BY <1>3, <2>3, TaskShrinks, <1>1, QuietStatus DEF StatusInv
  <2>4. CASE DropRow(w)
    <3>1. PICK next : next = [busy[w] EXCEPT !.do = "dropFiles"] OBVIOUS
    <3>2. busy' = [busy EXCEPT ![w] = next] /\ next.do # "record" BY <2>1, <2>4, <3>1 DEF DropRow, Then, Hand
    <3>3. \A i \in Sites : Recorders(i)' \subseteq Recorders(i) BY <3>2, OneShrinks
    <3>4. status' = [status EXCEPT ![busy[w].site] = 0] BY <2>4 DEF DropRow
    <3>5. status' \in [Sites -> Nat] /\ \A i \in Sites : status'[i] \in {0, status[i]} BY <3>4 DEF StatusInv
    <3>6. \A i \in Sites : status'[i] <= status[i] BY <1>1, <3>5
    <3> QED BY <3>3, <3>5, <3>6, QuietStatus
  <2>5. CASE Record(w) \/ CleanUp(w)
    <3>1. Mine(w).kind = "check" BY <2>1, <2>5, StepKinds DEF Record, CleanUp, At
    <3>2. PICK i \in Sites : i = busy[w].site BY <2>1, <3>1 DEF JobFits, HandFits, Kinds
    <3>3. status[i] \in Nat /\ Cardinality(CeleryWorkers) \in Nat
          /\ status[i] + Cardinality(Recorders(i)) <= 2 + Cardinality(CeleryWorkers)
      BY <1>1, SubsetCount DEF StatusInv
    <3>4. \A j \in Sites : Recorders(j) \in SUBSET CeleryWorkers /\ Recorders(j)' \in SUBSET CeleryWorkers
      BY DEF Recorders
    <3>5. CASE CleanUp(w)
      <4>1. PICK n : n = Cleaned(status[i]) OBVIOUS
      <4>2. n \in Nat /\ n <= 2 BY <3>3, <4>1 DEF Cleaned, AtMostTwo
      <4>3. status' = [status EXCEPT ![i] = n] BY <3>2, <3>5, <4>1 DEF CleanUp, StatusInv
      <4>4. status' \in [Sites -> Nat] /\ status'[i] = n /\ \A j \in Sites : j # i => status'[j] = status[j]
        BY <4>2, <4>3 DEF StatusInv
      <4>5. PICK next : busy' = [busy EXCEPT ![w] = next] /\ (next = Resting \/ next = [busy[w] EXCEPT !.do = "record"])
        BY <3>5 DEF CleanUp, End, Then
      <4>6. next.do = "record" => next.site = i BY <2>1, <3>2, <4>5 DEF Hand, Resting
      <4>7. busy'[w] = next /\ \A v \in CeleryWorkers : v # w => busy'[v] = busy[v] BY <2>2, <4>5
      <4>8. \A j \in Sites : j # i => Recorders(j)' \subseteq Recorders(j) BY <4>6, <4>7 DEF Recorders, At
      <4>9. status'[i] + Cardinality(Recorders(i)') <= 2 + Cardinality(CeleryWorkers)
        BY <3>4, SubsetCount, <3>3, <4>2, <4>4
      <4>10. \A j \in Sites : j # i => status'[j] + Cardinality(Recorders(j)') <= 2 + Cardinality(CeleryWorkers)
        <5> TAKE j \in Sites
        <5> HAVE j # i
        <5>1. status[j] \in Nat /\ status'[j] = status[j]
              /\ status[j] + Cardinality(Recorders(j)) <= 2 + Cardinality(CeleryWorkers)
          BY <4>4 DEF StatusInv
        <5>2. /\ Cardinality(Recorders(j)) \in Nat /\ Cardinality(Recorders(j)') \in Nat
              /\ Cardinality(Recorders(j)') <= Cardinality(Recorders(j))
          BY <3>4, <4>8, SubsetCount
        <5> QED BY <3>3, <5>1, <5>2
      <4> QED BY <4>4, <4>9, <4>10 DEF StatusInv
    <3>6. CASE Record(w)
      <4>1. busy' = [busy EXCEPT ![w] = Resting] /\ Resting.do # "record" BY <3>6 DEF Record, End, Resting
      <4>2. \A j \in Sites : Recorders(j)' \subseteq Recorders(j) BY <4>1, OneShrinks
      <4>3. w \in Recorders(i) BY <3>2, <3>6 DEF Record, Recorders
      <4>4. w \notin Recorders(i)' BY <2>2, <4>1 DEF Recorders, At
      <4>5. CASE status' = status
        BY <1>1, <4>5, <4>2, QuietStatus DEF StatusInv
      <4>6. CASE status' = [status EXCEPT ![busy[w].site] = @ + 1]
        <5>1. status' = [status EXCEPT ![i] = status[i] + 1] BY <3>2, <4>6 DEF StatusInv
        <5>2. status' \in [Sites -> Nat] /\ status'[i] = status[i] + 1 /\ \A j \in Sites : j # i => status'[j] = status[j]
          BY <3>3, <5>1 DEF StatusInv
        <5>3. status'[i] + Cardinality(Recorders(i)') <= 2 + Cardinality(CeleryWorkers)
          <6>1. Recorders(i)' \in SUBSET (Recorders(i) \ {w}) /\ Recorders(i) \ {w} \in SUBSET CeleryWorkers
            BY <3>4, <4>2, <4>4
          <6>2. /\ Cardinality(Recorders(i) \ {w}) = Cardinality(Recorders(i)) - 1
                /\ Cardinality(Recorders(i)) \in Nat
            BY <3>4, <4>3, RecordersCount
          <6>3. /\ Cardinality(Recorders(i)') \in Nat
                /\ Cardinality(Recorders(i)') <= Cardinality(Recorders(i) \ {w})
            BY <6>1, SubsetCount
          <6> QED BY <3>3, <5>2, <6>2, <6>3
        <5>4. \A j \in Sites : j # i => status'[j] + Cardinality(Recorders(j)') <= 2 + Cardinality(CeleryWorkers)
          <6> TAKE j \in Sites
          <6> HAVE j # i
          <6>1. status[j] \in Nat /\ status'[j] = status[j]
                /\ status[j] + Cardinality(Recorders(j)) <= 2 + Cardinality(CeleryWorkers)
            BY <5>2 DEF StatusInv
          <6>2. /\ Cardinality(Recorders(j)) \in Nat /\ Cardinality(Recorders(j)') \in Nat
                /\ Cardinality(Recorders(j)') <= Cardinality(Recorders(j))
            BY <3>4, <4>2, SubsetCount
          <6> QED BY <3>3, <6>1, <6>2
        <5> QED BY <5>2, <5>3, <5>4 DEF StatusInv
      <4> QED BY <3>6, <4>5, <4>6 DEF Record
    <3> QED BY <2>5, <3>5, <3>6
  <2> QED BY <2>3, <2>4, <2>5
<1> QED BY <1>2, <1>3, PanelStep

-----------------------------------------------------------------------------
\* What a step of a task leaves to the others.
LEMMA OthersStay ==
  ASSUME PanelTyped, HandsFit, NEW w \in CeleryWorkers, busy[w] \in Hand, NEW next,
         Goes(w, next) \/ (Ends(w) /\ next = Resting)
  PROVE  /\ busy'[w] = next
         /\ \A v \in CeleryWorkers : v # w => busy'[v] = busy[v] /\ (busy[v] \in Hand => Mine(v)' = Mine(v))
         /\ \A t \in Tasks : /\ job'[t].kind = job[t].kind /\ job'[t].site = job[t].site
                             /\ t # busy[w].t => job'[t] = job[t]
                             /\ job[t].state # "queued" => job'[t].state # "queued"
         /\ Goes(w, next) => Mine(w)' = Mine(w) /\ job' = job
         /\ \A i \in Sites : Deleting(i)' <=> Deleting(i)
         /\ \A v \in CeleryWorkers : SiteWork(v)' => SiteWork(v)
<1>1. busy \in [CeleryWorkers -> {Resting} \cup Hand \cup Reader \cup Writer] /\ job \in [Tasks -> TaskJob]
  BY DEF PanelTyped
<1>2. busy[w].t \in Tasks /\ Mine(w) = job[busy[w].t] /\ job[busy[w].t].state = "started" /\ job[busy[w].t] \in TaskJob
  BY TheTask
<1>3. busy' = [busy EXCEPT ![w] = next] /\ (job' = job \/ \E state \in {"done", "failed"} : job' = [job EXCEPT ![busy[w].t].state = state])
  BY DEF Goes, Ends, End
<1>4. busy'[w] = next /\ \A v \in CeleryWorkers : v # w => busy'[v] = busy[v] BY <1>1, <1>3
<1>5. PICK t \in Tasks : t = busy[w].t BY <1>2
<1>6. /\ \A u \in Tasks : /\ job'[u].kind = job[u].kind /\ job'[u].site = job[u].site
                          /\ u # t => job'[u] = job[u]
      /\ job'[t].state \in {"started", "done", "failed"}
  BY <1>2, <1>5, <1>1, <1>3 DEF TaskJob
<1>7. \A u \in Tasks : (job[u].state = "queued" <=> job'[u].state = "queued") BY <1>2, <1>5, <1>6
<1>8. \A v \in CeleryWorkers : v # w /\ busy[v] \in Hand => Mine(v)' = Mine(v)
  BY <1>5, TheTask, <1>4, <1>6 DEF HandsFit, Mine
<1>9. Goes(w, next) => Mine(w)' = Mine(w) /\ job' = job BY <1>4 DEF Goes, Mine
<1>10. \A i \in Sites : Deleting(i)' <=> Deleting(i) BY <1>6, <1>7 DEF Deleting
<1>11. \A v \in CeleryWorkers : SiteWork(v)' => SiteWork(v)
  BY <1>4, <1>9, <1>8 DEF Resting, Hand, Steps, SiteWork
<1> QED BY <1>4, <1>5, <1>6, <1>7, <1>8, <1>9, <1>10, <1>11

\* The backup, when neither it nor the task that makes it changes.
LEMMA ArchiveStays ==
  ASSUME ArchiveInv, archive' = archive,
         \A t \in Tasks : job'[t].kind = "backup" => job'[t] = job[t]
  PROVE  ArchiveInv'
BY DEF ArchiveInv

\* The restored sites, when nothing changes but those that go.
LEMMA RestoredStays ==
  ASSUME RestoredInv,
         \A i \in Sites : client'[i].there =>
           /\ client[i].there /\ client'[i].schema = client[i].schema /\ origin'[i] = origin[i]
           /\ Deleting(i) => Deleting(i)'
           /\ (~Deleting(i)' => db'[client[i].schema] = db[client[i].schema]
                                /\ disk'[client[i].schema] = disk[client[i].schema])
  PROVE  RestoredInv'
BY DEF RestoredInv

LEMMA QuietSites ==
  ASSUME RestoredInv, UNCHANGED <<client, db, disk, origin>>, \A i \in Sites : Deleting(i) => Deleting(i)'
  PROVE  RestoredInv'
BY RestoredStays

LEMMA Elsewhere ==
  ASSUME NEW s, Named(s) = {}
  PROVE  \A i \in Sites : client[i].there => client[i].schema # s
BY DEF Named

\* A step of the only task on sites.
LEMMA MyStep ==
  ASSUME PanelTyped, HandsFit, OneAtATime, NEW w \in CeleryWorkers, SiteWork(w), NEW next,
         Goes(w, next) \/ (Ends(w) /\ next = Resting),
         ArchiveInv', RestoredInv', next \in Hand => HandTrue(w)'
  PROVE  OneAtATime'
BY OthersStay DEF SiteWork, OneAtATime, OneOnSites

LEMMA QuietEnd ==
  ASSUME PanelTyped, HandsFit, OneAtATime, NEW w \in CeleryWorkers, SiteWork(w), Ends(w), archive' = archive,
         Mine(w).kind # "backup" \/ End(w, "failed"), RestoredInv'
  PROVE  OneAtATime'
<1>1. busy[w] \in Hand BY DEF SiteWork
<1>2. PICK t \in Tasks : t = busy[w].t /\ Mine(w) = job[t] /\ job[t].state = "started" BY <1>1, TheTask
<1>3. \A u \in Tasks : job'[u].kind = job[u].kind /\ (u # t => job'[u] = job[u]) BY <1>1, <1>2, OthersStay
<1>4. End(w, "failed") => job'[t].state = "failed"
  BY <1>2 DEF End, PanelTyped, TaskJob
<1>5. ArchiveInv BY DEF OneAtATime
<1>6. CASE Mine(w).kind # "backup"
  <2>1. \A u \in Tasks : job'[u].kind = "backup" => job'[u] = job[u] BY <1>2, <1>3, <1>6
  <2>2. ArchiveInv' BY <1>5, <2>1, ArchiveStays
  <2>3. Resting \notin Hand BY DEF Resting, Hand, Steps
  <2> QED BY <2>2, <2>3, MyStep
<1>7. CASE End(w, "failed") /\ Mine(w).kind = "backup"
  <2>1. ~archive.listed BY <1>2, <1>5, <1>7 DEF ArchiveInv
  <2>2. \A u \in Tasks : job'[u].kind = "backup" => u = t BY <1>2, <1>3, <1>5, <1>7 DEF ArchiveInv
  <2>3. ArchiveInv' BY <1>4, <1>7, <2>1, <2>2 DEF ArchiveInv
  <2>4. Resting \notin Hand BY DEF Resting, Hand, Steps
  <2> QED BY <2>3, <2>4, MyStep
<1> QED BY <1>6, <1>7

LEMMA QuietGoes ==
  ASSUME PanelTyped, HandsFit, OneAtATime, NEW w \in CeleryWorkers, SiteWork(w), NEW next, Goes(w, next),
         archive' = archive, RestoredInv', HandTrue(w)'
  PROVE  OneAtATime'
BY ArchiveStays, MyStep DEF Goes, OneAtATime

\* What a task on sites may count on.
LEMMA SiteHand ==
  ASSUME PanelTyped, HandsFit, OneAtATime, NEW w \in CeleryWorkers, SiteWork(w)
  PROVE  /\ busy[w] \in Hand /\ HandTrue(w) /\ ArchiveInv /\ RestoredInv
         /\ Mine(w) \in TaskJob /\ JobFits(Mine(w)) /\ Mine(w).kind \in Kinds /\ Mine(w).state = "started"
         /\ busy[w].t \in Tasks /\ busy[w].do \in StepsOf(Mine(w).kind) /\ HandFits(busy[w], Mine(w))
         /\ Mine(w) = job[busy[w].t] /\ busy[w].copy \in SiteRow /\ busy[w].from \in Archive /\ busy[w].site \in 0..MaxSites
BY TheTask DEF SiteWork, OneAtATime, Hand

-----------------------------------------------------------------------------
\* Loading a row, and making one.
LEMMA LoadApart ==
  ASSUME PanelTyped, HandsFit, OneAtATime, NEW w \in CeleryWorkers, SiteWork(w), Load(w)
  PROVE  OneAtATime'
<1>1. busy[w] \in Hand /\ RestoredInv BY SiteHand
<1>2. UNCHANGED <<client, db, disk, origin, archive>> BY DEF Load, sites
<1>3. CASE End(w, "failed")
  BY <1>3, <1>1, OthersStay, <1>2, QuietSites, QuietEnd DEF Ends
<1>4. CASE client[busy[w].site].there /\ Goes(w, Loaded(w))
  <2> DEFINE next == Loaded(w)
  <2>1. /\ busy'[w] = next /\ Mine(w)' = Mine(w) /\ \A i \in Sites : Deleting(i)' <=> Deleting(i)
    BY <1>1, <1>4, OthersStay
  <2>2. /\ next.do \in {"dropSchema", "makeFolder", "update"} /\ next.site = busy[w].site
        /\ next.copy = client[busy[w].site]
    BY <1>1 DEF Loaded, Hand
  <2> HIDE DEF next
  <2>3. HandTrue(w)' BY <1>2, <2>1, <2>2 DEF HandTrue
  <2>4. RestoredInv' BY <1>1, <1>2, <2>1, QuietSites
  <2> QED BY <1>2, <1>4, <2>3, <2>4, QuietGoes
<1> QED BY <1>1, <1>3, <1>4, LoadGoes

LEMMA InsertApart ==
  ASSUME PanelTyped, HandsFit, OneAtATime, NEW w \in CeleryWorkers, SiteWork(w), InsertSite(w)
  PROVE  OneAtATime'
<1>1. /\ busy[w] \in Hand /\ HandTrue(w) /\ RestoredInv /\ busy[w].do \in StepsOf(Mine(w).kind)
      /\ Mine(w).kind \in Kinds /\ busy[w].from \in Archive /\ JobFits(Mine(w))
  BY SiteHand
<1>2. busy[w].do = "insert" /\ Mine(w).kind \in {"add", "restore"} BY <1>1, StepKinds DEF InsertSite, At
<1>3. CASE Ends(w) /\ UNCHANGED sites
  BY <1>3, <1>1, OthersStay, QuietSites, <1>2, QuietEnd DEF sites
<1>4. ASSUME NEW i \in Sites, Goes(w, Inserted(w, i)), Inserts(w, i) PROVE OneAtATime'
  <2> DEFINE next == Inserted(w, i)
             new  == [there |-> TRUE, schema |-> Mine(w).schema, active |-> TRUE]
             from == IF Mine(w).kind = "add" THEN [Unmade EXCEPT !.how = "inserted"]
                     ELSE [how |-> "restored", from |-> busy[w].from]
  <2>1. /\ busy'[w] = next /\ Mine(w)' = Mine(w) /\ \A j \in Sites : Deleting(j)' <=> Deleting(j)
    BY <1>1, <1>4, OthersStay
  <2>2. next.site = i /\ next.do = (IF Mine(w).kind = "add" THEN "createSchema" ELSE "addDomain")
    BY <1>1 DEF Inserted, Hand
  <2>3. new.there /\ new.schema = Mine(w).schema OBVIOUS
  <2>4. /\ Mine(w).kind = "add" => from.how = "inserted"
        /\ Mine(w).kind = "restore" => from.how = "restored" /\ from.from = busy[w].from
        /\ from # Unmade
    BY <1>2 DEF Unmade
  <2>5. client' = [client EXCEPT ![i] = new] /\ origin' = [origin EXCEPT ![i] = from]
        /\ UNCHANGED <<domain, db, disk, archive>>
    BY <1>4 DEF Inserts
  <2> PICK row1 : row1 = new OBVIOUS
  <2> PICK past : past = from OBVIOUS
  <2> HIDE DEF next, new, from
  <2>6. client'[i] = row1 /\ origin'[i] = past /\ \A j \in Sites : j # i => client'[j] = client[j] /\ origin'[j] = origin[j]
    BY <2>5, TypedSites DEF SitesTyped
  <2>7. RestoredInv'
    <3>1. ASSUME NEW j \in Sites, client'[j].there
          PROVE  /\ origin'[j] # Unmade
                 /\ origin'[j].how = "restored" /\ origin'[j].from.listed /\ ~Deleting(j)' =>
                      /\ db'[client'[j].schema] = Tables(origin'[j].from)
                      /\ IF origin'[j].from.files = 0 THEN disk'[client'[j].schema] \in {0, j}
                         ELSE disk'[client'[j].schema] = origin'[j].from.files
      <4>1. CASE j # i BY <1>1, <2>1, <2>5, <2>6, <3>1, <4>1 DEF RestoredInv
      <4>2. CASE j = i /\ Mine(w).kind = "add" BY <2>4, <2>6, <4>2
      <4>3. CASE j = i /\ Mine(w).kind = "restore"
        <5>1. past.how = "restored" /\ past.from = busy[w].from /\ past # Unmade BY <2>4, <4>3
        <5>2. busy[w].from.listed => /\ busy[w].from = archive /\ db[Mine(w).schema] = Tables(archive)
                                     /\ disk[Mine(w).schema] = archive.files
          BY <1>1, <1>2, <4>3 DEF HandTrue
        <5> QED BY <2>3, <2>5, <2>6, <4>3, <5>1, <5>2
      <4> QED BY <1>2, <4>1, <4>2, <4>3
    <3> QED BY <3>1 DEF RestoredInv
  <2>8. HandTrue(w)'
    BY <2>2, <2>3, <2>4, <2>6, <2>1, <1>2 DEF HandTrue
  <2>9. Goes(w, next) BY <1>4 DEF next
  <2> QED BY <2>5, <2>7, <2>8, <2>9, QuietGoes
<1> QED BY <1>1, <1>3, <1>4, InsertGoes

LEMMA CreateApart ==
  ASSUME PanelTyped, HandsFit, OneAtATime, NEW w \in CeleryWorkers, SiteWork(w), CreateSchema(w)
  PROVE  OneAtATime'
<1>1. /\ busy[w] \in Hand /\ HandTrue(w) /\ RestoredInv /\ busy[w].do \in StepsOf(Mine(w).kind)
      /\ Mine(w).kind \in Kinds /\ HandFits(busy[w], Mine(w)) /\ JobFits(Mine(w))
  BY SiteHand
<1>2. At(w, "createSchema") /\ Then(w, "addDomain") BY DEF CreateSchema
<1>3. Mine(w).kind = "add" /\ Mine(w).schema \in Schemas BY <1>1, <1>2, StepKinds DEF At, JobFits
<1>4. PICK i \in Sites : i = busy[w].site BY <1>1, <1>2 DEF HandFits, At
<1>5. PICK s \in Schemas : s = Mine(w).schema BY <1>3
<1>6. client[i].there /\ client[i].schema = s /\ origin[i].how = "inserted" BY <1>1, <1>2, <1>4, <1>5 DEF HandTrue, At
<1>7. /\ db' = [db EXCEPT ![s] = IF @ = 0 THEN i ELSE @] /\ origin' = [origin EXCEPT ![i].how = "added"]
      /\ UNCHANGED <<client, disk, archive>>
  BY <1>4, <1>5 DEF CreateSchema
<1>8. "addDomain" \in StepsOf(Mine(w).kind) BY <1>3 DEF StepsOf
<1>9. PICK next : next = [busy[w] EXCEPT !.do = "addDomain"] OBVIOUS
<1>10. Goes(w, next) /\ next.do = "addDomain"
  BY <1>1, <1>2, <1>4, <1>8, ThenGoes, <1>9 DEF Hand
<1>11. /\ busy'[w] = next /\ Mine(w)' = Mine(w) /\ \A j \in Sites : Deleting(j)' <=> Deleting(j)
  BY <1>1, <1>10, OthersStay
<1>12. HandTrue(w)' BY <1>10, <1>11 DEF HandTrue
<1>13. /\ \A j \in Sites : j # i => origin'[j] = origin[j]
       /\ origin'[i].how = "added"
       /\ \A r \in Schemas : r # s => db'[r] = db[r]
  BY <1>7, TypedSites DEF SitesTyped
<1>14. RestoredInv'
  <2>1. ASSUME NEW j \in Sites, client'[j].there
        PROVE  /\ origin'[j] # Unmade
               /\ origin'[j].how = "restored" /\ origin'[j].from.listed /\ ~Deleting(j)' =>
                    /\ db'[client'[j].schema] = Tables(origin'[j].from)
                    /\ IF origin'[j].from.files = 0 THEN disk'[client'[j].schema] \in {0, j}
                       ELSE disk'[client'[j].schema] = origin'[j].from.files
    <3>1. CASE j = i BY <1>13, <3>1 DEF Unmade
    <3>2. CASE j # i
      <4>1. client[j].there /\ client[j].schema # s /\ client[j].schema \in Schemas
        BY <1>6, <1>7, <2>1, <3>2, TypedSites DEF SitesTyped
      <4> QED BY <1>1, <1>7, <1>11, <1>13, <3>2, <4>1 DEF RestoredInv
    <3> QED BY <3>1, <3>2
  <2> QED BY <2>1 DEF RestoredInv
<1> QED BY <1>7, <1>10, <1>12, <1>14, QuietGoes

-----------------------------------------------------------------------------
\* The next statement of a task that keeps its site and its row.
LEMMA ThenNext ==
  ASSUME PanelTyped, HandsFit, NEW w \in CeleryWorkers, busy[w] \in Hand,
         NEW do \in {"dropRow", "dropFiles", "dumpData", "copyFiles", "restoreSchema", "restoreFiles", "insert"},
         Then(w, do), do \in StepsOf(Mine(w).kind),
         do \in {"dropRow", "dropFiles", "dumpData", "copyFiles"} => busy[w].copy.there /\ busy[w].copy.schema \in Schemas
  PROVE  \E next : /\ Goes(w, next) /\ busy'[w] = next /\ Mine(w)' = Mine(w)
                   /\ \A i \in Sites : Deleting(i)' <=> Deleting(i)
                   /\ next.do = do /\ next.site = busy[w].site /\ next.copy = busy[w].copy /\ next.from = busy[w].from
<1>1. PICK next : next = [busy[w] EXCEPT !.do = do] OBVIOUS
<1>2. Goes(w, next) BY <1>1, ThenGoes
<1>3. next.do = do /\ next.site = busy[w].site /\ next.copy = busy[w].copy /\ next.from = busy[w].from
  BY <1>1 DEF Hand
<1> QED BY <1>2, <1>3, OthersStay

LEMMA AddDomainApart ==
  ASSUME PanelTyped, HandsFit, OneAtATime, NEW w \in CeleryWorkers, SiteWork(w), AddDomain(w)
  PROVE  OneAtATime'
<1>1. busy[w] \in Hand /\ RestoredInv /\ Mine(w).kind \in {"add", "restore"} BY SiteHand, StepKinds DEF AddDomain, At
<1>2. UNCHANGED <<client, db, disk, origin, archive>> /\ Ends(w) BY DEF AddDomain, Ends
<1>3. RestoredInv' BY <1>1, <1>2, OthersStay, QuietSites
<1> QED BY <1>1, <1>2, <1>3, QuietEnd

\* What a deletion may count on: it is under way, and the name is its own.
LEMMA DeletionHand ==
  ASSUME PanelTyped, HandsFit, OneAtATime, NEW w \in CeleryWorkers, SiteWork(w),
         busy[w].do \in {"dropSchema", "dropRow", "dropFiles"}
  PROVE  /\ Mine(w).kind = "delete" /\ busy[w].site \in Sites /\ busy[w].copy.there /\ busy[w].copy.schema \in Schemas
         /\ Deleting(busy[w].site)
         /\ busy[w].do \in {"dropSchema", "dropRow"} =>
              \A i \in Sites : client[i].there /\ client[i].schema = busy[w].copy.schema => i = busy[w].site
<1>1. /\ HandTrue(w) /\ JobFits(Mine(w)) /\ HandFits(busy[w], Mine(w)) /\ Mine(w).kind = "delete"
      /\ Mine(w) = job[busy[w].t] /\ busy[w].t \in Tasks /\ Mine(w).state = "started"
  BY SiteHand, StepKinds
<1>2. busy[w].site \in Sites /\ busy[w].site = job[busy[w].t].site BY <1>1 DEF JobFits, HandFits, Kinds
<1>3. busy[w].copy.there /\ busy[w].copy.schema \in Schemas BY <1>1 DEF HandFits
<1>4. Deleting(busy[w].site) BY <1>1, <1>2 DEF Deleting
<1>5. busy[w].do \in {"dropSchema", "dropRow"} => client[busy[w].site] = busy[w].copy BY <1>1 DEF HandTrue
<1> QED BY <1>1, <1>2, <1>3, <1>4, <1>5, TypedSites DEF SitesTyped

LEMMA DropSchemaApart ==
  ASSUME PanelTyped, HandsFit, OneAtATime, NEW w \in CeleryWorkers, SiteWork(w), DropSchema(w)
  PROVE  OneAtATime'
<1>1. busy[w] \in Hand /\ RestoredInv /\ HandTrue(w) /\ busy[w].do = "dropSchema" BY SiteHand DEF DropSchema, At
<1>2. /\ Mine(w).kind = "delete" /\ busy[w].site \in Sites /\ busy[w].copy.there /\ busy[w].copy.schema \in Schemas
      /\ Deleting(busy[w].site)
      /\ \A i \in Sites : client[i].there /\ client[i].schema = busy[w].copy.schema => i = busy[w].site
  BY <1>1, DeletionHand
<1>3. PICK i \in Sites, s \in Schemas : i = busy[w].site /\ s = busy[w].copy.schema BY <1>2
<1>4. db' = [db EXCEPT ![s] = 0] /\ UNCHANGED <<client, disk, origin, archive>> /\ Then(w, "dropRow")
  BY <1>3 DEF DropSchema
<1>5. "dropRow" \in StepsOf(Mine(w).kind) BY <1>2 DEF StepsOf
<1>6. PICK next : /\ Goes(w, next) /\ busy'[w] = next /\ Mine(w)' = Mine(w)
                  /\ \A j \in Sites : Deleting(j)' <=> Deleting(j)
                  /\ next.do = "dropRow" /\ next.site = busy[w].site /\ next.copy = busy[w].copy /\ next.from = busy[w].from
  BY <1>1, <1>2, <1>4, <1>5, ThenNext
<1>7. db'[s] = 0 /\ \A r \in Schemas : r # s => db'[r] = db[r] BY <1>4, TypedSites DEF SitesTyped
<1>8. RestoredInv'
  <2>1. ASSUME NEW j \in Sites, client'[j].there
        PROVE  /\ client[j].there /\ client'[j].schema = client[j].schema /\ origin'[j] = origin[j]
               /\ Deleting(j) => Deleting(j)'
               /\ (~Deleting(j)' => db'[client[j].schema] = db[client[j].schema]
                                    /\ disk'[client[j].schema] = disk[client[j].schema])
    <3>1. client[j].there /\ client[j].schema \in Schemas BY <1>4, <2>1, TypedSites DEF SitesTyped
    <3>2. ~Deleting(j)' => client[j].schema # s BY <1>2, <1>3, <1>6, <3>1
    <3> QED BY <1>4, <1>6, <1>7, <3>1, <3>2
  <2> QED BY <1>1, <2>1, RestoredStays
<1>9. HandTrue(w)' BY <1>1, <1>3, <1>4, <1>6, <1>7 DEF HandTrue
<1> QED BY <1>4, <1>6, <1>8, <1>9, QuietGoes

LEMMA DropRowApart ==
  ASSUME PanelTyped, HandsFit, OneAtATime, NEW w \in CeleryWorkers, SiteWork(w), DropRow(w)
  PROVE  OneAtATime'
<1>1. busy[w] \in Hand /\ RestoredInv /\ HandTrue(w) /\ busy[w].do = "dropRow" BY SiteHand DEF DropRow, At
<1>2. /\ Mine(w).kind = "delete" /\ busy[w].site \in Sites /\ busy[w].copy.there /\ busy[w].copy.schema \in Schemas
      /\ \A i \in Sites : client[i].there /\ client[i].schema = busy[w].copy.schema => i = busy[w].site
  BY <1>1, DeletionHand
<1>3. PICK i \in Sites, s \in Schemas : i = busy[w].site /\ s = busy[w].copy.schema BY <1>2
<1>4. client' = [client EXCEPT ![i] = NoSite] /\ UNCHANGED <<db, disk, origin, archive>> /\ Then(w, "dropFiles")
  BY <1>3 DEF DropRow
<1>5. "dropFiles" \in StepsOf(Mine(w).kind) BY <1>2 DEF StepsOf
<1>6. PICK next : /\ Goes(w, next) /\ busy'[w] = next /\ Mine(w)' = Mine(w)
                  /\ \A j \in Sites : Deleting(j)' <=> Deleting(j)
                  /\ next.do = "dropFiles" /\ next.site = busy[w].site /\ next.copy = busy[w].copy /\ next.from = busy[w].from
  BY <1>1, <1>2, <1>4, <1>5, ThenNext
<1>7. client'[i] = NoSite /\ ~client'[i].there /\ \A j \in Sites : j # i => client'[j] = client[j]
  BY <1>4, TypedSites, Consts DEF SitesTyped
<1>8. RestoredInv'
  BY <1>4, <1>6, <1>7, <1>1, RestoredStays
<1>9. Named(s)' = {} BY <1>2, <1>3, <1>7 DEF Named
<1>10. HandTrue(w)' BY <1>3, <1>6, <1>9 DEF HandTrue
<1> QED BY <1>4, <1>6, <1>8, <1>10, QuietGoes

LEMMA DropFilesApart ==
  ASSUME PanelTyped, HandsFit, OneAtATime, NEW w \in CeleryWorkers, SiteWork(w), DropFiles(w)
  PROVE  OneAtATime'
<1>1. busy[w] \in Hand /\ RestoredInv /\ HandTrue(w) /\ busy[w].do = "dropFiles" BY SiteHand DEF DropFiles, At
<1>2. Mine(w).kind = "delete" /\ busy[w].copy.schema \in Schemas BY <1>1, DeletionHand
<1>3. PICK s \in Schemas : s = busy[w].copy.schema BY <1>2
<1>4. /\ disk' = [disk EXCEPT ![s] = 0] \/ disk' = [disk EXCEPT ![s] = IF @ = 0 THEN 0 ELSE Nobodys]
      /\ UNCHANGED <<client, db, origin, archive>> /\ Ends(w)
  BY <1>3 DEF DropFiles, Ends
<1>5. \A j \in Sites : client[j].there => client[j].schema # s BY <1>1, <1>3, Elsewhere DEF HandTrue
<1>6. \A j \in Sites : Deleting(j)' <=> Deleting(j) BY <1>1, <1>4, OthersStay
<1>7. RestoredInv'
  BY <1>4, <1>5, TypedSites, <1>6, <1>1, RestoredStays DEF SitesTyped
<1> QED BY <1>2, <1>4, <1>7, QuietEnd

LEMMA UpdateApart ==
  ASSUME PanelTyped, HandsFit, OneAtATime, NEW w \in CeleryWorkers, SiteWork(w), UpdateSite(w)
  PROVE  OneAtATime'
<1>1. /\ busy[w] \in Hand /\ RestoredInv /\ HandTrue(w) /\ busy[w].do = "update" /\ busy[w].copy \in SiteRow
      /\ Mine(w).kind \in {"disable", "enable"}
  BY SiteHand, StepKinds DEF UpdateSite, At
<1>2. UNCHANGED <<db, disk, origin, archive>> /\ Ends(w) BY DEF UpdateSite, Ends
<1>3. PICK new : new = [busy[w].copy EXCEPT !.active = (Mine(w).kind = "enable")] OBVIOUS
<1>4. client' = client \/ client' = [client EXCEPT ![busy[w].site] = new] BY <1>3 DEF UpdateSite
<1>5. new.there = busy[w].copy.there /\ new.schema = busy[w].copy.schema BY <1>1, <1>3 DEF SiteRow
<1>6. client[busy[w].site] = busy[w].copy BY <1>1 DEF HandTrue
<1>7. \A j \in Sites : client'[j].there = client[j].there /\ client'[j].schema = client[j].schema
  BY <1>4, <1>5, <1>6, TypedSites DEF SitesTyped
<1>8. \A j \in Sites : Deleting(j)' <=> Deleting(j) BY <1>1, <1>2, OthersStay
<1>9. RestoredInv' BY <1>1, <1>2, <1>7, <1>8, RestoredStays
<1> QED BY <1>1, <1>2, <1>9, QuietEnd

-----------------------------------------------------------------------------
\* The task that makes the backup: until it is done nothing is listed.
LEMMA TheBackup ==
  ASSUME PanelTyped, HandsFit, OneAtATime, NEW w \in CeleryWorkers, SiteWork(w),
         busy[w].do \in {"makeFolder", "dumpData", "copyFiles"}
  PROVE  /\ Mine(w).kind = "backup" /\ busy[w].copy.there /\ busy[w].copy.schema \in Schemas
         /\ ~archive.listed /\ \A t \in Tasks : job[t].kind = "backup" => t = busy[w].t
         /\ job[busy[w].t].state = "started" /\ busy[w].t \in Tasks
BY SiteHand, StepKinds DEF HandFits, ArchiveInv

\* A backup in the making, one step further.
LEMMA BackupStep ==
  ASSUME PanelTyped, HandsFit, OneAtATime, NEW w \in CeleryWorkers, SiteWork(w),
         busy[w].do \in {"makeFolder", "dumpData", "copyFiles"},
         NEW next, Goes(w, next) \/ (Ends(w) /\ next = Resting),
         ~archive'.listed,
         UNCHANGED <<client, db, disk, origin>>, next \in Hand => HandTrue(w)'
  PROVE  OneAtATime'
<1>1. busy[w] \in Hand /\ RestoredInv BY SiteHand
<1>2. PICK t \in Tasks : t = busy[w].t /\ job[t].state = "started" /\ \A u \in Tasks : job[u].kind = "backup" => u = t
  BY TheBackup
<1>3. /\ \A u \in Tasks : job'[u].kind = job[u].kind
      /\ \A i \in Sites : Deleting(i)' <=> Deleting(i)
  BY <1>1, OthersStay
<1>4. RestoredInv' BY <1>1, <1>3, QuietSites
<1>5. ArchiveInv' BY <1>2, <1>3 DEF ArchiveInv
<1> QED BY <1>4, <1>5, MyStep

LEMMA MakeFolderApart ==
  ASSUME PanelTyped, HandsFit, OneAtATime, NEW w \in CeleryWorkers, SiteWork(w), MakeFolder(w)
  PROVE  OneAtATime'
<1>1. busy[w] \in Hand /\ busy[w].do = "makeFolder" BY SiteHand DEF MakeFolder, At
<1>2. Mine(w).kind = "backup" /\ busy[w].copy.there /\ busy[w].copy.schema \in Schemas BY <1>1, TheBackup
<1>3. archive' = [NoArchive EXCEPT !.part = "schema"] /\ UNCHANGED <<client, db, disk, origin>> BY DEF MakeFolder
<1>4. ~archive'.listed BY <1>3 DEF NoArchive
<1>5. Then(w, "dumpData") /\ "dumpData" \in StepsOf(Mine(w).kind) BY <1>2 DEF MakeFolder, StepsOf
<1>6. PICK next : /\ Goes(w, next) /\ busy'[w] = next /\ Mine(w)' = Mine(w)
                  /\ next.do = "dumpData" /\ next.copy = busy[w].copy
  BY <1>1, <1>2, <1>5, ThenNext
<1>7. HandTrue(w)' BY <1>3, <1>6 DEF HandTrue
<1> QED BY <1>1, <1>3, <1>4, <1>6, <1>7, BackupStep

LEMMA DumpDataApart ==
  ASSUME PanelTyped, HandsFit, OneAtATime, NEW w \in CeleryWorkers, SiteWork(w), DumpData(w)
  PROVE  OneAtATime'
<1>1. busy[w] \in Hand /\ busy[w].do = "dumpData" /\ HandTrue(w) BY SiteHand DEF DumpData, At
<1>2. Mine(w).kind = "backup" /\ busy[w].copy.there /\ busy[w].copy.schema \in Schemas /\ ~archive.listed
  BY <1>1, TheBackup
<1>3. /\ archive' = [archive EXCEPT !.part = "data", !.data = db[busy[w].copy.schema]] /\ Then(w, "copyFiles")
      /\ UNCHANGED <<client, db, disk, origin>>
  BY DEF DumpData
<1>4. archive'.listed = archive.listed
  BY <1>1, <1>3, TypedSites DEF SitesTyped, Archive
<1>5. "copyFiles" \in StepsOf(Mine(w).kind) BY <1>2 DEF StepsOf
<1>6. PICK next : Goes(w, next) /\ busy'[w] = next /\ Mine(w)' = Mine(w) /\ next.do = "copyFiles"
  BY <1>1, <1>2, <1>3, <1>5, ThenNext
<1>7. HandTrue(w)' BY <1>4, <1>6 DEF HandTrue
<1> QED BY <1>1, <1>2, <1>3, <1>4, <1>6, <1>7, BackupStep

LEMMA CopyFilesApart ==
  ASSUME PanelTyped, HandsFit, OneAtATime, NEW w \in CeleryWorkers, SiteWork(w), CopyFiles(w)
  PROVE  OneAtATime'
<1>1. busy[w] \in Hand /\ busy[w].do = "copyFiles" /\ HandTrue(w) BY SiteHand DEF CopyFiles, At
<1>2. ~archive.listed BY <1>1, TheBackup
<1>3. /\ archive' = [archive EXCEPT !.part = "whole", !.files = disk[busy[w].copy.schema]] /\ Ends(w)
      /\ UNCHANGED <<client, db, disk, origin>>
  BY DEF CopyFiles, Ends
<1>4. archive'.listed = archive.listed
  BY <1>1, <1>3, TypedSites DEF SitesTyped, Archive
<1>5. Resting \notin Hand BY DEF Resting, Hand, Steps
<1> QED BY <1>1, <1>2, <1>3, <1>4, <1>5, BackupStep

-----------------------------------------------------------------------------
\* A restore works under a name that no site has.
LEMMA RestoreHand ==
  ASSUME PanelTyped, HandsFit, OneAtATime, NEW w \in CeleryWorkers, SiteWork(w),
         busy[w].do \in {"verify", "restoreSchema", "restoreData", "restoreFiles"}
  PROVE  /\ Mine(w).kind = "restore" /\ Mine(w).schema \in Schemas
         /\ busy[w].do # "verify" => Named(Mine(w).schema) = {} /\ disk[Mine(w).schema] = 0
         /\ \A do \in {"restoreSchema", "restoreData", "restoreFiles", "insert"} : do \in StepsOf(Mine(w).kind)
BY SiteHand, StepKinds DEF StepsOf, JobFits, HandTrue

LEMMA NamelessStays ==
  ASSUME PanelTyped, RestoredInv, NEW s \in Schemas, Named(s) = {}, UNCHANGED <<client, origin>>,
         \A r \in Schemas : r # s => db'[r] = db[r] /\ disk'[r] = disk[r],
         \A i \in Sites : Deleting(i)' <=> Deleting(i)
  PROVE  RestoredInv'
BY Elsewhere, TypedSites, RestoredStays DEF SitesTyped

LEMMA VerifyApart ==
  ASSUME PanelTyped, HandsFit, OneAtATime, NEW w \in CeleryWorkers, SiteWork(w), Verify(w)
  PROVE  OneAtATime'
<1>1. busy[w] \in Hand /\ RestoredInv /\ busy[w].do = "verify" BY SiteHand DEF Verify, At
<1>2. Mine(w).kind = "restore" /\ Mine(w).schema \in Schemas /\ "restoreSchema" \in StepsOf(Mine(w).kind)
  BY <1>1, RestoreHand
<1>3. UNCHANGED <<client, db, disk, origin, archive>> BY DEF Verify, sites
<1>4. CASE End(w, "failed")
  <2>1. Ends(w) BY <1>4 DEF Ends
  <2>2. RestoredInv' BY <1>1, <1>3, <2>1, OthersStay, QuietSites
  <2> QED BY <1>2, <1>3, <2>1, <2>2, QuietEnd
<1>5. CASE Free(Mine(w).schema, Mine(w).host) /\ Then(w, "restoreSchema")
  <2>1. PICK next : /\ Goes(w, next) /\ busy'[w] = next /\ Mine(w)' = Mine(w)
                    /\ \A i \in Sites : Deleting(i)' <=> Deleting(i)
                    /\ next.do = "restoreSchema"
    BY <1>1, <1>2, <1>5, ThenNext
  <2>2. RestoredInv' BY <1>1, <1>3, <2>1, QuietSites
  <2>3. Named(Mine(w).schema)' = Named(Mine(w).schema) BY <1>3, <2>1 DEF Named
  <2>4. HandTrue(w)' BY <1>3, <1>5, <2>1, <2>3 DEF HandTrue, Free
  <2> QED BY <1>3, <2>1, <2>2, <2>4, QuietGoes
<1> QED BY <1>4, <1>5 DEF Verify, Then

LEMMA RestoreSchemaApart ==
  ASSUME PanelTyped, HandsFit, OneAtATime, NEW w \in CeleryWorkers, SiteWork(w), RestoreSchema(w)
  PROVE  OneAtATime'
<1>1. busy[w] \in Hand /\ RestoredInv /\ busy[w].do = "restoreSchema" BY SiteHand DEF RestoreSchema, At
<1>2. Mine(w).kind = "restore" /\ Named(Mine(w).schema) = {} /\ disk[Mine(w).schema] = 0 BY <1>1, RestoreHand
<1>3. PICK s \in Schemas : s = Mine(w).schema BY <1>1, RestoreHand
<1>4. CASE Ends(w) /\ UNCHANGED sites
  BY <1>4, <1>1, OthersStay, QuietSites, <1>2, QuietEnd DEF sites
<1>5. ASSUME Goes(w, [busy[w] EXCEPT !.do = "restoreData", !.from = archive]),
             db' = [db EXCEPT ![Mine(w).schema] = Nobodys], UNCHANGED <<client, domain, disk, archive, status, origin>>
      PROVE  OneAtATime'
  <2>1. PICK next : next = [busy[w] EXCEPT !.do = "restoreData", !.from = archive] OBVIOUS
  <2>2. next.do = "restoreData" /\ next.from = archive BY <1>1, <2>1 DEF Hand
  <2>3. Goes(w, next) BY <1>5, <2>1
  <2>4. busy'[w] = next /\ Mine(w)' = Mine(w) /\ \A i \in Sites : Deleting(i)' <=> Deleting(i)
    BY <1>1, <2>3, OthersStay
  <2>5. (\A r \in Schemas : r # s => db'[r] = db[r]) /\ db'[s] = Nobodys BY <1>3, <1>5, TypedSites DEF SitesTyped
  <2>6. RestoredInv' BY <1>1, <1>2, <1>3, <1>5, <2>4, <2>5, NamelessStays
  <2>7. Named(s)' = Named(s) BY <1>5 DEF Named
  <2>8. HandTrue(w)' BY <1>2, <1>3, <1>5, <2>2, <2>4, <2>5, <2>7 DEF HandTrue
  <2> QED BY <1>5, <2>3, <2>6, <2>8, QuietGoes
<1> QED BY <1>1, <1>4, <1>5, RestoreSchemaGoes

LEMMA RestoreDataApart ==
  ASSUME PanelTyped, HandsFit, OneAtATime, NEW w \in CeleryWorkers, SiteWork(w), RestoreData(w)
  PROVE  OneAtATime'
<1>1. busy[w] \in Hand /\ RestoredInv /\ ArchiveInv /\ HandTrue(w) /\ busy[w].do = "restoreData"
  BY SiteHand DEF RestoreData, At
<1>2. /\ Mine(w).kind = "restore" /\ Named(Mine(w).schema) = {} /\ disk[Mine(w).schema] = 0
      /\ "restoreFiles" \in StepsOf(Mine(w).kind)
  BY <1>1, RestoreHand
<1>3. PICK s \in Schemas : s = Mine(w).schema BY <1>1, RestoreHand
<1>4. /\ db' = [db EXCEPT ![s] = IF archive.data = 0 THEN @ ELSE archive.data] /\ Then(w, "restoreFiles")
      /\ UNCHANGED <<client, disk, archive, origin>>
  BY <1>3 DEF RestoreData
<1>5. PICK next : /\ Goes(w, next) /\ busy'[w] = next /\ Mine(w)' = Mine(w)
                  /\ \A i \in Sites : Deleting(i)' <=> Deleting(i)
                  /\ next.do = "restoreFiles" /\ next.from = busy[w].from
  BY <1>1, <1>2, <1>4, ThenNext
<1>6. (\A r \in Schemas : r # s => db'[r] = db[r]) /\ db'[s] = Tables(archive)
  BY <1>1, <1>3, <1>4, TypedSites DEF SitesTyped, HandTrue, Tables
<1>7. RestoredInv' BY <1>1, <1>2, <1>3, <1>4, <1>5, <1>6, NamelessStays
<1>8. busy[w].from.listed => busy[w].from = archive /\ db'[s] = Tables(archive)
  BY <1>1, <1>2, <1>6 DEF HandTrue
<1>9. Named(s)' = Named(s) BY <1>4 DEF Named
<1>10. HandTrue(w)' BY <1>2, <1>3, <1>4, <1>5, <1>8, <1>9 DEF HandTrue
<1> QED BY <1>4, <1>5, <1>7, <1>10, QuietGoes

LEMMA RestoreFilesApart ==
  ASSUME PanelTyped, HandsFit, OneAtATime, NEW w \in CeleryWorkers, SiteWork(w), RestoreFiles(w)
  PROVE  OneAtATime'
<1>1. busy[w] \in Hand /\ RestoredInv /\ HandTrue(w) /\ busy[w].do = "restoreFiles" BY SiteHand DEF RestoreFiles, At
<1>2. /\ Mine(w).kind = "restore" /\ Named(Mine(w).schema) = {} /\ disk[Mine(w).schema] = 0
      /\ "insert" \in StepsOf(Mine(w).kind)
  BY <1>1, RestoreHand
<1>3. PICK s \in Schemas : s = Mine(w).schema BY <1>1, RestoreHand
<1>4. UNCHANGED <<client, db, archive, origin>> BY DEF RestoreFiles
<1>5. disk' = [disk EXCEPT ![s] = IF archive.files # 0 THEN archive.files ELSE @] /\ Then(w, "insert")
  BY <1>2, <1>3 DEF RestoreFiles
<1>6. PICK next : /\ Goes(w, next) /\ busy'[w] = next /\ Mine(w)' = Mine(w)
                  /\ \A i \in Sites : Deleting(i)' <=> Deleting(i)
                  /\ next.do = "insert" /\ next.from = busy[w].from
  BY <1>1, <1>2, <1>5, ThenNext
<1>7. (\A r \in Schemas : r # s => disk'[r] = disk[r]) /\ disk'[s] = archive.files
  BY <1>2, <1>3, <1>5, TypedSites DEF SitesTyped
<1>8. RestoredInv' BY <1>1, <1>2, <1>3, <1>4, <1>6, <1>7, NamelessStays
<1>9. busy[w].from.listed => busy[w].from = archive /\ db[s] = Tables(archive) BY <1>1, <1>2, <1>3 DEF HandTrue
<1>10. Named(s)' = Named(s) BY <1>4 DEF Named
<1>11. HandTrue(w)' BY <1>2, <1>3, <1>4, <1>6, <1>7, <1>9, <1>10 DEF HandTrue
<1> QED BY <1>4, <1>6, <1>8, <1>11, QuietGoes

-----------------------------------------------------------------------------
\* Steps outside the tasks on sites.
LEMMA StillApart ==
  ASSUME PanelTyped, HandsFit, OneAtATime, UNCHANGED <<client, db, disk, archive, origin>>, ArchiveInv',
         \A v \in CeleryWorkers : SiteWork(v)' => SiteWork(v) /\ busy'[v] = busy[v] /\ Mine(v)' = Mine(v),
         \A i \in Sites : Deleting(i) => Deleting(i)'
  PROVE  OneAtATime'
BY QuietSites DEF OneAtATime, OneOnSites, Named, HandTrue

LEMMA CheckApart ==
  ASSUME PanelTyped, HandsFit, OneAtATime, NEW w \in CeleryWorkers, TaskStep(w), ~SiteWork(w)
  PROVE  OneAtATime'
<1>1. busy[w] \in Hand BY StepAt
<1>2. /\ Mine(w).kind = "check" /\ busy[w].do \in StepsOf(Mine(w).kind) /\ Mine(w) = job[busy[w].t]
  BY <1>1, TheTask DEF SiteWork, OnSites, Kinds
<1>3. busy[w].do \in {"clean", "record"} BY <1>2 DEF StepsOf
<1>4. UNCHANGED <<client, db, disk, archive, origin>>
  BY <1>3 DEF TaskStep, Load, InsertSite, CreateSchema, AddDomain, DropSchema, DropRow, DropFiles, UpdateSite,
     MakeFolder, DumpData, CopyFiles, Verify, RestoreSchema, RestoreData, RestoreFiles, CleanUp, Record, At
<1>5. PICK next : Goes(w, next) \/ (Ends(w) /\ next = Resting) BY StepGoes
<1>6. /\ \A v \in CeleryWorkers : v # w => busy'[v] = busy[v] /\ (busy[v] \in Hand => Mine(v)' = Mine(v))
      /\ \A t \in Tasks : job'[t].kind = job[t].kind /\ (t # busy[w].t => job'[t] = job[t])
      /\ \A i \in Sites : Deleting(i)' <=> Deleting(i)
      /\ \A v \in CeleryWorkers : SiteWork(v)' => SiteWork(v)
  BY <1>1, <1>5, OthersStay
<1>7. ArchiveInv' BY <1>2, <1>4, <1>6, ArchiveStays DEF OneAtATime
<1>8. \A v \in CeleryWorkers : SiteWork(v)' => SiteWork(v) /\ busy'[v] = busy[v] /\ Mine(v)' = Mine(v)
  BY <1>6 DEF SiteWork
<1> QED BY <1>4, <1>6, <1>7, <1>8, StillApart

LEMMA TakeApart ==
  ASSUME PanelTyped, HandsFit, OneAtATime, NEW w \in CeleryWorkers, Take(w), ~crossed'
  PROVE  OneAtATime'
<1>1. PICK t \in Tasks, hand \in Hand :
        /\ busy[w] = Resting /\ job[t].state = "queued" /\ job' = [job EXCEPT ![t].state = "started"]
        /\ busy' = [busy EXCEPT ![w] = hand] /\ hand.t = t /\ hand.do = First(job[t].kind)
        /\ hand.do \in StepsOf(job[t].kind) /\ hand.site = job[t].site /\ ~hand.from.listed
        /\ crossed' = (crossed \/ CrossesWith(t))
  BY TakesHand
<1>2. UNCHANGED <<client, db, disk, archive, origin>> BY DEF Take, sites
<1>3. PICK taken : taken = [job[t] EXCEPT !.state = "started"] OBVIOUS
<1>4. job[t] \in TaskJob /\ JobFits(job[t]) /\ job[t].kind \in Kinds BY <1>1 DEF PanelTyped, JobFits, TaskJob
<1>5. taken.kind = job[t].kind /\ taken.site = job[t].site /\ taken.state = "started" BY <1>3, <1>4 DEF TaskJob
<1>6. job'[t] = taken /\ \A u \in Tasks : u # t => job'[u] = job[u] BY <1>1, <1>3 DEF PanelTyped
<1>7. busy'[w] = hand /\ \A v \in CeleryWorkers : v # w => busy'[v] = busy[v] BY <1>1 DEF PanelTyped
<1>8. ArchiveInv' BY <1>1, <1>2, <1>5, <1>6 DEF OneAtATime, ArchiveInv
<1>9. \A i \in Sites : Deleting(i) => Deleting(i)' BY <1>1, <1>5, <1>6 DEF Deleting
<1>10. ASSUME NEW v \in CeleryWorkers, v # w, busy[v] \in Hand PROVE Mine(v)' = Mine(v)
  BY <1>10, TheTask, <1>1, <1>6, <1>7 DEF Mine
<1>11. \A v \in CeleryWorkers : v # w /\ SiteWork(v)' => SiteWork(v) /\ busy'[v] = busy[v] /\ Mine(v)' = Mine(v)
  BY <1>7, <1>10 DEF SiteWork
<1>12. Mine(w)' = taken BY <1>1, <1>6, <1>7 DEF Mine
<1>13. CASE ~OnSites(job[t])
  <2>1. ~SiteWork(w)' BY <1>5, <1>12, <1>13 DEF SiteWork, OnSites
  <2> QED BY <1>2, <1>8, <1>9, <1>11, <2>1, StillApart
<1>14. CASE OnSites(job[t])
  <2>1. ~CrossesWith(t) BY <1>1
  <2>2. ASSUME NEW v \in CeleryWorkers, SiteWork(v) PROVE FALSE
    <3>1. Mine(v).state = "started" /\ busy[v].t \in Tasks /\ Mine(v) = job[busy[v].t] /\ OnSites(Mine(v)) /\ busy[v] \in Hand
      BY <2>2, TheTask DEF SiteWork
    <3>2. busy[v] # Resting BY <3>1 DEF Resting, Hand, Steps
    <3> QED BY <1>14, <2>1, <3>1, <3>2 DEF CrossesWith
  <2>3. \A v \in CeleryWorkers : SiteWork(v)' => v = w BY <1>11, <2>2
  <2>4. OneOnSites' BY <2>3 DEF OneOnSites
  <2>5. hand.do \in {"insert", "verify", "clean", "load"} /\ (hand.do = "insert" => job[t].kind = "add")
    BY <1>1, <1>4 DEF First, Kinds
  <2>6. HandTrue(w)' BY <1>5, <1>7, <1>12, <2>5 DEF HandTrue
  <2>7. RestoredInv' BY <1>2, <1>9, QuietSites DEF OneAtATime
  <2> QED BY <1>8, <2>3, <2>4, <2>6, <2>7 DEF OneAtATime
<1> QED BY <1>13, <1>14

LEMMA ViewsApart ==
  ASSUME PanelTyped, HandsFit, OneAtATime, Submits \/ SaveTask \/ DayPasses
  PROVE  OneAtATime'
<1>1. CASE Submits
  <2>1. PICK t, request : Queues(t, request) BY <1>1, SubmitsQueues
  <2>2. /\ t \in Tasks /\ job[t] = NoJob /\ job' = [job EXCEPT ![t] = request] /\ Asked(request)
        /\ UNCHANGED <<client, db, disk, archive, origin, busy>>
    BY <2>1 DEF Queues, sites
  <2>3. request.state = "queued" /\ (request.kind = "backup" => archive = NoArchive /\ \A u \in Tasks : job[u].kind # "backup")
    BY <2>2 DEF Asked
  <2>4. job'[t] = request /\ \A u \in Tasks : u # t => job'[u] = job[u] BY <2>2 DEF PanelTyped
  <2>5. ArchiveInv BY DEF OneAtATime
  <2>6. ArchiveInv'
    <3>1. CASE request.kind # "backup" BY <2>2, <2>4, <2>5, <3>1, ArchiveStays DEF NoJob, Request
    <3>2. CASE request.kind = "backup"
      BY <2>3, <2>4, <3>2, <2>2 DEF NoArchive, ArchiveInv
    <3> QED BY <3>1, <3>2
  <2>7. \A i \in Sites : Deleting(i) => Deleting(i)' BY <2>2, <2>4 DEF Deleting, NoJob, Request
  <2>8. \A v \in CeleryWorkers : SiteWork(v)' => SiteWork(v) /\ busy'[v] = busy[v] /\ Mine(v)' = Mine(v)
    BY <2>2, TheTask, <2>4 DEF SiteWork, NoJob, Request, Mine
  <2> QED BY <2>2, <2>6, <2>7, <2>8, StillApart
<1>2. CASE SaveTask \/ DayPasses
  <2>1. UNCHANGED <<client, db, disk, archive, origin, busy, job>> BY <1>2 DEF SaveTask, DayPasses, sites
  <2>2. ArchiveInv' BY <2>1, ArchiveStays DEF OneAtATime
  <2>3. \A v \in CeleryWorkers : SiteWork(v)' => SiteWork(v) /\ busy'[v] = busy[v] /\ Mine(v)' = Mine(v)
    BY <2>1 DEF SiteWork, Mine
  <2>4. \A i \in Sites : Deleting(i) => Deleting(i)' BY <2>1 DEF Deleting
  <2> QED BY <2>1, <2>2, <2>3, <2>4, StillApart
<1> QED BY <1>1, <1>2

\* People make a media folder for their own site only.
LEMMA UploadApart ==
  ASSUME PanelTyped, HandsFit, OneAtATime, Upload
  PROVE  OneAtATime'
<1>1. PICK i \in Present : disk[client[i].schema] = 0 /\ disk' = [disk EXCEPT ![client[i].schema] = i] BY DEF Upload
<1>2. UNCHANGED <<client, db, archive, origin, job, busy>> BY DEF Upload
<1>3. i \in Sites /\ client[i].there BY <1>1 DEF Present
<1>4. PICK s \in Schemas : s = client[i].schema BY <1>3, TypedSites DEF SitesTyped
<1>5. disk[s] = 0 /\ disk'[s] = i /\ \A r \in Schemas : r # s => disk'[r] = disk[r]
  BY <1>1, <1>4, TypedSites DEF SitesTyped
<1>6. ArchiveInv' BY <1>2, ArchiveStays DEF OneAtATime
<1>7. RestoredInv'
  <2>1. ASSUME NEW j \in Sites, client'[j].there
        PROVE  /\ origin'[j] # Unmade
               /\ origin'[j].how = "restored" /\ origin'[j].from.listed /\ ~Deleting(j)' =>
                    /\ db'[client'[j].schema] = Tables(origin'[j].from)
                    /\ IF origin'[j].from.files = 0 THEN disk'[client'[j].schema] \in {0, j}
                       ELSE disk'[client'[j].schema] = origin'[j].from.files
    <3>1. Deleting(j)' <=> Deleting(j) BY <1>2 DEF Deleting
    <3>2. client[j].there /\ client[j].schema \in Schemas BY <1>2, <2>1, TypedSites DEF SitesTyped
    <3>3. CASE j = i BY <1>2, <1>4, <1>5, <3>1, <3>2, <3>3 DEF OneAtATime, RestoredInv
    <3>4. CASE j # i
      <4>1. client[j].schema # s BY <1>3, <1>4, <3>2, <3>4, TypedSites DEF SitesTyped
      <4> QED BY <1>2, <1>5, <3>1, <3>2, <4>1 DEF OneAtATime, RestoredInv
    <3> QED BY <3>3, <3>4
  <2> QED BY <2>1 DEF RestoredInv
<1>8. \A v \in CeleryWorkers : (SiteWork(v)' <=> SiteWork(v)) /\ busy'[v] = busy[v] /\ Mine(v)' = Mine(v)
  BY <1>2 DEF SiteWork, Mine
<1>9. ASSUME NEW v \in CeleryWorkers, SiteWork(v) PROVE HandTrue(v)'
  <2>1. HandTrue(v) /\ Mine(v).kind \in Kinds /\ busy[v].do \in StepsOf(Mine(v).kind) /\ JobFits(Mine(v))
    BY <1>9, SiteHand
  <2>2. \A r : Named(r)' = Named(r) BY <1>2 DEF Named
  <2>3. busy[v].do \in {"restoreSchema", "restoreData", "restoreFiles"} => Mine(v).kind = "restore" BY <2>1, StepKinds
  <2>4. busy[v].do \in {"restoreSchema", "restoreData", "restoreFiles", "insert"} /\ Mine(v).kind = "restore" =>
          disk'[Mine(v).schema] = disk[Mine(v).schema]
    BY <2>1, <1>3, <1>4, Elsewhere, <1>5 DEF HandTrue, JobFits
  <2> QED BY <1>2, <1>8, <2>1, <2>2, <2>3, <2>4 DEF HandTrue
<1>10. OneOnSites' BY <1>8 DEF OneAtATime, OneOnSites
<1> QED BY <1>6, <1>7, <1>8, <1>9, <1>10 DEF OneAtATime

\* A backup is listed once it is done; a restore that began before is not one of it.
LEMMA ListApart ==
  ASSUME PanelTyped, HandsFit, OneAtATime, NEW x \in CeleryWorkers, ListBackup(x)
  PROVE  OneAtATime'
<1>1. /\ \E t \in Tasks : job[t].kind = "backup" /\ job[t].state = "done"
      /\ ~archive.listed /\ archive' = [archive EXCEPT !.listed = TRUE]
      /\ UNCHANGED <<client, db, disk, origin, job, busy>>
  BY DEF ListBackup
<1>2. archive'.data = archive.data BY <1>1, TypedSites DEF SitesTyped, Archive
<1>3. ArchiveInv' BY <1>1, <1>2 DEF OneAtATime, ArchiveInv
<1>4. RestoredInv'
  BY <1>1, QuietSites DEF Deleting, OneAtATime
<1>5. \A v \in CeleryWorkers : (SiteWork(v)' <=> SiteWork(v)) /\ busy'[v] = busy[v] /\ Mine(v)' = Mine(v)
  BY <1>1 DEF SiteWork, Mine
<1>6. ASSUME NEW v \in CeleryWorkers, SiteWork(v) PROVE HandTrue(v)'
  BY <1>6, <1>1, <1>2, <1>5 DEF OneAtATime, Named, HandTrue
<1>7. OneOnSites' BY <1>5 DEF OneAtATime, OneOnSites
<1> QED BY <1>3, <1>4, <1>5, <1>6, <1>7 DEF OneAtATime

\* Follow-ups and deaths leave the sites alone.
LEMMA FollowsNext ==
  ASSUME PanelTyped, NEW w \in CeleryWorkers, FollowStep(w)
  PROVE  /\ UNCHANGED <<client, domain, db, disk, archive, origin, job, form>> /\ crossed' = crossed
         /\ busy'[w] \notin Hand /\ \A v \in CeleryWorkers : v # w => busy'[v] = busy[v]
<1>1. UNCHANGED <<client, domain, db, disk, archive, origin, job, form>> /\ crossed' = crossed
  BY DEF FollowStep, BeginPoll, ReadRemote, WriteTask, WorkerDies, sites
<1>2. Resting \notin Hand /\ \A S : Begun(S) \notin Hand BY DEF Resting, Begun, Hand, Steps
<1>3. RestOf(w) \notin Hand /\ \A t : Looked(w, t) \notin Hand BY DEF RestOf, Looked, Hand, Steps
<1>4. \E next : busy' = [busy EXCEPT ![w] = next] /\ next \notin Hand
  <2>1. CASE BeginPoll(w)
    BY <2>1, <1>2 DEF BeginPoll, Begun
  <2>2. CASE ReadRemote(w)
    BY <2>2, <1>3 DEF ReadRemote, Looked
  <2>3. CASE WriteTask(w)
    BY <2>3, <1>2, <1>3 DEF WriteTask, RestOf
  <2>4. CASE WorkerDies(w) BY <1>2, <2>4 DEF WorkerDies
  <2> QED BY <2>1, <2>2, <2>3, <2>4 DEF FollowStep
<1> QED BY <1>1, <1>4 DEF PanelTyped

LEMMA FollowApart ==
  ASSUME PanelTyped, HandsFit, OneAtATime, NEW w \in CeleryWorkers, FollowStep(w)
  PROVE  OneAtATime'
BY FollowsNext, ArchiveStays, StillApart DEF OneAtATime, SiteWork, Mine, Deleting

LEMMA SiteStepApart ==
  ASSUME PanelTyped, HandsFit, OneAtATime, NEW w \in CeleryWorkers, SiteWork(w), TaskStep(w)
  PROVE  OneAtATime'
<1>1. ~CleanUp(w) /\ ~Record(w)
  BY SiteHand, StepKinds DEF SiteWork, OnSites, CleanUp, Record, At
<1> QED BY <1>1, LoadApart, InsertApart, CreateApart, AddDomainApart, DropSchemaApart, DropRowApart, DropFilesApart,
     UpdateApart, MakeFolderApart, DumpDataApart, CopyFilesApart, VerifyApart, RestoreSchemaApart, RestoreDataApart,
     RestoreFilesApart DEF TaskStep

LEMMA UncrossedKeeps ==
  ASSUME PanelTyped, HandsFit, Uncrossed, PanelNext
  PROVE  Uncrossed'
<1> SUFFICES ASSUME ~crossed' PROVE OneAtATime' BY DEF Uncrossed
<1>1. CASE Submits \/ SaveTask \/ DayPasses
  BY <1>1, SubmitsQueues, ViewsApart DEF Queues, SaveTask, DayPasses, Uncrossed
<1>2. CASE Upload
  BY <1>2, UploadApart DEF Upload, Uncrossed
<1>3. ASSUME NEW w \in CeleryWorkers, TaskStep(w) PROVE OneAtATime'
  <2>1. crossed' = crossed BY <1>3, StepGoes
  <2> QED BY <1>3, <2>1, SiteStepApart, CheckApart DEF Uncrossed
<1>4. ASSUME NEW w \in CeleryWorkers, Take(w) PROVE OneAtATime'
  <2>1. ~crossed BY <1>4, TakesHand
  <2> QED BY <1>4, <2>1, TakeApart DEF Uncrossed
<1>5. ASSUME NEW w \in CeleryWorkers, ListBackup(w) PROVE OneAtATime'
  BY <1>5, ListApart DEF ListBackup, Uncrossed
<1>6. ASSUME NEW w \in CeleryWorkers, FollowStep(w) PROVE OneAtATime'
  <2>1. crossed' = crossed BY <1>6, FollowsNext
  <2> QED BY <1>6, <2>1, FollowApart DEF Uncrossed
<1> QED BY <1>1, <1>2, <1>3, <1>4, <1>5, <1>6, PanelStep

-----------------------------------------------------------------------------
\* Between the statements that fill and empty: sites have their own, names nothing.
Clean ==
  /\ \A i \in Sites : client[i].there /\ origin[i].how \in {"inserted", "added"} =>
       origin[i].how = "added" /\ db[client[i].schema] = i /\ disk[client[i].schema] \in {0, i, Nobodys}
  /\ \A s \in Schemas : Named(s) = {} => db[s] = 0 /\ disk[s] \in {0, Nobodys}
Halfway(w) ==
  \/ busy[w].do \in {"dropRow", "createSchema", "restoreData", "restoreFiles", "dropFiles"}
  \/ busy[w].do = "insert" /\ Mine(w).kind = "restore"

\* The same, but for what w is doing.
SitesDone(w) ==
  \A i \in Sites : client[i].there /\ origin[i].how \in {"inserted", "added"} =>
    /\ disk[client[i].schema] \in {0, i, Nobodys}
    /\ origin[i].how = "added" => (db[client[i].schema] = i \/ (At(w, "dropRow") /\ busy[w].site = i))
    /\ origin[i].how = "inserted" => (db[client[i].schema] = 0 /\ At(w, "createSchema") /\ busy[w].site = i)
NamesDone(w) ==
  \A s \in Schemas : Named(s) = {} =>
    /\ \/ db[s] = 0
       \/ Mine(w).kind = "restore" /\ Mine(w).schema = s /\ busy[w].do \in {"restoreData", "restoreFiles", "insert"}
    /\ \/ disk[s] \in {0, Nobodys}
       \/ Mine(w).kind = "restore" /\ Mine(w).schema = s /\ busy[w].do = "insert"
       \/ busy[w].do = "dropFiles" /\ busy[w].copy.schema = s

LEMMA ClearFresh ==
  ASSUME Clean'
  PROVE  FreshSites'
BY DEF Clean, FreshSites, SitesFresh, NamesFree

LEMMA CleanNow ==
  ASSUME FreshSites, \A w \in CeleryWorkers : SiteWork(w) => ~Halfway(w)
  PROVE  Clean
<1>1. \A i \in Sites : ~Dropped(i) /\ ~Started(i) BY DEF Dropped, Started, Halfway, At
<1>2. \A s \in Schemas : ~Filling(s) /\ ~Filled(s) /\ ~Emptying(s)
  BY DEF Filling, Filled, Emptying, Restores, Halfway, At
<1> QED BY <1>1, <1>2 DEF Clean, FreshSites, SitesFresh, NamesFree

LEMMA HalfDone ==
  ASSUME OneAtATime, FreshSites, NEW w \in CeleryWorkers, SiteWork(w)
  PROVE  SitesDone(w) /\ NamesDone(w) /\ (~Halfway(w) => Clean)
<1>1. \A v \in CeleryWorkers : SiteWork(v) => v = w BY DEF OneAtATime, OneOnSites
<1>2. /\ \A i \in Sites : Dropped(i) => At(w, "dropRow") /\ busy[w].site = i
      /\ \A i \in Sites : Started(i) => At(w, "createSchema") /\ busy[w].site = i
  BY <1>1 DEF Dropped, Started
<1>3. /\ \A s \in Schemas : Filling(s) => Mine(w).kind = "restore" /\ Mine(w).schema = s /\ busy[w].do \in {"restoreData", "restoreFiles", "insert"}
      /\ \A s \in Schemas : Filled(s) => Mine(w).kind = "restore" /\ Mine(w).schema = s /\ busy[w].do = "insert"
      /\ \A s \in Schemas : Emptying(s) => busy[w].do = "dropFiles" /\ busy[w].copy.schema = s
  BY <1>1 DEF Filling, Filled, Emptying, Restores, At
<1>4. SitesDone(w) BY <1>2 DEF SitesDone, FreshSites, SitesFresh
<1>5. NamesDone(w) BY <1>3 DEF NamesDone, FreshSites, NamesFree
<1>6. ~Halfway(w) => Clean BY <1>1, CleanNow
<1> QED BY <1>4, <1>5, <1>6

\* The only task goes on: what it leaves half done is its own.
LEMMA GoesFresh ==
  ASSUME PanelTyped, HandsFit, NEW w \in CeleryWorkers, SiteWork(w), NEW next, Goes(w, next),
         SitesDone(w)', NamesDone(w)'
  PROVE  FreshSites'
<1>1. busy[w] \in Hand /\ OnSites(Mine(w)) BY DEF SiteWork
<1>2. busy'[w] \in Hand /\ Mine(w)' = Mine(w) BY <1>1, OthersStay DEF Goes
<1>3. SiteWork(w)' BY <1>1, <1>2 DEF SiteWork, OnSites
<1>4. SitesFresh' BY <1>3 DEF SitesDone, SitesFresh, Dropped, Started
<1>5. NamesFree' BY <1>3 DEF NamesDone, NamesFree, Filling, Filled, Emptying, Restores, At
<1> QED BY <1>4, <1>5 DEF FreshSites

\* Steps that make and empty nothing, while a task on sites may be halfway.
LEMMA StillFresh ==
  ASSUME FreshSites, UNCHANGED <<db, disk, origin>>,
         \A i \in Sites : client'[i].there = client[i].there /\ client'[i].schema = client[i].schema,
         \A v \in CeleryWorkers : SiteWork(v) => SiteWork(v)' /\ busy'[v] = busy[v] /\ Mine(v)' = Mine(v)
  PROVE  FreshSites'
<1>1. \A i \in Sites : (Dropped(i) => Dropped(i)') /\ (Started(i) => Started(i)') BY DEF Dropped, Started, At
<1>2. \A s \in Schemas : (Filling(s) => Filling(s)') /\ (Filled(s) => Filled(s)') /\ (Emptying(s) => Emptying(s)')
  BY DEF Filling, Filled, Emptying, Restores, At
<1>3. \A s \in Schemas : Named(s)' = Named(s) BY DEF Named
<1>4. SitesFresh' BY <1>1 DEF FreshSites, SitesFresh
<1>5. NamesFree' BY <1>2, <1>3 DEF FreshSites, NamesFree
<1> QED BY <1>4, <1>5 DEF FreshSites

-----------------------------------------------------------------------------
\* A site that is added has its own schema, made after its row.
LEMMA InsertFresh ==
  ASSUME PanelTyped, HandsFit, OneAtATime, FreshSites, NEW w \in CeleryWorkers, SiteWork(w), InsertSite(w)
  PROVE  FreshSites'
<1>1. /\ busy[w] \in Hand /\ HandTrue(w) /\ busy[w].do \in StepsOf(Mine(w).kind)
      /\ Mine(w).kind \in Kinds /\ JobFits(Mine(w))
  BY SiteHand
<1>2. busy[w].do = "insert" /\ Mine(w).kind \in {"add", "restore"} BY <1>1, StepKinds DEF InsertSite, At
<1>3. PICK s \in Schemas : s = Mine(w).schema BY <1>1, <1>2 DEF JobFits
<1>4. SitesDone(w) /\ NamesDone(w) /\ (~Halfway(w) => Clean) BY HalfDone
<1>5. CASE Ends(w) /\ UNCHANGED sites /\ Named(Mine(w).schema) # {}
  <2>1. Mine(w).kind = "add" BY <1>1, <1>2, <1>5 DEF HandTrue
  <2>2. Clean BY <1>2, <1>4, <2>1 DEF Halfway
  <2>3. Clean' BY <1>5, <2>2 DEF sites, Clean, Named
  <2> QED BY <2>3, ClearFresh
<1>6. ASSUME NEW i \in Sites, Goes(w, Inserted(w, i)), Inserts(w, i) PROVE FreshSites'
  <2> DEFINE next == Inserted(w, i)
             new  == [there |-> TRUE, schema |-> Mine(w).schema, active |-> TRUE]
             from == IF Mine(w).kind = "add" THEN [Unmade EXCEPT !.how = "inserted"]
                     ELSE [how |-> "restored", from |-> busy[w].from]
  <2>1. busy'[w] = next /\ Mine(w)' = Mine(w) BY <1>1, <1>6, OthersStay
  <2>2. next.site = i /\ next.do = (IF Mine(w).kind = "add" THEN "createSchema" ELSE "addDomain")
    BY <1>1 DEF Inserted, Hand
  <2>3. new.there /\ new.schema = Mine(w).schema OBVIOUS
  <2>4. from.how = IF Mine(w).kind = "add" THEN "inserted" ELSE "restored" BY DEF Unmade
  <2>5. client' = [client EXCEPT ![i] = new] /\ origin' = [origin EXCEPT ![i] = from] /\ UNCHANGED <<db, disk>>
    BY <1>6 DEF Inserts
  <2>6. Named(s) = {} /\ NewSite(i) BY <1>3, <1>6 DEF Inserts
  <2> PICK row1 : row1 = new OBVIOUS
  <2> PICK past : past = from OBVIOUS
  <2> HIDE DEF next, new, from
  <2>7. /\ client'[i] = row1 /\ row1.there /\ row1.schema = s
        /\ origin'[i] = past /\ past.how = (IF Mine(w).kind = "add" THEN "inserted" ELSE "restored")
        /\ \A j \in Sites : j # i => client'[j] = client[j] /\ origin'[j] = origin[j]
    BY <1>3, <2>3, <2>4, <2>5, TypedSites DEF SitesTyped
  <2>8. i \in Named(s)' BY <2>7 DEF Named
  <2>9. \A r \in Schemas : Named(r)' = {} => r # s /\ Named(r) = {}
    <3> SUFFICES ASSUME NEW r \in Schemas, Named(r)' = {} PROVE r # s /\ Named(r) = {} OBVIOUS
    <3>1. r # s BY <2>8
    <3>2. ~client[i].there BY <2>6, <1>1, SiteHand DEF NewSite, RestoredInv
    <3> QED BY <2>7, <3>1, <3>2 DEF Named
  <2>10. NamesDone(w)'
    BY <1>2, <1>3, <1>4, <2>9, <2>5 DEF NamesDone
  <2>11. SitesDone(w)'
    <3>1. ASSUME NEW j \in Sites, client'[j].there, origin'[j].how \in {"inserted", "added"}
          PROVE  /\ disk'[client'[j].schema] \in {0, j, Nobodys}
                 /\ origin'[j].how = "added" => db'[client'[j].schema] = j
                 /\ origin'[j].how = "inserted" => (db'[client'[j].schema] = 0 /\ At(w, "createSchema")' /\ busy'[w].site = j)
      <4>1. CASE j = i
        <5>1. Mine(w).kind = "add" /\ past.how = "inserted" BY <1>2, <2>7, <3>1, <4>1
        <5>2. db[s] = 0 /\ disk[s] \in {0, Nobodys} BY <1>2, <1>4, <2>6, <5>1 DEF NamesDone
        <5> QED BY <2>1, <2>2, <2>5, <2>7, <4>1, <5>1, <5>2 DEF At
      <4>2. CASE j # i
        <5>1. client[j].there /\ origin[j].how \in {"inserted", "added"} /\ client'[j] = client[j] /\ origin'[j] = origin[j]
          BY <2>7, <3>1, <4>2
        <5>2. /\ disk[client[j].schema] \in {0, j, Nobodys} /\ origin[j].how = "added"
              /\ db[client[j].schema] = j
          BY <1>2, <1>4, <5>1 DEF SitesDone, At
        <5> QED BY <2>5, <5>1, <5>2
      <4> QED BY <4>1, <4>2
    <3> QED BY <3>1 DEF SitesDone
  <2>12. Goes(w, next) BY <1>6 DEF next
  <2> QED BY <2>10, <2>11, <2>12, GoesFresh
<1> QED BY <1>1, <1>5, <1>6, InsertGoes

LEMMA CreateFresh ==
  ASSUME PanelTyped, HandsFit, OneAtATime, FreshSites, NEW w \in CeleryWorkers, SiteWork(w), CreateSchema(w)
  PROVE  FreshSites'
<1>1. /\ busy[w] \in Hand /\ HandTrue(w) /\ busy[w].do \in StepsOf(Mine(w).kind)
      /\ Mine(w).kind \in Kinds /\ HandFits(busy[w], Mine(w)) /\ JobFits(Mine(w))
  BY SiteHand
<1>2. busy[w].do = "createSchema" BY DEF CreateSchema, At
<1>3. PICK i \in Sites, s \in Schemas : i = busy[w].site /\ s = Mine(w).schema
  BY <1>1, <1>2, StepKinds DEF HandFits, JobFits
<1>4. client[i].there /\ client[i].schema = s /\ origin[i].how = "inserted" BY <1>1, <1>2, <1>3 DEF HandTrue
<1>5. SitesDone(w) /\ NamesDone(w) BY HalfDone
<1>6. /\ db' = [db EXCEPT ![s] = IF @ = 0 THEN i ELSE @] /\ origin' = [origin EXCEPT ![i].how = "added"]
      /\ UNCHANGED <<client, disk>>
  BY <1>3 DEF CreateSchema
<1>7. db[s] = 0 /\ disk[s] \in {0, i, Nobodys} BY <1>4, <1>5 DEF SitesDone
<1>8. /\ db'[s] = i /\ \A r \in Schemas : r # s => db'[r] = db[r]
      /\ origin'[i].how = "added" /\ \A j \in Sites : j # i => origin'[j] = origin[j]
  BY <1>6, <1>7, TypedSites DEF SitesTyped
<1>9. \A j \in Sites : client[j].there /\ j # i => client[j].schema # s /\ client[j].schema \in Schemas
  BY <1>4, TypedSites DEF SitesTyped
<1>10. \A r : Named(r)' = Named(r) BY <1>6 DEF Named
<1>11. i \in Named(s) BY <1>4 DEF Named
<1>12. ASSUME NEW j \in Sites, client'[j].there, origin'[j].how \in {"inserted", "added"}
       PROVE  origin'[j].how = "added" /\ db'[client'[j].schema] = j /\ disk'[client'[j].schema] \in {0, j, Nobodys}
  <2>1. CASE j = i BY <1>4, <1>6, <1>7, <1>8, <2>1
  <2>2. CASE j # i
    <3>1. client[j].there /\ origin[j].how \in {"inserted", "added"} BY <1>6, <1>8, <1>12, <2>2
    <3>2. /\ disk[client[j].schema] \in {0, j, Nobodys} /\ origin[j].how = "added"
          /\ db[client[j].schema] = j
      BY <1>2, <1>3, <1>5, <2>2, <3>1 DEF SitesDone, At
    <3> QED BY <1>6, <1>8, <1>9, <2>2, <3>1, <3>2
  <2> QED BY <2>1, <2>2
<1>13. \A r \in Schemas : Named(r)' = {} => db'[r] = 0 /\ disk'[r] \in {0, Nobodys}
  BY <1>2, <1>5, <1>6, <1>8, <1>10, <1>11 DEF NamesDone
<1>14. Clean' BY <1>12, <1>13 DEF Clean
<1> QED BY <1>14, ClearFresh

\* A deletion drops the schema, the row and the files of its own site.
LEMMA DropSchemaFresh ==
  ASSUME PanelTyped, HandsFit, OneAtATime, FreshSites, NEW w \in CeleryWorkers, SiteWork(w), DropSchema(w)
  PROVE  FreshSites'
<1>1. busy[w] \in Hand /\ HandTrue(w) /\ busy[w].do = "dropSchema" BY SiteHand DEF DropSchema, At
<1>2. /\ Mine(w).kind = "delete" /\ busy[w].site \in Sites /\ busy[w].copy.there /\ busy[w].copy.schema \in Schemas
      /\ \A i \in Sites : client[i].there /\ client[i].schema = busy[w].copy.schema => i = busy[w].site
  BY <1>1, DeletionHand
<1>3. PICK i \in Sites, s \in Schemas : i = busy[w].site /\ s = busy[w].copy.schema BY <1>2
<1>4. Clean BY <1>1, HalfDone DEF Halfway
<1>5. db' = [db EXCEPT ![s] = 0] /\ UNCHANGED <<client, disk, origin>> /\ Then(w, "dropRow") BY <1>3 DEF DropSchema
<1>6. "dropRow" \in StepsOf(Mine(w).kind) BY <1>2 DEF StepsOf
<1>7. PICK next : Goes(w, next) /\ busy'[w] = next /\ next.do = "dropRow" /\ next.site = busy[w].site
  BY <1>1, <1>2, <1>5, <1>6, ThenNext
<1>8. db'[s] = 0 /\ \A r \in Schemas : r # s => db'[r] = db[r] BY <1>5, TypedSites DEF SitesTyped
<1>9. \A r : Named(r)' = Named(r) BY <1>5 DEF Named
<1>10. NamesDone(w)' BY <1>4, <1>5, <1>8, <1>9 DEF Clean, NamesDone
<1>11. ASSUME NEW j \in Sites, client'[j].there, origin'[j].how \in {"inserted", "added"}
       PROVE  /\ disk'[client'[j].schema] \in {0, j, Nobodys} /\ origin'[j].how = "added"
              /\ db'[client'[j].schema] = j \/ (At(w, "dropRow")' /\ busy'[w].site = j)
  <2>1. client[j].there /\ client[j].schema \in Schemas BY <1>5, <1>11, TypedSites DEF SitesTyped
  <2>2. client[j].schema = s => j = i BY <1>2, <1>3, <2>1
  <2>3. origin[j].how = "added" /\ db[client[j].schema] = j /\ disk[client[j].schema] \in {0, j, Nobodys}
    BY <1>4, <1>5, <1>11 DEF Clean
  <2> QED BY <1>3, <1>5, <1>7, <1>8, <2>1, <2>2, <2>3 DEF At
<1>12. SitesDone(w)' BY <1>11 DEF SitesDone
<1> QED BY <1>7, <1>10, <1>12, GoesFresh

LEMMA DropRowFresh ==
  ASSUME PanelTyped, HandsFit, OneAtATime, FreshSites, NEW w \in CeleryWorkers, SiteWork(w), DropRow(w)
  PROVE  FreshSites'
<1>1. busy[w] \in Hand /\ HandTrue(w) /\ busy[w].do = "dropRow" BY SiteHand DEF DropRow, At
<1>2. /\ Mine(w).kind = "delete" /\ busy[w].site \in Sites /\ busy[w].copy.there /\ busy[w].copy.schema \in Schemas
      /\ \A i \in Sites : client[i].there /\ client[i].schema = busy[w].copy.schema => i = busy[w].site
  BY <1>1, DeletionHand
<1>3. PICK i \in Sites, s \in Schemas : i = busy[w].site /\ s = busy[w].copy.schema BY <1>2
<1>4. SitesDone(w) /\ NamesDone(w) BY HalfDone
<1>5. client' = [client EXCEPT ![i] = NoSite] /\ UNCHANGED <<db, disk, origin>> /\ Then(w, "dropFiles")
  BY <1>3 DEF DropRow
<1>6. "dropFiles" \in StepsOf(Mine(w).kind) BY <1>2 DEF StepsOf
<1>7. PICK next : /\ Goes(w, next) /\ busy'[w] = next /\ Mine(w)' = Mine(w)
                  /\ next.do = "dropFiles" /\ next.copy = busy[w].copy
  BY <1>1, <1>2, <1>5, <1>6, ThenNext
<1>8. client'[i] = NoSite /\ ~client'[i].there /\ \A j \in Sites : j # i => client'[j] = client[j]
  BY <1>5, TypedSites, Consts DEF SitesTyped
<1>9. client[i].schema = s /\ db[s] = 0 BY <1>1, <1>3 DEF HandTrue
<1>10. \A r \in Schemas : Named(r)' = {} => r = s \/ Named(r) = {} BY <1>8, <1>9 DEF Named
<1>11. NamesDone(w)'
  <2>1. ASSUME NEW r \in Schemas, Named(r)' = {}
        PROVE  db[r] = 0 /\ (disk[r] \in {0, Nobodys} \/ r = s)
    BY <1>1, <1>2, <1>4, <1>9, <1>10, <2>1 DEF NamesDone
  <2> QED BY <1>3, <1>5, <1>7, <2>1 DEF NamesDone
<1>12. SitesDone(w)'
  <2>1. ASSUME NEW j \in Sites, client'[j].there, origin'[j].how \in {"inserted", "added"}
        PROVE  disk'[client'[j].schema] \in {0, j, Nobodys} /\ origin'[j].how = "added" /\ db'[client'[j].schema] = j
    <3>1. j # i /\ client'[j] = client[j] BY <1>8, <2>1
    <3> QED BY <1>1, <1>3, <1>4, <1>5, <2>1, <3>1 DEF SitesDone, At
  <2> QED BY <2>1 DEF SitesDone
<1> QED BY <1>7, <1>11, <1>12, GoesFresh

LEMMA DropFilesFresh ==
  ASSUME PanelTyped, HandsFit, OneAtATime, FreshSites, NEW w \in CeleryWorkers, SiteWork(w), DropFiles(w)
  PROVE  FreshSites'
<1>1. busy[w] \in Hand /\ HandTrue(w) /\ busy[w].do = "dropFiles" BY SiteHand DEF DropFiles, At
<1>2. Mine(w).kind = "delete" BY <1>1, DeletionHand
<1>3. PICK s \in Schemas : s = busy[w].copy.schema BY <1>1, DeletionHand
<1>4. SitesDone(w) /\ NamesDone(w) BY HalfDone
<1>5. /\ disk' = [disk EXCEPT ![s] = 0] \/ disk' = [disk EXCEPT ![s] = IF @ = 0 THEN 0 ELSE Nobodys]
      /\ UNCHANGED <<client, db, origin>>
  BY <1>3 DEF DropFiles
<1>6. disk'[s] \in {0, Nobodys} /\ \A r \in Schemas : r # s => disk'[r] = disk[r] BY <1>5, TypedSites DEF SitesTyped
<1>7. \A r : Named(r)' = Named(r) BY <1>5 DEF Named
<1>8. \A r \in Schemas : Named(r)' = {} => db'[r] = 0 /\ disk'[r] \in {0, Nobodys}
  BY <1>1, <1>2, <1>3, <1>4, <1>5, <1>6, <1>7 DEF NamesDone
<1>9. ASSUME NEW j \in Sites, client'[j].there, origin'[j].how \in {"inserted", "added"}
      PROVE  origin'[j].how = "added" /\ db'[client'[j].schema] = j /\ disk'[client'[j].schema] \in {0, j, Nobodys}
  <2>1. client[j].there /\ client[j].schema \in Schemas BY <1>5, <1>9, TypedSites DEF SitesTyped
  <2>2. origin[j].how = "added" /\ db[client[j].schema] = j /\ disk[client[j].schema] \in {0, j, Nobodys}
    BY <1>1, <1>4, <1>5, <1>9 DEF SitesDone, At
  <2> QED BY <1>5, <1>6, <2>1, <2>2
<1>10. Clean' BY <1>8, <1>9 DEF Clean
<1> QED BY <1>10, ClearFresh

\* A restore fills a name that no site has.
LEMMA FillFresh ==
  ASSUME PanelTyped, HandsFit, OneAtATime, FreshSites, NEW w \in CeleryWorkers, SiteWork(w),
         busy[w].do \in {"restoreSchema", "restoreData", "restoreFiles"},
         NEW next, Goes(w, next), next.do \in {"restoreData", "restoreFiles", "insert"},
         UNCHANGED <<client, origin>>, NEW s \in Schemas, s = Mine(w).schema,
         \A r \in Schemas : r # s => db'[r] = db[r] /\ disk'[r] = disk[r],
         disk'[s] = 0 \/ next.do = "insert"
  PROVE  FreshSites'
<1>1. busy[w] \in Hand /\ Mine(w).kind = "restore" /\ Named(s) = {} BY SiteHand, RestoreHand
<1>2. SitesDone(w) /\ NamesDone(w) BY HalfDone
<1>3. busy'[w] = next /\ Mine(w)' = Mine(w) BY <1>1, OthersStay
<1>4. \A r : Named(r)' = Named(r) BY DEF Named
<1>5. NamesDone(w)'
  BY <1>2, <1>4, <1>1, <1>3 DEF NamesDone
<1>6. SitesDone(w)'
  <2>1. ASSUME NEW j \in Sites, client'[j].there, origin'[j].how \in {"inserted", "added"}
        PROVE  origin'[j].how = "added" /\ db'[client'[j].schema] = j /\ disk'[client'[j].schema] \in {0, j, Nobodys}
    <3>1. client[j].there /\ client[j].schema \in Schemas /\ client[j].schema # s
      BY <1>1, <2>1, Elsewhere, TypedSites DEF SitesTyped
    <3>2. origin[j].how = "added" /\ db[client[j].schema] = j /\ disk[client[j].schema] \in {0, j, Nobodys}
      BY <1>2, <2>1 DEF SitesDone, At
    <3> QED BY <3>1, <3>2
  <2> QED BY <2>1 DEF SitesDone
<1> QED BY <1>5, <1>6, GoesFresh

LEMMA RestoreFresh ==
  ASSUME PanelTyped, HandsFit, OneAtATime, FreshSites, NEW w \in CeleryWorkers, SiteWork(w),
         RestoreSchema(w) \/ RestoreData(w) \/ RestoreFiles(w)
  PROVE  FreshSites'
<1>1. busy[w] \in Hand /\ busy[w].do \in {"restoreSchema", "restoreData", "restoreFiles"}
  BY SiteHand DEF RestoreSchema, RestoreData, RestoreFiles, At
<1>2. /\ Mine(w).kind = "restore" /\ Named(Mine(w).schema) = {} /\ disk[Mine(w).schema] = 0
      /\ "restoreFiles" \in StepsOf(Mine(w).kind) /\ "insert" \in StepsOf(Mine(w).kind)
  BY <1>1, RestoreHand
<1>3. PICK s \in Schemas : s = Mine(w).schema BY <1>1, RestoreHand
<1>4. CASE RestoreSchema(w)
  <2>1. CASE UNCHANGED sites
    <3>1. Clean BY <1>4, HalfDone DEF Halfway, RestoreSchema, At
    <3>2. Clean' BY <2>1, <3>1 DEF sites, Clean, Named
    <3> QED BY <3>2, ClearFresh
  <2>2. ASSUME Goes(w, [busy[w] EXCEPT !.do = "restoreData", !.from = archive]),
               db' = [db EXCEPT ![Mine(w).schema] = Nobodys], UNCHANGED <<client, domain, disk, archive, status, origin>>
        PROVE  FreshSites'
    <3>1. PICK next : next = [busy[w] EXCEPT !.do = "restoreData", !.from = archive] OBVIOUS
    <3>2. next.do = "restoreData" /\ Goes(w, next) BY <1>1, <2>2, <3>1 DEF Hand
    <3>3. \A r \in Schemas : r # s => db'[r] = db[r] /\ disk'[r] = disk[r] BY <1>3, <2>2, TypedSites DEF SitesTyped
    <3> QED BY <1>1, <1>2, <1>3, <2>2, <3>2, <3>3, FillFresh
  <2> QED BY <1>1, <1>4, <2>1, <2>2, RestoreSchemaGoes
<1>5. CASE RestoreData(w)
  <2>1. /\ db' = [db EXCEPT ![s] = IF archive.data = 0 THEN @ ELSE archive.data] /\ Then(w, "restoreFiles")
        /\ UNCHANGED <<client, disk, origin>>
    BY <1>3, <1>5 DEF RestoreData
  <2>2. PICK next : Goes(w, next) /\ next.do = "restoreFiles" BY <1>1, <1>2, <2>1, ThenNext
  <2>3. \A r \in Schemas : r # s => db'[r] = db[r] /\ disk'[r] = disk[r] BY <2>1, TypedSites DEF SitesTyped
  <2> QED BY <1>1, <1>2, <1>3, <2>1, <2>2, <2>3, FillFresh
<1>6. CASE RestoreFiles(w)
  <2>1. UNCHANGED <<client, db, origin>> BY <1>6 DEF RestoreFiles
  <2>2. disk' = [disk EXCEPT ![s] = IF archive.files # 0 THEN archive.files ELSE @] /\ Then(w, "insert")
    BY <1>2, <1>3, <1>6 DEF RestoreFiles
  <2>3. PICK next : Goes(w, next) /\ next.do = "insert" BY <1>1, <1>2, <2>2, ThenNext
  <2>4. \A r \in Schemas : r # s => db'[r] = db[r] /\ disk'[r] = disk[r] BY <2>1, <2>2, TypedSites DEF SitesTyped
  <2> QED BY <1>1, <1>3, <2>1, <2>3, <2>4, FillFresh
<1> QED BY <1>4, <1>5, <1>6

\* The other statements of a task on sites make and empty nothing.
LEMMA QuietFresh ==
  ASSUME PanelTyped, HandsFit, OneAtATime, FreshSites, NEW w \in CeleryWorkers, SiteWork(w),
         \/ Load(w) \/ AddDomain(w) \/ UpdateSite(w) \/ MakeFolder(w) \/ DumpData(w) \/ CopyFiles(w) \/ Verify(w)
  PROVE  FreshSites'
<1>1. busy[w].do \in {"load", "addDomain", "update", "makeFolder", "dumpData", "copyFiles", "verify"}
  BY DEF Load, AddDomain, UpdateSite, MakeFolder, DumpData, CopyFiles, Verify, At
<1>2. Clean BY <1>1, HalfDone DEF Halfway
<1>3. UNCHANGED <<db, disk, origin>>
  BY DEF Load, AddDomain, UpdateSite, MakeFolder, DumpData, CopyFiles, Verify, sites
<1>4. \A i \in Sites : client'[i].there = client[i].there /\ client'[i].schema = client[i].schema
  <2>1. CASE client' = client BY <2>1
  <2>2. CASE UpdateSite(w)
    <3>1. HandTrue(w) /\ busy[w].do = "update" /\ busy[w].copy \in SiteRow BY <2>2, SiteHand DEF UpdateSite, At
    <3>2. PICK new : new = [busy[w].copy EXCEPT !.active = (Mine(w).kind = "enable")] OBVIOUS
    <3>3. client' = client \/ client' = [client EXCEPT ![busy[w].site] = new] BY <2>2, <3>2 DEF UpdateSite
    <3>4. new.there = busy[w].copy.there /\ new.schema = busy[w].copy.schema BY <3>1, <3>2 DEF SiteRow
    <3>5. client[busy[w].site] = busy[w].copy BY <3>1 DEF HandTrue
    <3> QED BY <3>3, <3>4, <3>5, TypedSites DEF SitesTyped
  <2> QED BY <2>1, <2>2 DEF Load, AddDomain, MakeFolder, DumpData, CopyFiles, Verify, sites
<1>5. \A s : Named(s)' = Named(s) BY <1>4 DEF Named
<1>6. Clean' BY <1>2, <1>3, <1>4, <1>5 DEF Clean
<1> QED BY <1>6, ClearFresh

\* Nor do other tasks, the views, and the follow-ups.
LEMMA CheckFresh ==
  ASSUME PanelTyped, HandsFit, FreshSites, NEW w \in CeleryWorkers, TaskStep(w), ~SiteWork(w)
  PROVE  FreshSites'
<1>1. busy[w] \in Hand BY StepAt
<1>2. Mine(w).kind = "check" /\ busy[w].do \in StepsOf(Mine(w).kind) BY <1>1, TheTask DEF SiteWork, OnSites, Kinds
<1>3. busy[w].do \in {"clean", "record"} BY <1>2 DEF StepsOf
<1>4. UNCHANGED <<client, db, disk, origin>>
  BY <1>3 DEF TaskStep, Load, InsertSite, CreateSchema, AddDomain, DropSchema, DropRow, DropFiles, UpdateSite,
     MakeFolder, DumpData, CopyFiles, Verify, RestoreSchema, RestoreData, RestoreFiles, CleanUp, Record, At
<1>5. PICK next : Goes(w, next) \/ (Ends(w) /\ next = Resting) BY StepGoes
<1>6. \A v \in CeleryWorkers : v # w => busy'[v] = busy[v] /\ (busy[v] \in Hand => Mine(v)' = Mine(v))
  BY <1>1, <1>5, OthersStay
<1>7. \A v \in CeleryWorkers : SiteWork(v) => SiteWork(v)' /\ busy'[v] = busy[v] /\ Mine(v)' = Mine(v)
  BY <1>6 DEF SiteWork
<1> QED BY <1>4, <1>7, StillFresh

LEMMA TakeFresh ==
  ASSUME PanelTyped, HandsFit, FreshSites, NEW w \in CeleryWorkers, Take(w)
  PROVE  FreshSites'
<1>1. PICK t \in Tasks, hand \in Hand :
        /\ busy[w] = Resting /\ job[t].state = "queued" /\ job' = [job EXCEPT ![t].state = "started"]
        /\ busy' = [busy EXCEPT ![w] = hand] /\ hand.t = t
  BY TakesHand
<1>2. UNCHANGED <<client, db, disk, origin>> BY DEF Take, sites
<1>3. \A u \in Tasks : u # t => job'[u] = job[u] BY <1>1 DEF PanelTyped
<1>4. \A v \in CeleryWorkers : v # w => busy'[v] = busy[v] BY <1>1 DEF PanelTyped
<1>5. ASSUME NEW v \in CeleryWorkers, SiteWork(v)
      PROVE  SiteWork(v)' /\ busy'[v] = busy[v] /\ Mine(v)' = Mine(v)
  <2>1. busy[v] \in Hand /\ Mine(v).state = "started" /\ busy[v].t \in Tasks /\ Mine(v) = job[busy[v].t]
    BY <1>5, TheTask DEF SiteWork
  <2>2. busy[v].t # t /\ v # w
    <3>1. Resting \notin Hand BY DEF Resting, Hand, Steps
    <3> QED BY <1>1, <2>1, <3>1
  <2> QED BY <1>3, <1>4, <1>5, <2>1, <2>2 DEF SiteWork, Mine
<1> QED BY <1>2, <1>5, StillFresh

LEMMA ViewsFresh ==
  ASSUME PanelTyped, HandsFit, FreshSites, Submits \/ SaveTask \/ DayPasses \/ \E x \in CeleryWorkers : ListBackup(x)
  PROVE  FreshSites'
<1>1. CASE Submits
  <2>1. PICK t, request : Queues(t, request) BY <1>1, SubmitsQueues
  <2>2. /\ t \in Tasks /\ job[t] = NoJob /\ job' = [job EXCEPT ![t] = request]
        /\ UNCHANGED <<client, db, disk, origin, busy>>
    BY <2>1 DEF Queues, sites
  <2>3. \A u \in Tasks : u # t => job'[u] = job[u] BY <2>2 DEF PanelTyped
  <2>4. ASSUME NEW v \in CeleryWorkers, SiteWork(v)
        PROVE  SiteWork(v)' /\ busy'[v] = busy[v] /\ Mine(v)' = Mine(v)
    <3>1. Mine(v).state = "started" /\ busy[v].t \in Tasks /\ Mine(v) = job[busy[v].t] /\ NoJob.state = "none"
      BY <2>4, TheTask DEF SiteWork, NoJob, Request
    <3>2. busy[v].t # t BY <2>2, <3>1
    <3> QED BY <2>2, <2>3, <2>4, <3>1, <3>2 DEF SiteWork, Mine
  <2> QED BY <2>2, <2>4, StillFresh
<1>2. CASE SaveTask \/ DayPasses \/ \E x \in CeleryWorkers : ListBackup(x)
  <2>1. UNCHANGED <<client, db, disk, origin, busy, job>> BY <1>2 DEF SaveTask, DayPasses, ListBackup, sites
  <2>2. \A v \in CeleryWorkers : SiteWork(v) => SiteWork(v)' /\ busy'[v] = busy[v] /\ Mine(v)' = Mine(v)
    BY <2>1 DEF SiteWork, Mine
  <2> QED BY <2>1, <2>2, StillFresh
<1> QED BY <1>1, <1>2

LEMMA UploadFresh ==
  ASSUME PanelTyped, FreshSites, Upload
  PROVE  FreshSites'
<1>1. PICK i \in Present : disk[client[i].schema] = 0 /\ disk' = [disk EXCEPT ![client[i].schema] = i] BY DEF Upload
<1>2. UNCHANGED <<client, db, origin, job, busy>> BY DEF Upload
<1>3. i \in Sites /\ client[i].there BY <1>1 DEF Present
<1>4. PICK s \in Schemas : s = client[i].schema BY <1>3, TypedSites DEF SitesTyped
<1>5. disk'[s] = i /\ \A r \in Schemas : r # s => disk'[r] = disk[r] BY <1>1, <1>4, TypedSites DEF SitesTyped
<1>6. /\ \A j \in Sites : (Dropped(j) <=> Dropped(j)') /\ (Started(j) <=> Started(j)')
      /\ \A r \in Schemas : (Filling(r) <=> Filling(r)') /\ (Filled(r) <=> Filled(r)') /\ (Emptying(r) <=> Emptying(r)')
      /\ \A r : Named(r)' = Named(r)
  BY <1>2 DEF Dropped, Started, Filling, Filled, Emptying, Restores, SiteWork, Mine, At, Named
<1>7. i \in Named(s) BY <1>3, <1>4 DEF Named
<1>8. NamesFree' BY <1>2, <1>5, <1>6, <1>7 DEF FreshSites, NamesFree
<1>9. \A j \in Sites : client[j].there /\ j # i => client[j].schema # s /\ client[j].schema \in Schemas
  BY <1>3, <1>4, TypedSites DEF SitesTyped
<1>10. SitesFresh' BY <1>2, <1>4, <1>5, <1>6, <1>9 DEF FreshSites, SitesFresh
<1> QED BY <1>8, <1>10 DEF FreshSites

LEMMA FollowFresh ==
  ASSUME PanelTyped, FreshSites, NEW w \in CeleryWorkers, FollowStep(w), ~WorkerDies(w)
  PROVE  FreshSites'
<1>1. /\ UNCHANGED <<client, db, disk, origin, job>>
      /\ busy'[w] \notin Hand /\ \A v \in CeleryWorkers : v # w => busy'[v] = busy[v]
  BY FollowsNext
<1>2. busy[w] \notin Hand
  <2>1. busy[w] = Resting \/ busy[w].do \in {"read", "write"} BY DEF FollowStep, BeginPoll, ReadRemote, WriteTask, At
  <2> QED BY <2>1 DEF Resting, Hand, Steps
<1>3. \A v \in CeleryWorkers : SiteWork(v) => SiteWork(v)' /\ busy'[v] = busy[v] /\ Mine(v)' = Mine(v)
  BY <1>1, <1>2 DEF SiteWork, Mine
<1> QED BY <1>1, <1>3, StillFresh

LEMMA FreshKeeps ==
  ASSUME PanelTyped, HandsFit, Uncrossed, Fresh, PanelNext
  PROVE  Fresh'
<1> SUFFICES ASSUME Alone' PROVE FreshSites' BY DEF Fresh
<1>1. ~crossed' /\ deaths' = 0 BY DEF Alone
<1>2. CASE Submits \/ SaveTask \/ DayPasses \/ \E x \in CeleryWorkers : ListBackup(x)
  <2>1. crossed' = crossed /\ deaths' = deaths BY <1>2, SubmitsQueues DEF Queues, SaveTask, DayPasses, ListBackup
  <2> QED BY <1>1, <1>2, <2>1, ViewsFresh DEF Fresh, Alone
<1>3. CASE Upload
  BY <1>3, <1>1, UploadFresh DEF Upload, Fresh, Alone
<1>4. ASSUME NEW w \in CeleryWorkers, TaskStep(w) PROVE FreshSites'
  <2>1. crossed' = crossed /\ deaths' = deaths BY <1>4, StepGoes
  <2>2. FreshSites /\ OneAtATime BY <1>1, <2>1 DEF Fresh, Alone, Uncrossed
  <2>3. CASE ~SiteWork(w) BY <1>4, <2>2, <2>3, CheckFresh
  <2>4. CASE SiteWork(w)
    <3>1. ~CleanUp(w) /\ ~Record(w)
      <4>1. Mine(w).kind # "check" /\ Mine(w).kind \in Kinds /\ busy[w].do \in StepsOf(Mine(w).kind)
        BY <2>2, <2>4, SiteHand DEF SiteWork, OnSites
      <4>2. busy[w].do \notin {"clean", "record"} BY <4>1, StepKinds
      <4> QED BY <4>2 DEF CleanUp, Record, At
    <3> QED BY <1>4, <2>2, <2>4, <3>1, InsertFresh, CreateFresh, DropSchemaFresh, DropRowFresh, DropFilesFresh,
         RestoreFresh, QuietFresh DEF TaskStep
  <2> QED BY <2>3, <2>4
<1>5. ASSUME NEW w \in CeleryWorkers, Take(w) PROVE FreshSites'
  BY <1>1, <1>5, TakesHand, TakeFresh DEF Take, Fresh, Alone
<1>6. ASSUME NEW w \in CeleryWorkers, FollowStep(w) PROVE FreshSites'
  <2>1. crossed' = crossed /\ deaths \in Nat BY <1>6, FollowsNext DEF PanelTyped
  <2>2. deaths' = deaths /\ ~WorkerDies(w)
    <3>1. ~WorkerDies(w) BY <1>1, <2>1 DEF WorkerDies
    <3> QED BY <1>6, <3>1 DEF FollowStep, BeginPoll, ReadRemote, WriteTask
  <2> QED BY <1>1, <1>6, <2>1, <2>2, FollowFresh DEF Fresh, Alone
<1> QED BY <1>2, <1>3, <1>4, <1>5, <1>6, PanelStep

-----------------------------------------------------------------------------
\* A task that has ended stays so.
LEMMA EndedStays ==
  ASSUME PanelTyped, HandsFit, PanelNext
  PROVE  \A t \in Tasks : Ended(t) => job'[t] = job[t]
<1>1. CASE Submits
  BY <1>1, SubmitsQueues DEF Queues, PanelTyped, Ended, NoJob, Request
<1>2. CASE SaveTask \/ Upload \/ DayPasses \/ \E x \in CeleryWorkers : ListBackup(x)
  BY <1>2 DEF SaveTask, Upload, DayPasses, ListBackup
<1>3. ASSUME NEW w \in CeleryWorkers, TaskStep(w) PROVE \A t \in Tasks : Ended(t) => job'[t] = job[t]
  BY <1>3, StepAt, StepGoes, OthersStay, TheTask DEF Ended
<1>4. ASSUME NEW w \in CeleryWorkers, Take(w) PROVE \A t \in Tasks : Ended(t) => job'[t] = job[t]
  BY <1>4, TakesHand DEF PanelTyped, Ended
<1>5. ASSUME NEW w \in CeleryWorkers, FollowStep(w) PROVE \A t \in Tasks : Ended(t) => job'[t] = job[t]
  BY <1>5, FollowsNext
<1> QED BY <1>1, <1>2, <1>3, <1>4, <1>5, PanelStep

\* What a follow-up knows of the rows stays true while others work.
LEMMA FollowersStay ==
  ASSUME PanelTyped, HandsFit, PanelNext, \A w \in CeleryWorkers : ~FollowStep(w)
  PROVE  /\ \A v \in CeleryWorkers : FollowsUp(v)' => FollowsUp(v) /\ busy'[v] = busy[v]
         /\ met' = met /\ (row' = row \/ SaveTask)
<1>1. CASE Submits BY <1>1, SubmitsQueues DEF Queues, FollowsUp
<1>2. CASE SaveTask \/ Upload \/ DayPasses \/ \E x \in CeleryWorkers : ListBackup(x)
  BY <1>2 DEF SaveTask, Upload, DayPasses, ListBackup, FollowsUp
<1>3. ASSUME NEW w \in CeleryWorkers, NEW next, next \in Hand \/ next = Resting,
             \A v \in CeleryWorkers : v # w => busy'[v] = busy[v], busy'[w] = next
      PROVE  \A v \in CeleryWorkers : FollowsUp(v)' => FollowsUp(v) /\ busy'[v] = busy[v]
  BY <1>3 DEF Resting, Hand, Reader, Writer, Steps, FollowsUp
<1>4. ASSUME NEW w \in CeleryWorkers, TaskStep(w)
      PROVE  /\ \A v \in CeleryWorkers : FollowsUp(v)' => FollowsUp(v) /\ busy'[v] = busy[v]
             /\ met' = met /\ row' = row
  BY <1>4, StepGoes, StepAt, OthersStay, <1>3 DEF Goes
<1>5. ASSUME NEW w \in CeleryWorkers, Take(w)
      PROVE  /\ \A v \in CeleryWorkers : FollowsUp(v)' => FollowsUp(v) /\ busy'[v] = busy[v]
             /\ met' = met /\ row' = row
  <2>1. PICK hand \in Hand : busy' = [busy EXCEPT ![w] = hand] BY <1>5, TakesHand
  <2>2. busy'[w] = hand /\ \A v \in CeleryWorkers : v # w => busy'[v] = busy[v] BY <2>1 DEF PanelTyped
  <2>3. met' = met /\ row' = row BY <1>5 DEF Take
  <2> QED BY <1>3, <2>1, <2>2, <2>3
<1> QED BY <1>1, <1>2, <1>4, <1>5, PanelStep DEF SaveTask, Upload, DayPasses, ListBackup

\* The types of what a follow-up holds.
LEMMA TheFollow ==
  ASSUME PanelTyped, NEW w \in CeleryWorkers, FollowsUp(w)
  PROVE  /\ busy[w].left \subseteq Tasks /\ busy[w].ended \subseteq Tasks
         /\ busy[w] \in Writer => busy[w].t \in Tasks
         /\ busy[w] \in Writer <=> ~(busy[w] \in Reader)
         /\ busy[w] \in Writer <=> busy[w].do = "write"
BY DEF FollowsUp, Reader, Writer

LEMMA OthersFollow ==
  ASSUME PanelTyped, HandsFit, Followers, PanelNext, \A w \in CeleryWorkers : ~FollowStep(w)
  PROVE  Followers'
<1>1. /\ \A v \in CeleryWorkers : FollowsUp(v)' => FollowsUp(v) /\ busy'[v] = busy[v]
      /\ row' = row \/ SaveTask
  BY FollowersStay
<1>2. \A t \in Tasks : Ended(t) => Ended(t)' BY EndedStays DEF Ended
<1>3. \A t \in Tasks : /\ row[t] \in Final <=> row'[t] \in Final
                       /\ row[t] # "none" => row'[t] # "none"
  BY <1>1 DEF SaveTask, PanelTyped, Final, PanelTypeOK
<1>4. ASSUME NEW w \in CeleryWorkers, FollowsUp(w)' PROVE FollowTrue(w)'
  BY <1>1, <1>4, TheFollow, <1>2, <1>3 DEF Followers, FollowTrue
<1>5. \A v, w \in CeleryWorkers : FollowsUp(v)' /\ FollowsUp(w)' => v = w BY <1>1 DEF Followers
<1> QED BY <1>4, <1>5 DEF Followers

LEMMA RemoteFinal ==
  ASSUME NEW t \in Tasks, Ended(t)
  PROVE  Remote(t) \in Final
BY DEF Remote, Ended, Final

LEMMA PollsFollow ==
  ASSUME PanelTyped, HandsFit, Followers, NEW w \in CeleryWorkers, FollowStep(w), ~met'
  PROVE  Followers'
<1>1. busy'[w] \notin Hand /\ job' = job /\ \A v \in CeleryWorkers : v # w => busy'[v] = busy[v] BY FollowsNext
<1>2. \A t : Ended(t)' <=> Ended(t) BY <1>1 DEF Ended
<1>3. \A v \in CeleryWorkers : v # w /\ FollowsUp(v)' => FollowsUp(v) BY <1>1 DEF FollowsUp
<1>4. CASE BeginPoll(w)
  <2>1. \A v \in CeleryWorkers : busy[v].do \notin {"read", "write"} BY <1>4 DEF BeginPoll
  <2>2. \A v \in CeleryWorkers : ~FollowsUp(v) BY <2>1, TheHand DEF FollowsUp
  <2>3. \A v \in CeleryWorkers : FollowsUp(v)' => v = w BY <1>3, <2>2
  <2>4. PICK next : next = IF Open = {} THEN Resting ELSE Begun(Open) OBVIOUS
  <2>5. busy' = [busy EXCEPT ![w] = next] /\ row' = row BY <1>4, <2>4 DEF BeginPoll, Begun
  <2>6. busy'[w] = next BY <2>5 DEF PanelTyped
  <2>7. FollowsUp(w)' => next = Begun(Open) /\ next \notin Writer
    BY <2>4, <2>6 DEF Resting, Reader, Writer, Begun, FollowsUp
  <2>8. /\ Begun(Open).left = {t \in Tasks : row[t] \notin Final \cup {"none"}}
        /\ Begun(Open).ended = {t \in Tasks : row[t] # "none" /\ Ended(t)}
    BY DEF Begun, Open
  <2>9. FollowsUp(w)' => FollowTrue(w)' BY <1>2, <2>5, <2>6, <2>7, <2>8 DEF FollowTrue
  <2> QED BY <2>3, <2>9 DEF Followers
<1>5. CASE ReadRemote(w)
  <2>1. PICK t \in busy[w].left : busy' = [busy EXCEPT ![w] = Looked(w, t)] BY <1>5 DEF ReadRemote, Looked
  <2>2. busy[w] \in Reader /\ row' = row BY <1>5, TheHand DEF ReadRemote, At
  <2>3. FollowsUp(w) /\ FollowTrue(w) /\ busy[w] \notin Writer BY <2>2 DEF Followers, FollowsUp, Reader, Writer
  <2>4. \A v \in CeleryWorkers : FollowsUp(v)' => v = w BY <1>3, <2>3 DEF Followers
  <2>5. busy'[w] = Looked(w, t) BY <2>1 DEF PanelTyped
  <2>6. /\ Looked(w, t).t = t /\ Looked(w, t).left = busy[w].left \ {t} /\ Looked(w, t).ended = busy[w].ended
        /\ Looked(w, t).state = Remote(t)
    BY DEF Looked
  <2>7. t \in Tasks /\ t \in busy[w].left BY <2>1, <2>3, TheFollow
  <2>8. FollowsUp(w)' => busy'[w] \in Writer BY <2>5 DEF FollowsUp, Looked, Reader, Writer
  <2>9. FollowsUp(w)' => FollowTrue(w)'
    <3> SUFFICES ASSUME FollowsUp(w)' PROVE FollowTrue(w)' OBVIOUS
    <3>1. \A u \in busy'[w].left : row'[u] \notin Final BY <2>2, <2>3, <2>5, <2>6 DEF FollowTrue
    <3>2. busy'[w].ended \subseteq Tasks /\ \A u \in busy'[w].ended : row'[u] # "none" /\ Ended(u)'
      BY <1>2, <2>2, <2>3, <2>5, <2>6 DEF FollowTrue
    <3>3. \A u \in busy'[w].ended : (row'[u] \in Final \/ u \in busy'[w].left) \/ (u = busy'[w].t /\ busy'[w].state \in Final)
      BY <2>2, <2>5, <2>6, <2>3, <2>7, RemoteFinal DEF FollowTrue
    <3>4. row'[busy'[w].t] \notin Final /\ busy'[w].t \notin busy'[w].left
      BY <2>2, <2>3, <2>5, <2>6, <2>7 DEF FollowTrue
    <3> QED BY <2>8, <3>1, <3>2, <3>3, <3>4 DEF FollowTrue
  <2> QED BY <2>4, <2>9 DEF Followers
<1>6. CASE WriteTask(w)
  <2>1. busy[w] \in Writer BY <1>6, TheHand DEF WriteTask, At
  <2>2. FollowsUp(w) /\ FollowTrue(w) BY <2>1 DEF Followers, FollowsUp
  <2>3. \A v \in CeleryWorkers : FollowsUp(v)' => v = w BY <1>3, <2>2 DEF Followers
  <2>4. /\ busy[w].t \in Tasks /\ busy[w].state \in Final \cup {"PENDING", "STARTED"}
        /\ busy[w].left \subseteq Tasks /\ busy[w].ended \subseteq Tasks
    BY <2>1 DEF Writer
  <2>5. PICK next : next = IF busy[w].left = {} THEN Resting ELSE RestOf(w) OBVIOUS
  <2>6. busy' = [busy EXCEPT ![w] = next] /\ row' = [row EXCEPT ![busy[w].t] = busy[w].state]
    BY <1>6, <2>5 DEF WriteTask, RestOf
  <2>7. busy'[w] = next BY <2>6 DEF PanelTyped
  <2>8. row'[busy[w].t] = busy[w].state /\ \A t \in Tasks : t # busy[w].t => row'[t] = row[t]
    BY <2>4, <2>6 DEF PanelTyped, PanelTypeOK
  <2>9. FollowsUp(w)' => next = RestOf(w) /\ next \notin Writer
    BY <2>5, <2>7 DEF Resting, Reader, Writer, RestOf, FollowsUp
  <2>10. RestOf(w).left = busy[w].left /\ RestOf(w).ended = busy[w].ended BY DEF RestOf
  <2>11. FollowsUp(w)' => FollowTrue(w)'
    <3> SUFFICES ASSUME FollowsUp(w)' PROVE FollowTrue(w)' OBVIOUS
    <3>1. \A u \in busy[w].left : u # busy[w].t /\ row'[u] \notin Final BY <2>1, <2>2, <2>4, <2>8 DEF FollowTrue
    <3>2. \A u \in busy[w].ended : row'[u] # "none" /\ Ended(u)'
      BY <2>4, <1>2, <2>2, <2>8 DEF Final, FollowTrue
    <3>3. \A u \in busy[w].ended : row'[u] \in Final \/ u \in busy[w].left BY <2>1, <2>2, <2>4, <2>8 DEF FollowTrue
    <3> QED BY <2>4, <2>7, <2>9, <2>10, <3>1, <3>2, <3>3 DEF FollowTrue
  <2> QED BY <2>3, <2>11 DEF Followers
<1>7. CASE WorkerDies(w)
  <2>1. busy'[w] = Resting /\ row' = row BY <1>7 DEF WorkerDies, PanelTyped
  <2>2. ~FollowsUp(w)' BY <2>1 DEF FollowsUp, Resting, Reader, Writer
  <2>3. \A v \in CeleryWorkers : FollowsUp(v)' => v # w /\ FollowsUp(v) /\ busy'[v] = busy[v] BY <1>1, <1>3, <2>2
  <2>4. \A v \in CeleryWorkers : FollowsUp(v)' => FollowTrue(v)' BY <1>2, <2>1, <2>3 DEF Followers, FollowTrue
  <2> QED BY <2>3, <2>4 DEF Followers
<1> QED BY <1>4, <1>5, <1>6, <1>7 DEF FollowStep

LEMMA FollowUpsKeep ==
  ASSUME PanelTyped, HandsFit, FollowUps, PanelNext
  PROVE  FollowUps'
<1> SUFFICES ASSUME ~met' PROVE Followers' BY DEF FollowUps
<1>1. CASE \A w \in CeleryWorkers : ~FollowStep(w)
  <2>1. ~met BY <1>1, FollowersStay
  <2> QED BY <1>1, <2>1, OthersFollow DEF FollowUps
<1>2. ASSUME NEW w \in CeleryWorkers, FollowStep(w) PROVE Followers'
  <2>1. ~met BY <1>2 DEF FollowStep, BeginPoll, ReadRemote, WriteTask, WorkerDies
  <2> QED BY <1>2, <2>1, PollsFollow DEF FollowUps
<1> QED BY <1>1, <1>2

-----------------------------------------------------------------------------
\* One site, no task.
LEMMA PanelStarts ==
  ASSUME PanelInit
  PROVE  PanelInv
<1>1. PICK s \in Schemas, d \in Domains, files \in {0, 1} :
        /\ client = [i \in Sites |-> IF i = 1 THEN [there |-> TRUE, schema |-> s, active |-> TRUE] ELSE NoSite]
        /\ domain = [e \in Domains |-> IF e = d THEN 1 ELSE 0]
        /\ db = [r \in Schemas |-> IF r = s THEN 1 ELSE 0]
        /\ disk = [r \in Schemas |-> IF r = s THEN files ELSE 0]
        /\ archive \in {NoArchive, [part |-> "whole", data |-> 1, files |-> files, listed |-> TRUE]}
        /\ row = [t \in Tasks |-> "none"]
        /\ job = [t \in Tasks |-> NoJob]
        /\ old = {}
        /\ form = 0
        /\ polls = 0
        /\ busy = [w \in CeleryWorkers |-> Resting]
        /\ status = [i \in Sites |-> IF i = 1 THEN 2 ELSE 0]
        /\ origin = [i \in Sites |-> IF i = 1 THEN [Unmade EXCEPT !.how = "added"] ELSE Unmade]
        /\ crossed = FALSE
        /\ met = FALSE
        /\ deaths = 0
  BY Zenon DEF PanelInit
<1>2. /\ row = [t \in Tasks |-> "none"] /\ job = [t \in Tasks |-> NoJob] /\ old = {} /\ form = 0 /\ polls = 0
      /\ busy = [w \in CeleryWorkers |-> Resting]
      /\ status = [i \in Sites |-> IF i = 1 THEN 2 ELSE 0]
      /\ origin = [i \in Sites |-> IF i = 1 THEN [Unmade EXCEPT !.how = "added"] ELSE Unmade]
      /\ ~crossed /\ crossed \in BOOLEAN /\ ~met /\ met \in BOOLEAN /\ deaths = 0
  BY <1>1
<1>3. deaths \in Nat BY <1>2
<1>4. 1 \in Sites /\ 1 \in 0..MaxSites /\ 0 \in 0..MaxSites /\ 1 \in Content /\ 0 \in Content /\ files \in Content
  BY PanelAssumption DEF Sites, Content, Nobodys
<1>5. PICK new : new = [there |-> TRUE, schema |-> s, active |-> TRUE] OBVIOUS
<1>6. new \in SiteRow /\ new.there /\ new.schema = s BY <1>5 DEF SiteRow
<1>7. PICK first : first = [Unmade EXCEPT !.how = "added"] OBVIOUS
<1>8. /\ first \in [how : {"unmade", "inserted", "added", "restored"}, from : Archive] /\ first.how = "added"
      /\ Unmade \in [how : {"unmade", "inserted", "added", "restored"}, from : Archive] /\ first # Unmade
      /\ Unmade.how = "unmade"
  BY <1>7, Consts DEF Unmade
<1>9. /\ client \in [Sites -> SiteRow] /\ client[1] = new /\ \A i \in Sites : client[i].there => i = 1
      /\ origin \in [Sites -> [how : {"unmade", "inserted", "added", "restored"}, from : Archive]] /\ origin[1] = first
  BY <1>1, <1>2, <1>4, <1>5, <1>6, <1>7, <1>8, Consts
<1>10. /\ domain \in [Domains -> 0..MaxSites] /\ db \in [Schemas -> Content] /\ disk \in [Schemas -> Content]
      /\ db[s] = 1 /\ disk[s] \in {0, 1} /\ \A r \in Schemas : r # s => db[r] = 0 /\ disk[r] = 0
  BY <1>1, <1>4
<1>11. archive \in Archive
  <2>1. CASE archive = NoArchive BY <2>1, Consts
  <2>2. CASE archive = [part |-> "whole", data |-> 1, files |-> files, listed |-> TRUE] BY <1>4, <2>2 DEF Archive
  <2> QED BY <1>1, <2>1, <2>2
<1>12. NoJob \in TaskJob /\ JobFits(NoJob) /\ NoJob.kind = "none" /\ NoJob.state = "none"
  BY Consts DEF NoJob, Request, TaskJob, JobFits, Kinds
<1>13. Resting \notin Hand \cup Reader \cup Writer /\ Resting.do = "rest" BY DEF Resting, Hand, Reader, Writer, Steps
<1>14. 0 \in 0..MaxTasks BY PanelAssumption
<1>15. PanelTypeOK BY <1>2, <1>9, <1>10, <1>11, <1>14 DEF PanelTypeOK, SiteRow, Final
<1>16. PanelTyped BY <1>2, <1>6, <1>9, <1>12, <1>15, <1>3 DEF PanelTyped
<1>17. HandsFit BY <1>2, <1>13 DEF HandsFit
<1>18. PollsPaid
  BY <1>2, TasksCount DEF DoneTasks, PollsPaid
<1>19. StatusInv
  BY <1>2, SubsetCount DEF Recorders, StatusInv
<1>20. \A w \in CeleryWorkers : ~SiteWork(w) /\ ~FollowsUp(w) BY <1>2, <1>13 DEF SiteWork, FollowsUp
<1>21. Uncrossed
  <2>1. ArchiveInv BY <1>2, <1>11, <1>12 DEF ArchiveInv
  <2>2. RestoredInv BY <1>8, <1>9 DEF RestoredInv
  <2> QED BY <1>20, <2>1, <2>2 DEF Uncrossed, OneAtATime, OneOnSites
<1>22. Fresh
  <2>1. SitesFresh BY <1>6, <1>8, <1>9, <1>10 DEF SitesFresh
  <2>2. 1 \in Named(s) BY <1>4, <1>6, <1>9 DEF Named
  <2>3. NamesFree BY <1>10, <2>2 DEF NamesFree
  <2> QED BY <2>1, <2>3 DEF Fresh, FreshSites
<1>23. FollowUps BY <1>20 DEF FollowUps, Followers
<1> QED BY <1>16, <1>17, <1>18, <1>19, <1>21, <1>22, <1>23 DEF PanelInv

LEMMA PanelKeeps ==
  ASSUME PanelInv, [PanelNext]_panel
  PROVE  PanelInv'
<1>1. CASE PanelNext
  BY <1>1, TypesKeep, StatusKeeps, UncrossedKeeps, FreshKeeps, FollowUpsKeep DEF PanelInv
<1>2. CASE UNCHANGED panel
  <2>1. /\ UNCHANGED <<client, domain, db, disk, archive, row, job, old, form, polls>>
        /\ UNCHANGED <<busy, status, origin, crossed, met, deaths>>
    BY <1>2 DEF panel
  <2>2. PanelTyped' BY <2>1 DEF PanelInv, PanelTyped, PanelTypeOK
  <2>3. HandsFit' /\ PollsPaid' /\ StatusInv'
    BY <2>1 DEF PanelInv, HandsFit, PollsPaid, StatusInv, DoneTasks, Recorders, Mine, At
  <2>4. \A w \in CeleryWorkers : (SiteWork(w)' <=> SiteWork(w)) /\ busy'[w] = busy[w] /\ Mine(w)' = Mine(w)
    BY <2>1 DEF SiteWork, Mine
  <2>5. Uncrossed'
    <3>1. \A i \in Sites : Deleting(i)' <=> Deleting(i) BY <2>1 DEF Deleting
    <3>2. OneAtATime => ArchiveInv' BY <2>1, ArchiveStays DEF OneAtATime
    <3>3. OneAtATime => OneAtATime' BY <2>1, <2>4, <3>1, <3>2, StillApart DEF PanelInv
    <3> QED BY <2>1, <3>3 DEF PanelInv, Uncrossed
  <2>6. Fresh'
    BY <2>1, <2>4, StillFresh DEF PanelInv, Fresh, Alone
  <2>7. FollowUps'
    BY <2>1 DEF FollowTrue, Ended, PanelInv, FollowUps, Followers, FollowsUp
  <2> QED BY <2>2, <2>3, <2>5, <2>6, <2>7 DEF PanelInv
<1> QED BY <1>1, <1>2

LEMMA PanelAnswers ==
  ASSUME PanelInv
  PROVE  PanelSound
<1>1. PanelTypeOK BY DEF PanelInv, PanelTyped
<1>2. ASSUME AtRest PROVE \A w \in CeleryWorkers : ~SiteWork(w) BY <1>2 DEF AtRest, SiteWork, Hand, Steps
<1>3. FreshStart
  <2>1. ASSUME Alone, AtRest PROVE SitesFresh /\ \A i \in Sites : ~Dropped(i)
    BY <1>2, <2>1 DEF PanelInv, Fresh, FreshSites, Dropped
  <2> QED BY <2>1 DEF FreshStart, SitesFresh, Present
<1>4. RestoredWhole BY DEF RestoredWhole, PanelInv, Uncrossed, OneAtATime, RestoredInv, Present
<1>5. StatusBound
  <2>1. ASSUME NEW i \in Sites PROVE status[i] <= 2 + Cardinality(CeleryWorkers)
    <3>1. Recorders(i) \in SUBSET CeleryWorkers BY DEF Recorders
    <3>2. Cardinality(Recorders(i)) \in Nat /\ Cardinality(CeleryWorkers) \in Nat BY <3>1, SubsetCount
    <3>3. status[i] \in Nat /\ status[i] + Cardinality(Recorders(i)) <= 2 + Cardinality(CeleryWorkers)
      BY DEF PanelInv, StatusInv
    <3> QED BY <3>2, <3>3
  <2> QED BY <2>1 DEF StatusBound
<1> QED BY <1>1, <1>3, <1>4, <1>5 DEF PanelSound

\* Whatever a view submits, and in whatever order workers execute it and die:
\* while tasks on sites do not overlap, a new site has its own schema and files
\* and a restored one those of its backup (control/tasks.py), and the records of
\* the search index stay few.
THEOREM PanelHolds == PanelSpec => []PanelSound
<1> QED BY PanelStarts, PanelKeeps, PanelAnswers, PTL DEF PanelSpec

\* FollowUpSettles and OutcomeStays of a single step.
SettlesNow ==
  \A w \in CeleryWorkers :
    ~met /\ At(w, "write") /\ busy'[w] = Resting /\ row' # row => \A t \in busy[w].ended : row'[t] \in Final
StaysNow == ~met => \A t \in Tasks : row[t] \in Final => row'[t] = row[t]

LEMMA RowWritten ==
  ASSUME PanelInv, PanelNext, row' # row
  PROVE  \/ SaveTask
         \/ \E w \in CeleryWorkers : WriteTask(w) /\ busy[w] \in Writer
<1>1. PanelTyped /\ HandsFit BY DEF PanelInv
<1>2. CASE \A w \in CeleryWorkers : ~FollowStep(w) BY <1>1, <1>2, FollowersStay
<1>3. ASSUME NEW w \in CeleryWorkers, FollowStep(w)
      PROVE  WriteTask(w) /\ busy[w] \in Writer
  <2>1. WriteTask(w) BY <1>3 DEF FollowStep, BeginPoll, ReadRemote, WorkerDies
  <2> QED BY <1>1, <2>1, TheHand DEF WriteTask, At
<1> QED BY <1>2, <1>3

LEMMA RowSteps ==
  ASSUME PanelInv, [PanelNext]_panel
  PROVE  [SettlesNow]_panel /\ [StaysNow]_panel
<1> SUFFICES ASSUME PanelNext, ~met, row' # row
             PROVE  SettlesNow /\ StaysNow
  BY DEF SettlesNow, StaysNow
<1>1. PanelTyped /\ HandsFit /\ Followers BY DEF PanelInv, FollowUps
<1>2. CASE SaveTask
  <2>1. form # 0 /\ row' = [row EXCEPT ![form] = "PENDING"] /\ busy' = busy /\ row[form] = "none"
    BY <1>1, <1>2 DEF SaveTask, PanelTyped
  <2>2. StaysNow BY <1>1, <2>1 DEF StaysNow, PanelTyped, PanelTypeOK, Final
  <2>3. SettlesNow BY <2>1 DEF SettlesNow, At, Resting
  <2> QED BY <2>2, <2>3
<1>3. ASSUME NEW w \in CeleryWorkers, WriteTask(w), busy[w] \in Writer
      PROVE  SettlesNow /\ StaysNow
  <2>1. FollowsUp(w) /\ FollowTrue(w) BY <1>1, <1>3 DEF Followers, FollowsUp
  <2>2. /\ busy[w].t \in Tasks /\ busy[w].state \in Final \cup {"PENDING", "STARTED"}
        /\ busy[w].left \subseteq Tasks /\ busy[w].ended \subseteq Tasks
    BY <1>3 DEF Writer
  <2>3. row' = [row EXCEPT ![busy[w].t] = busy[w].state] BY <1>3 DEF WriteTask
  <2>4. row'[busy[w].t] = busy[w].state /\ \A t \in Tasks : t # busy[w].t => row'[t] = row[t]
    BY <1>1, <2>2, <2>3 DEF PanelTyped, PanelTypeOK
  <2>5. row[busy[w].t] \notin Final BY <1>3, <2>1 DEF FollowTrue
  <2>6. StaysNow BY <2>4, <2>5 DEF StaysNow
  <2>7. busy'[w] = Resting => busy[w].left = {}
    BY <1>3, <1>1 DEF RestOf, Resting, WriteTask, PanelTyped
  <2>8. busy'[w] = Resting => \A t \in busy[w].ended : row'[t] \in Final
    BY <2>7, <2>1, <2>2, <2>5, <2>4 DEF FollowTrue
  <2>9. \A v \in CeleryWorkers : At(v, "write") => v = w BY <1>1, <2>1, TheHand DEF Followers, FollowsUp, At
  <2>10. SettlesNow BY <2>8, <2>9 DEF SettlesNow
  <2> QED BY <2>6, <2>10
<1> QED BY <1>2, <1>3, RowWritten

\* followup_task_complete: a follow-up that runs alone settles every task that had
\* ended when it began, and never takes back an outcome that is shown.
THEOREM PanelRowsHold == PanelSpec => FollowUpSettles /\ OutcomeStays
<1>1. FollowUpSettles <=> [][SettlesNow]_panel BY PTL DEF FollowUpSettles, SettlesNow
<1>2. OutcomeStays <=> [][StaysNow]_panel BY PTL DEF OutcomeStays, StaysNow
<1> QED BY <1>1, <1>2, PanelStarts, PanelKeeps, RowSteps, PTL DEF PanelSpec
=============================================================================
